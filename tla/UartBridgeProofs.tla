-------------------------- MODULE UartBridgeProofs --------------------------
(***************************************************************************)
(* Theorems about UartBridge, for every set of receivers and every value   *)
(* of the bounds.                                                          *)
(***************************************************************************)
EXTENDS UartBridge, SequenceTheorems, TLAPS

-----------------------------------------------------------------------------
(* Control: where the tasks are and who holds the mutex *)

\* The part of the type invariant that the control arguments use.
ControlOK ==
  /\ pc \in [Tasks -> HttpdPcs \cup MeshPcs \cup ReaderPcs \cup ReceiverPcs]
  /\ pc[Httpd] \in HttpdPcs /\ pc[Mesh] \in MeshPcs
  /\ pc[Reader] \in ReaderPcs
  /\ \A v \in Receivers : pc[v] \in ReceiverPcs
  /\ mutex \in Tasks \cup {Free}

MutexInv == ControlOK /\ LineExclusive

LEMMA TaskNames ==
  /\ Httpd \in Tasks /\ Mesh \in Tasks /\ Reader \in Tasks
  /\ Receivers \subseteq Tasks
  /\ Free \notin Tasks
  /\ Httpd \notin Receivers /\ Mesh \notin Receivers /\ Reader \notin Receivers
BY BridgeAssumption DEF Tasks, Httpd, Mesh, Reader, Free

LEMMA MutexInit == Init => MutexInv
BY TaskNames DEF Init, MutexInv, ControlOK, LineExclusive, Critical, Tasks,
   Httpd, Mesh, Reader, Free, HttpdPcs, MeshPcs, ReaderPcs, ReceiverPcs

LEMMA MutexHttpd == MutexInv /\ HttpdNext => MutexInv'
<1> USE TaskNames DEF MutexInv, ControlOK, LineExclusive, Critical, Take, Goto,
    CanTake, HttpdPcs, MeshPcs, ReaderPcs, ReceiverPcs, Tasks,
    Httpd, Mesh, Reader, Free, taskVars
<1> SUFFICES ASSUME MutexInv, HttpdNext PROVE MutexInv'
  OBVIOUS
<1>1. CASE OutIgnored \/ AnsIgnored
  BY <1>1 DEF OutIgnored, AnsIgnored, vars
<1>2. CASE OutAccept
  BY <1>2 DEF OutAccept
<1>3. CASE OutClear
  BY <1>3 DEF OutClear
<1>4. CASE OutTake
  BY <1>4 DEF OutTake
<1>5. CASE OutTakeTimeout
  BY <1>5 DEF OutTakeTimeout
<1>6. CASE OutSend
  BY <1>6 DEF OutSend
<1>7. CASE WaitOkReport(Httpd)
  BY <1>7 DEF WaitOkReport
<1>8. CASE OutOk
  BY <1>8 DEF OutOk
<1>9. CASE OutNotOk
  BY <1>9 DEF OutNotOk
<1>10. CASE OutTimeout
  BY <1>10 DEF OutTimeout
<1>11. CASE OutGive
  BY <1>11 DEF OutGive
<1>12. CASE AnsStart
  BY <1>12 DEF AnsStart
<1>13. CASE AnsChunk
  BY <1>13 DEF AnsChunk
<1>14. CASE AnsEnd
  BY <1>14 DEF AnsEnd
<1>15. QED
  BY <1>1, <1>2, <1>3, <1>4, <1>5, <1>6, <1>7, <1>8, <1>9, <1>10, <1>11,
     <1>12, <1>13, <1>14 DEF HttpdNext

LEMMA MutexReceiver ==
  ASSUME NEW v \in Receivers, MutexInv, RecvNext(v) PROVE MutexInv'
<1> USE TaskNames DEF MutexInv, ControlOK, LineExclusive, Critical, Take, Goto,
    CanTake, HttpdPcs, MeshPcs, ReaderPcs, ReceiverPcs, Tasks,
    Httpd, Mesh, Reader, Free, taskVars
<1>1. CASE RecvTake(v)
  BY <1>1 DEF RecvTake
<1>2. CASE RecvEnd(v)
  BY <1>2 DEF RecvEnd
<1>3. CASE RecvReport(v) \/ RecvError(v)
  BY <1>3 DEF RecvReport, RecvError
<1>4. CASE RecvForward(v)
  BY <1>4 DEF RecvForward, Receiving
<1>5. CASE RecvMark(v)
  BY <1>5 DEF RecvMark
<1>6. CASE RecvNothing(v)
  BY <1>6 DEF RecvNothing, Receiving
<1>7. CASE RecvTimeout(v)
  BY <1>7 DEF RecvTimeout
<1>8. CASE RecvNap(v)
  BY <1>8 DEF RecvNap
<1>9. CASE RecvGive(v)
  BY <1>9 DEF RecvGive
<1>10. QED
  BY <1>1, <1>2, <1>3, <1>4, <1>5, <1>6, <1>7, <1>8, <1>9 DEF RecvNext

LEMMA MutexMesh == MutexInv /\ MeshNext => MutexInv'
<1> USE TaskNames DEF MutexInv, ControlOK, LineExclusive, Critical, Take, Goto,
    CanTake, HttpdPcs, MeshPcs, ReaderPcs, ReceiverPcs, Tasks,
    Httpd, Mesh, Reader, Free, taskVars
<1> SUFFICES ASSUME MutexInv, MeshNext PROVE MutexInv'
  OBVIOUS
<1>1. CASE PollWake
  BY <1>1 DEF PollWake
<1>2. CASE PollTake
  BY <1>2 DEF PollTake
<1>3. CASE PollSend
  BY <1>3 DEF PollSend
<1>4. CASE WaitOkReport(Mesh)
  BY <1>4 DEF WaitOkReport
<1>5. CASE PollOk
  BY <1>5 DEF PollOk
<1>6. CASE PollNotOk
  BY <1>6 DEF PollNotOk
<1>7. CASE PollTimeout
  BY <1>7 DEF PollTimeout
<1>8. CASE PollStatus
  BY <1>8 DEF PollStatus
<1>9. CASE PollNoStatus
  BY <1>9 DEF PollNoStatus
<1>10. CASE PollGive
  BY <1>10 DEF PollGive
<1>11. QED
  BY <1>1, <1>2, <1>3, <1>4, <1>5, <1>6, <1>7, <1>8, <1>9, <1>10 DEF MeshNext

LEMMA MutexReader == MutexInv /\ ReaderNext => MutexInv'
<1> USE TaskNames DEF MutexInv, ControlOK, LineExclusive, Critical, Take, Goto,
    CanTake, HttpdPcs, MeshPcs, ReaderPcs, ReceiverPcs, Tasks,
    Httpd, Mesh, Reader, Free, taskVars
<1> SUFFICES ASSUME MutexInv, ReaderNext PROVE MutexInv'
  OBVIOUS
<1>1. CASE ReadTake
  BY <1>1 DEF ReadTake
<1>2. CASE ReadNothing
  BY <1>2 DEF ReadNothing
<1>3. CASE ReadOther
  BY <1>3 DEF ReadOther
<1>4. CASE ReadReport
  BY <1>4 DEF ReadReport
<1>5. CASE ReadAdd
  BY <1>5 DEF ReadAdd
<1>6. CASE ReadWake
  BY <1>6 DEF ReadWake
<1>7. QED
  BY <1>1, <1>2, <1>3, <1>4, <1>5, <1>6 DEF ReaderNext

\* What the sensor and the report buffer do touches neither pc nor mutex.
LEMMA MutexSensor ==
  ASSUME MutexInv, UNCHANGED taskVars PROVE MutexInv'
BY DEF MutexInv, ControlOK, LineExclusive, Critical, taskVars

LEMMA MutexStep == MutexInv /\ [Next]_vars => MutexInv'
<1> SUFFICES ASSUME MutexInv, [Next]_vars PROVE MutexInv'
  OBVIOUS
<1>1. CASE SensorNext \/ UNCHANGED vars
  BY <1>1, MutexSensor DEF SensorNext, SensorEmit, SensorReport, ReportDrain,
     vars, taskVars
<1>2. QED
  BY <1>1, MutexHttpd, MutexReceiver, MutexMesh, MutexReader DEF Next

LEMMA MutexInvariant == Spec => []MutexInv
BY MutexInit, MutexStep, PTL DEF Spec

\* _uart_mutex does its work on every path of the four handlers: the line is
\* worked on by its holder alone, and no path keeps it or gives it twice.
\* No assumption on the sensor, the app or the timing.
THEOREM MutualExclusion == Spec => []LineExclusive
<1>1. MutexInv => LineExclusive
  BY DEF MutexInv
<1>2. QED
  BY <1>1, MutexInvariant, PTL

-----------------------------------------------------------------------------
(* Types *)

Bounds ==
  /\ RxCap \in Nat /\ LineCap \in Nat /\ QueueCap \in Nat
  /\ ReportCap \in Nat /\ MaxSegs \in Nat

LEMMA BoundsAreNat == Bounds
BY BridgeAssumption DEF Bounds

LEMMA StaleIsSeq ==
  ASSUME NEW s \in Seq(Message)
  PROVE  Stale(s) \in Seq(Message) /\ Len(Stale(s)) = Len(s)
<1>1. Stale(s) \in [1..Len(s) -> Message]
  <2>1. s \in [1..Len(s) -> Message] /\ DOMAIN s = 1..Len(s)
    BY LenProperties
  <2>2. \A i \in 1..Len(s) : Msg(s[i].kind, FALSE) \in Message
    BY <2>1 DEF Message, Msg
  <2>3. QED
    BY <2>1, <2>2 DEF Stale
<1>2. Len(s) \in Nat
  OBVIOUS
<1>3. QED
  BY <1>1, <1>2, IsASeq

LEMMA ScriptIsSeq ==
  ASSUME NEW kinds \in Seq(Kinds)
  PROVE  Script(kinds) \in Seq(Message) /\ Len(Script(kinds)) = Len(kinds)
<1>1. Script(kinds) \in [1..Len(kinds) -> Message]
  BY DEF Script, Message, Msg
<1>2. Len(kinds) \in Nat
  OBVIOUS
<1>3. QED
  BY <1>1, <1>2, IsASeq

LEMMA RepliesAreKinds ==
  CommandReplies \subseteq Seq(Kinds) /\ PollReplies \subseteq Seq(Kinds)
<1>1. \A n \in 0..MaxSegs : Segs(n) \in Seq(Kinds)
  <2> SUFFICES ASSUME NEW n \in 0..MaxSegs PROVE Segs(n) \in Seq(Kinds)
    OBVIOUS
  <2>1. n \in Nat /\ Segs(n) \in [1..n -> Kinds]
    BY BoundsAreNat DEF Segs, Kinds, Bounds
  <2>2. QED
    BY <2>1, IsASeq
<1>2. <<"ok">> \in Seq(Kinds) /\ <<"fin">> \in Seq(Kinds)
      /\ <<"other">> \in Seq(Kinds) /\ <<>> \in Seq(Kinds)
      /\ <<"ok", "status">> \in Seq(Kinds)
  BY DEF Kinds
<1>3. \A n \in 0..MaxSegs : <<"ok">> \o Segs(n) \in Seq(Kinds)
  BY <1>1, <1>2, ConcatProperties
<1>4. \A n \in 0..MaxSegs : <<"ok">> \o Segs(n) \o <<"fin">> \in Seq(Kinds)
  <2>1. \A a, b \in Seq(Message) :
          a \o b \in Seq(Message) /\ Len(a \o b) = Len(a) + Len(b)
    BY ConcatProperties
  <2>2. QED
    BY <1>2, <1>3, <2>1
<1>5. QED
  BY <1>2, <1>3, <1>4 DEF CommandReplies, PollReplies

\* The rest of the type invariant.
DataOK ==
  /\ waiting \in BOOLEAN /\ complete \in BOOLEAN /\ timeout \in BOOLEAN
  /\ dropped \in BOOLEAN /\ disturbed \in BOOLEAN
  /\ queue \in Seq(Message) /\ Len(queue) <= QueueCap
  /\ done \in [Receivers -> BOOLEAN]
  /\ rx \in Seq(Message) /\ Len(rx) <= RxCap
  /\ line \in Seq(Message) /\ Len(line) <= LineCap
  /\ reports \in 0..ReportCap
  /\ lastChunk \in Kinds \cup {"none"}
  /\ statusFrom \in Kinds \cup {"none"}
  /\ MeshTypeOK

LEMMA DataInit == Init => DataOK
<1> SUFFICES ASSUME Init PROVE DataOK
  OBVIOUS
<1>1. waiting = FALSE /\ complete = FALSE /\ timeout = FALSE /\ dropped = FALSE
     /\ disturbed = FALSE
  BY Zenon DEF Init
<1>2. done \in [Receivers -> BOOLEAN]
  BY Zenon DEF Init
<1>3. queue = <<>> /\ rx = <<>> /\ line = <<>> /\ reports = 0
  BY DEF Init
<1>5. /\ queue \in Seq(Message) /\ Len(queue) <= QueueCap
      /\ rx \in Seq(Message) /\ Len(rx) <= RxCap
      /\ line \in Seq(Message) /\ Len(line) <= LineCap
      /\ reports \in 0..ReportCap
  BY <1>3, BoundsAreNat DEF Bounds
<1>4. lastChunk = "none" /\ statusFrom = "none" /\ MeshTypeOK
  BY DEF Init, MeshInit, MeshTypeOK, Outcomes
<1>6. QED
  BY <1>1, <1>2, <1>4, <1>5, Zenon DEF DataOK

LEMMA HeadAndTail ==
  ASSUME NEW s \in Seq(Message), s # <<>>
  PROVE  /\ Head(s) \in Message /\ Kind(s) \in Kinds
         /\ Tail(s) \in Seq(Message) /\ Len(Tail(s)) = Len(s) - 1
<1>1. /\ Head(s) \in Message
      /\ Tail(s) \in Seq(Message) /\ Len(Tail(s)) = Len(s) - 1
  BY HeadTailProperties
<1>2. QED
  BY <1>1 DEF Kind, Message

LEMMA SendTypes ==
  ASSUME NEW replies \in SUBSET Seq(Kinds), DataOK, Send(replies)
  PROVE  /\ rx' \in Seq(Message) /\ Len(rx') <= RxCap
         /\ line' \in Seq(Message) /\ Len(line') <= LineCap
<1>1. PICK kinds \in replies :
        /\ Len(line) + Len(kinds) <= LineCap
        /\ line' = Stale(line) \o Script(kinds)
        /\ rx' = Stale(rx)
  BY DEF Send
<1>2. /\ Stale(line) \in Seq(Message) /\ Len(Stale(line)) = Len(line)
      /\ Stale(rx) \in Seq(Message) /\ Len(Stale(rx)) = Len(rx)
  BY StaleIsSeq DEF DataOK
<1>3. Script(kinds) \in Seq(Message) /\ Len(Script(kinds)) = Len(kinds)
  BY ScriptIsSeq
<1>4. /\ Stale(line) \o Script(kinds) \in Seq(Message)
      /\ Len(Stale(line) \o Script(kinds)) = Len(line) + Len(kinds)
  <2>1. \A a, b \in Seq(Message) :
          a \o b \in Seq(Message) /\ Len(a \o b) = Len(a) + Len(b)
    BY ConcatProperties
  <2>2. QED
    BY <1>2, <1>3, <2>1
<1>5. QED
  BY <1>1, <1>2, <1>4 DEF DataOK

LEMMA AddReportTypes == DataOK /\ AddReport => reports' \in 0..ReportCap
BY BoundsAreNat DEF DataOK, AddReport, Bounds

\* A task reads a message, perhaps a report, and changes nothing else but
\* _waiting_for_ans.
LEMMA ReadKeepsTypes ==
  ASSUME DataOK, rx # <<>>, rx' = Tail(rx), AddReport \/ UNCHANGED reports,
         waiting' \in BOOLEAN,
         UNCHANGED <<complete, timeout, queue, done, line, pollVars, appVars>>
  PROVE  DataOK'
<1>1. rx' \in Seq(Message) /\ Len(rx') <= RxCap
  <2>1. Tail(rx) \in Seq(Message) /\ Len(Tail(rx)) = Len(rx) - 1
    BY HeadAndTail DEF DataOK
  <2>2. Len(rx) \in Nat /\ Len(rx) <= RxCap
    BY LenProperties DEF DataOK
  <2>3. QED
    BY <2>1, <2>2, BoundsAreNat DEF Bounds
<1>2. reports' \in 0..ReportCap
  BY AddReportTypes DEF DataOK
<1>3. MeshTypeOK'
  BY DEF DataOK, MeshTypeOK, pollVars
<1>4. QED
  BY <1>1, <1>2, <1>3, Zenon DEF DataOK, pollVars, appVars

LEMMA EndWaitTypes == EndWait => disturbed' \in BOOLEAN
BY Zenon DEF EndWait

LEMMA DataHttpd == DataOK /\ HttpdNext => DataOK'
<1> SUFFICES ASSUME DataOK, HttpdNext PROVE DataOK'
  OBVIOUS
<1> USE DEF DataOK, MeshTypeOK, answerVars, serialVars, pollVars, appVars
<1>1. CASE OutIgnored \/ AnsIgnored
  BY <1>1 DEF OutIgnored, AnsIgnored, vars
<1>2. CASE OutAccept
  <2>1. rx' = <<>> /\ queue' = <<>> /\ waiting' = TRUE
    BY <1>2 DEF OutAccept
  <2>2. line' \in Seq(Message) /\ Len(line') <= LineCap
    <3>1. CASE UNCHANGED line
      BY <3>1
    <3>2. CASE /\ line # <<>>
               /\ line' = <<Msg("other", Head(line).fresh)>> \o Tail(line)
      <4>1. Msg("other", Head(line).fresh) \in Message
        BY <3>2, HeadAndTail DEF Message, Msg, Kinds
      <4>2. /\ Tail(line) \in Seq(Message)
            /\ Len(Tail(line)) = Len(line) - 1
        BY <3>2, HeadAndTail
      <4>3. \A m \in Message, t \in Seq(Message) :
              <<m>> \o t \in Seq(Message) /\ Len(<<m>> \o t) = Len(t) + 1
        OBVIOUS
      <4>4. QED
        BY <3>2, <4>1, <4>2, <4>3
    <3>3. QED
      BY <1>2, <3>1, <3>2 DEF OutAccept
  <2>3. UNCHANGED <<complete, timeout, done, pollVars, reports, lastChunk,
                    dropped>>
    BY <1>2 DEF OutAccept
  <2>4. disturbed' \in BOOLEAN
    BY <1>2, Zenon DEF OutAccept
  <2>5. QED
    BY <2>1, <2>2, <2>3, <2>4, BoundsAreNat DEF Bounds
<1>3. CASE OutClear
  BY <1>3 DEF OutClear
<1>4. CASE OutTake
  BY <1>4 DEF OutTake
<1>5. CASE OutTakeTimeout
  BY <1>5 DEF OutTakeTimeout
<1>6. CASE OutSend
  <2>1. disturbed' \in BOOLEAN
    BY <1>6, Zenon DEF OutSend
  <2>2. QED
    BY <1>6, <2>1, SendTypes, RepliesAreKinds DEF OutSend
<1>7. CASE WaitOkReport(Httpd)
  BY <1>7, ReadKeepsTypes DEF WaitOkReport
<1>8. CASE OutOk
  BY <1>8, ReadKeepsTypes DEF OutOk
<1>9. CASE OutNotOk
  BY <1>9, ReadKeepsTypes DEF OutNotOk
<1>10. CASE OutTimeout
  BY <1>10, EndWaitTypes DEF OutTimeout
<1>11. CASE OutGive
  BY <1>11 DEF OutGive
<1>12. CASE AnsStart
  BY <1>12 DEF AnsStart
<1>13. CASE AnsChunk
  <2>1. /\ Kind(queue) \in Kinds
        /\ Tail(queue) \in Seq(Message) /\ Len(Tail(queue)) = Len(queue) - 1
    BY <1>13, HeadAndTail DEF AnsChunk
  <2>2. queue' \in Seq(Message) /\ Len(queue') <= QueueCap
    <3>1. queue' = Tail(queue) /\ Len(queue) \in Nat
      BY <1>13, LenProperties DEF AnsChunk
    <3>2. QED
      BY <2>1, <3>1, BoundsAreNat DEF Bounds
  <2>3. QED
    BY <1>13, <2>1, <2>2 DEF AnsChunk
<1>14. CASE AnsEnd
  BY <1>14 DEF AnsEnd
<1>15. QED
  BY <1>1, <1>2, <1>3, <1>4, <1>5, <1>6, <1>7, <1>8, <1>9, <1>10, <1>11,
     <1>12, <1>13, <1>14 DEF HttpdNext

LEMMA AppendTypes ==
  ASSUME NEW s \in Seq(Message), NEW m \in Message
  PROVE  Append(s, m) \in Seq(Message) /\ Len(Append(s, m)) = Len(s) + 1
OBVIOUS

LEMMA DataReceiver ==
  ASSUME NEW v \in Receivers, DataOK, RecvNext(v) PROVE DataOK'
<1> USE DEF DataOK, MeshTypeOK, answerVars, serialVars, pollVars, appVars
<1>1. CASE RecvTake(v) \/ RecvEnd(v) \/ RecvNothing(v) \/ RecvNap(v)
  BY <1>1 DEF RecvTake, RecvEnd, RecvNothing, RecvNap
<1>2. CASE RecvReport(v)
  BY <1>2, ReadKeepsTypes DEF RecvReport
<1>3. CASE RecvError(v)
  BY <1>3, ReadKeepsTypes DEF RecvError
<1>4. CASE RecvForward(v)
  <2>1. Head(rx) \in Message /\ Tail(rx) \in Seq(Message)
        /\ Len(Tail(rx)) = Len(rx) - 1
    BY <1>4, HeadAndTail DEF RecvForward
  <2>2. /\ queue' \in Seq(Message) /\ Len(queue') <= QueueCap
        /\ dropped' \in BOOLEAN
    <3>1. CASE Len(queue) < QueueCap /\ queue' = Append(queue, Head(rx))
               /\ UNCHANGED dropped
      <4>1. /\ Append(queue, Head(rx)) \in Seq(Message)
            /\ Len(Append(queue, Head(rx))) = Len(queue) + 1
        BY <2>1, AppendTypes
      <4>2. Len(queue) \in Nat
        BY LenProperties
      <4>3. QED
        BY <3>1, <4>1, <4>2, BoundsAreNat DEF Bounds
    <3>2. CASE dropped' = TRUE /\ UNCHANGED queue
      BY <3>2
    <3>3. QED
      BY <1>4, <3>1, <3>2 DEF RecvForward
  <2>3. IsFinal(v) \in BOOLEAN
    BY DEF IsFinal
  <2>4. done' \in [Receivers -> BOOLEAN]
    BY <1>4, <2>3 DEF RecvForward
  <2>5. rx' \in Seq(Message) /\ Len(rx') <= RxCap
    BY <1>4, <2>1, BoundsAreNat DEF RecvForward, Bounds
  <2>6. UNCHANGED <<waiting, complete, timeout, line, pollVars, reports,
                    lastChunk, disturbed>>
    BY <1>4 DEF RecvForward
  <2>7. QED
    BY <2>2, <2>4, <2>5, <2>6
<1>5. CASE RecvMark(v)
  BY <1>5 DEF RecvMark
<1>6. CASE RecvTimeout(v)
  BY <1>6, EndWaitTypes DEF RecvTimeout
<1>7. CASE RecvGive(v)
  BY <1>7 DEF RecvGive
<1>8. QED
  BY <1>1, <1>2, <1>3, <1>4, <1>5, <1>6, <1>7 DEF RecvNext

LEMMA UpdateTypes ==
  ASSUME MeshTypeOK, (\E p \in Polls : UpdateSsid(p)) \/ Malformed
  PROVE  MeshTypeOK'
BY DEF MeshTypeOK, Outcomes, Polls, UpdateSsid, Malformed, Dismiss, StatusOnly,
   SsidOnly, BothInitial, BothChanged

LEMMA DataMesh == DataOK /\ MeshNext => DataOK'
<1> SUFFICES ASSUME DataOK, MeshNext PROVE DataOK'
  OBVIOUS
<1> USE DEF DataOK, answerVars, serialVars, appVars
<1>1. CASE PollWake \/ PollTake \/ PollTimeout \/ PollNoStatus
  BY <1>1, EndWaitTypes
  DEF PollWake, PollTake, PollTimeout, PollNoStatus, MeshTypeOK, pollVars
<1>2. CASE PollSend
  BY <1>2, SendTypes, RepliesAreKinds DEF PollSend, MeshTypeOK, pollVars
<1>3. CASE WaitOkReport(Mesh)
  BY <1>3, ReadKeepsTypes DEF WaitOkReport
<1>4. CASE PollOk \/ PollNotOk
  BY <1>4, ReadKeepsTypes DEF PollOk, PollNotOk
<1>5. CASE PollStatus
  <2>1. MeshTypeOK'
    BY <1>5, UpdateTypes DEF PollStatus
  <2>2. rx' \in Seq(Message) /\ Len(rx') <= RxCap /\ statusFrom' \in Kinds
    BY <1>5, HeadAndTail, BoundsAreNat DEF PollStatus, Bounds
  <2>3. disturbed' \in BOOLEAN
    BY <1>5, Zenon DEF PollStatus
  <2>4. QED
    BY <1>5, <2>1, <2>2, <2>3 DEF PollStatus
<1>6. CASE PollGive
  BY <1>6 DEF PollGive, MeshTypeOK, Outcomes
<1>7. QED
  BY <1>1, <1>2, <1>3, <1>4, <1>5, <1>6 DEF MeshNext

LEMMA DataReader == DataOK /\ ReaderNext => DataOK'
<1> SUFFICES ASSUME DataOK, ReaderNext PROVE DataOK'
  OBVIOUS
<1> USE DEF DataOK, MeshTypeOK, answerVars, serialVars, pollVars, appVars
<1>1. CASE ReadTake \/ ReadNothing \/ ReadWake
  BY <1>1 DEF ReadTake, ReadNothing, ReadWake
<1>2. CASE ReadOther
  BY <1>2, ReadKeepsTypes DEF ReadOther
<1>3. CASE ReadReport
  BY <1>3, ReadKeepsTypes DEF ReadReport
<1>4. CASE ReadAdd
  BY <1>4, AddReportTypes DEF ReadAdd
<1>5. QED
  BY <1>1, <1>2, <1>3, <1>4 DEF ReaderNext

LEMMA DataSensor == DataOK /\ SensorNext => DataOK'
<1> SUFFICES ASSUME DataOK, SensorNext PROVE DataOK'
  OBVIOUS
<1> USE DEF DataOK, MeshTypeOK, answerVars, serialVars, pollVars, appVars
<1>1. CASE SensorEmit
  <2>1. /\ Head(line) \in Message /\ Tail(line) \in Seq(Message)
        /\ Len(Tail(line)) = Len(line) - 1
    BY <1>1, HeadAndTail DEF SensorEmit
  <2>2. Len(line) \in Nat /\ Len(rx) \in Nat
    BY LenProperties
  <2>3. line' \in Seq(Message) /\ Len(line') <= LineCap
    BY <1>1, <2>1, <2>2, BoundsAreNat DEF SensorEmit, Bounds
  <2>4. /\ Append(rx, Head(line)) \in Seq(Message)
        /\ Len(Append(rx, Head(line))) = Len(rx) + 1
    BY <2>1, AppendTypes
  <2>5. rx' \in Seq(Message) /\ Len(rx') <= RxCap
    BY <1>1, <2>2, <2>4, BoundsAreNat DEF SensorEmit, Bounds
  <2>6. disturbed' \in BOOLEAN
    BY <1>1, Zenon DEF SensorEmit
  <2>7. QED
    BY <1>1, <2>3, <2>5, <2>6 DEF SensorEmit
<1>2. CASE SensorReport
  <2>1. PICK m \in Message : m = Msg("report", FALSE)
    BY DEF Msg, Message, Kinds
  <2>2. Len(rx) < RxCap /\ rx' = Append(rx, m)
    BY <1>2, <2>1, Zenon DEF SensorReport
  <2>3. /\ Append(rx, m) \in Seq(Message)
        /\ Len(Append(rx, m)) = Len(rx) + 1
    BY AppendTypes
  <2>4. Len(rx) \in Nat
    BY LenProperties
  <2>5. rx' \in Seq(Message) /\ Len(rx') <= RxCap
    BY <2>2, <2>3, <2>4, BoundsAreNat DEF Bounds
  <2>6. QED
    BY <1>2, <2>5 DEF SensorReport
<1>3. CASE ReportDrain
  BY <1>3, BoundsAreNat DEF ReportDrain, Bounds
<1>4. QED
  BY <1>1, <1>2, <1>3 DEF SensorNext

LEMMA DataStep == DataOK /\ [Next]_vars => DataOK'
<1>1. DataOK /\ UNCHANGED vars => DataOK'
  BY DEF DataOK, MeshTypeOK, vars
<1>2. QED
  BY <1>1, DataHttpd, DataReceiver, DataMesh, DataReader, DataSensor DEF Next

LEMMA DataInvariant == Spec => []DataOK
BY DataInit, DataStep, PTL DEF Spec

\* Every variable keeps its type: in particular neither the driver's buffer,
\* the queue nor the report buffer outgrows its size on any path.
THEOREM TypeCorrect == Spec => []TypeOK
<1>1. ControlOK /\ DataOK => TypeOK
  BY DEF ControlOK, DataOK, TypeOK
<1>2. MutexInv => ControlOK
  BY DEF MutexInv
<1>3. QED
  BY <1>1, <1>2, MutexInvariant, DataInvariant, PTL

-----------------------------------------------------------------------------
(* One exchange at a time *)

Asking == pc[Httpd] \in {"cleared", "take", "send", "waitok"}

\* A receiver that still works belongs to the exchange that is open, and no
\* one else is on its way to the line or the queue.  OneReceiver and
\* NothingLeftOver are not inductive without it.
ReceiverInExchange ==
  \A v \in Receivers :
    Working(v) =>
      /\ waiting
      /\ pc[Httpd] \in {"reply", "idle", "ans"}
      /\ mutex \in {Free, Httpd, v}

HttpdInExchange ==
  /\ Asking => waiting /\ queue = <<>>
  /\ pc[Httpd] = "ans" => waiting
  /\ ~waiting => queue = <<>>

ExchangeInv == OneReceiver /\ ReceiverInExchange /\ HttpdInExchange

LEMMA ExchangeInit == Init => ExchangeInv
<1> SUFFICES ASSUME Init PROVE ExchangeInv
  OBVIOUS
<1>1. \A v \in Receivers : pc[v] = "dead"
  BY TaskNames DEF Init
<1>2. pc[Httpd] = "idle" /\ queue = <<>>
  BY TaskNames DEF Init
<1>3. QED
  BY <1>1, <1>2 DEF ExchangeInv, OneReceiver, ReceiverInExchange,
     HttpdInExchange, Working, Asking

\* While the web server task waits for an "ok" no receiver is left.
LEMMA NoReceiverAtWaitOk ==
  ASSUME MutexInv, ExchangeInv, pc[Httpd] = "waitok", NEW v \in Receivers
  PROVE  pc[v] = "dead"
<1>1. mutex = Httpd
  BY TaskNames DEF MutexInv, LineExclusive, Critical
<1>2. pc[v] # "give"
  BY <1>1, TaskNames DEF MutexInv, LineExclusive, Critical
<1>3. QED
  BY <1>2 DEF ExchangeInv, ReceiverInExchange, Working

LEMMA ExchangeHttpd ==
  ASSUME PromptReceiver, MutexInv, ExchangeInv, HttpdNext PROVE ExchangeInv'
<1> USE TaskNames DEF ControlOK, Take, Goto, HttpdPcs, Working, Asking,
    OneReceiver, ReceiverInExchange, HttpdInExchange, ReceiverPcs, Httpd, Mesh,
    Reader, Free, taskVars, answerVars, ExchangeInv, MutexInv
<1>1. CASE OutIgnored \/ AnsIgnored
  BY <1>1 DEF OutIgnored, AnsIgnored, vars
<1>2. CASE OutAccept
  BY <1>2 DEF OutAccept
<1>3. CASE OutClear
  BY <1>3 DEF OutClear
<1>4. CASE OutTake
  BY <1>4 DEF OutTake
<1>5. CASE OutTakeTimeout
  BY <1>5 DEF OutTakeTimeout
<1>6. CASE OutSend
  BY <1>6 DEF OutSend
<1>7. CASE WaitOkReport(Httpd)
  BY <1>7 DEF WaitOkReport
<1>8. CASE OutOk
  <2>1. \A v \in Receivers : pc[v] = "dead"
    BY <1>8, NoReceiverAtWaitOk DEF OutOk
  <2>2. mutex = Httpd
    BY <1>8 DEF OutOk, LineExclusive, Critical
  <2>3. PICK w \in Receivers :
          pc' = [pc EXCEPT ![Httpd] = "reply", ![w] = "take"]
    BY <1>8 DEF OutOk
  <2>4. waiting /\ queue = <<>> /\ UNCHANGED <<mutex, waiting, queue>>
    BY <1>8 DEF OutOk
  <2>5. QED
    BY <2>1, <2>2, <2>3, <2>4
<1>9. CASE OutNotOk
  BY <1>9, NoReceiverAtWaitOk DEF OutNotOk
<1>10. CASE OutTimeout
  BY <1>10, NoReceiverAtWaitOk DEF OutTimeout
<1>11. CASE OutGive
  BY <1>11 DEF OutGive
<1>12. CASE AnsStart
  BY <1>12 DEF AnsStart
<1>13. CASE AnsChunk
  BY <1>13 DEF AnsChunk
<1>14. CASE AnsEnd
  BY <1>14 DEF AnsEnd, ReceiversSettled
<1>15. QED
  BY <1>1, <1>2, <1>3, <1>4, <1>5, <1>6, <1>7, <1>8, <1>9, <1>10, <1>11,
     <1>12, <1>13, <1>14 DEF HttpdNext

\* A step of a receiver that leaves waiting and the web server task alone,
\* and adds to the queue only while it works.
LEMMA ExchangeReceiver ==
  ASSUME NEW v \in Receivers, MutexInv, ExchangeInv, RecvNext(v)
  PROVE  ExchangeInv'
<1> USE TaskNames DEF ControlOK, Take, Goto, Working, Asking, Receiving,
    OneReceiver, ReceiverInExchange, HttpdInExchange, ReceiverPcs, Httpd, Mesh,
    Reader, Free, taskVars, answerVars, ExchangeInv, MutexInv
<1>1. CASE RecvTake(v)
  BY <1>1 DEF RecvTake
<1>2. CASE RecvEnd(v)
  BY <1>2 DEF RecvEnd
<1>3. CASE RecvReport(v) \/ RecvError(v)
  BY <1>3 DEF RecvReport, RecvError
<1>4. CASE RecvForward(v)
  BY <1>4 DEF RecvForward
<1>5. CASE RecvMark(v)
  BY <1>5 DEF RecvMark
<1>6. CASE RecvNothing(v)
  BY <1>6 DEF RecvNothing
<1>7. CASE RecvTimeout(v)
  BY <1>7 DEF RecvTimeout
<1>8. CASE RecvNap(v)
  BY <1>8 DEF RecvNap
<1>9. CASE RecvGive(v)
  BY <1>9 DEF RecvGive
<1>10. QED
  BY <1>1, <1>2, <1>3, <1>4, <1>5, <1>6, <1>7, <1>8, <1>9 DEF RecvNext

\* The two tasks of lower priority do not pass a receiver at its take.
LEMMA LowPriorityWaits ==
  ASSUME MutexInv, NEW t \in {Mesh, Reader}, CanTake(t), NEW v \in Receivers
  PROVE  ~Working(v)
<1>1. pc[v] # "take"
  BY TaskNames DEF CanTake, Priority, Httpd, Mesh, Reader
<1>2. mutex # v
  BY TaskNames DEF CanTake
<1>3. QED
  BY <1>1, <1>2, TaskNames DEF MutexInv, ControlOK, LineExclusive, Critical,
     Working, ReceiverPcs

LEMMA ExchangeMesh ==
  ASSUME MutexInv, ExchangeInv, MeshNext PROVE ExchangeInv'
<1> USE TaskNames DEF ControlOK, Take, Goto, Working, Asking,
    OneReceiver, ReceiverInExchange, HttpdInExchange, Httpd, Mesh,
    Reader, Free, taskVars, answerVars, ExchangeInv, MutexInv
<1>1. CASE PollTake
  BY <1>1, LowPriorityWaits DEF PollTake
<1>2. CASE PollGive
  <2>1. mutex = Mesh
    BY <1>2 DEF PollGive, LineExclusive, Critical
  <2>2. QED
    BY <1>2, <2>1 DEF PollGive
<1>3. CASE WaitOkReport(Mesh)
  BY <1>3 DEF WaitOkReport
<1>4. CASE PollWake \/ PollSend \/ PollOk \/ PollNotOk
  BY <1>4 DEF PollWake, PollSend, PollOk, PollNotOk
<1>5. CASE PollTimeout \/ PollStatus \/ PollNoStatus
  BY <1>5 DEF PollTimeout, PollStatus, PollNoStatus
<1>6. QED
  BY <1>1, <1>2, <1>3, <1>4, <1>5 DEF MeshNext

LEMMA ExchangeReader ==
  ASSUME MutexInv, ExchangeInv, ReaderNext PROVE ExchangeInv'
<1> USE TaskNames DEF ControlOK, Take, Goto, Working, Asking,
    OneReceiver, ReceiverInExchange, HttpdInExchange, Httpd, Mesh,
    Reader, Free, taskVars, answerVars, ExchangeInv, MutexInv
<1>1. CASE ReadTake
  BY <1>1, LowPriorityWaits DEF ReadTake
<1>2. CASE ReadNothing \/ ReadOther \/ ReadReport
  BY <1>2 DEF ReadNothing, ReadOther, ReadReport
<1>3. CASE ReadAdd \/ ReadWake
  BY <1>3 DEF ReadAdd, ReadWake
<1>4. QED
  BY <1>1, <1>2, <1>3 DEF ReaderNext

LEMMA ExchangeOther ==
  ASSUME ExchangeInv, UNCHANGED <<taskVars, answerVars>> PROVE ExchangeInv'
BY DEF ExchangeInv, OneReceiver, ReceiverInExchange, HttpdInExchange, Working,
   Asking, taskVars, answerVars

LEMMA ExchangeStep ==
  ASSUME PromptReceiver, MutexInv, ExchangeInv, [Next]_vars PROVE ExchangeInv'
<1>1. CASE SensorNext \/ UNCHANGED vars
  BY <1>1, ExchangeOther DEF SensorNext, SensorEmit, SensorReport, ReportDrain,
     vars, taskVars, answerVars
<1>2. QED
  BY <1>1, ExchangeHttpd, ExchangeReceiver, ExchangeMesh, ExchangeReader
     DEF Next

LEMMA ExchangeInvariant ==
  ASSUME PromptReceiver PROVE Spec => []ExchangeInv
BY ExchangeInit, ExchangeStep, MutexInvariant, PTL DEF Spec

\* From creation to end a receiver has the line to itself, because /out gives
\* the mutex only after it has created the receiver, and because receivers
\* have a higher priority than the other readers.
THEOREM AnswerIsTheReceivers ==
  ASSUME PromptReceiver PROVE Spec => []ReceiverOwnsLine
<1>1. ExchangeInv => ReceiverOwnsLine
  BY DEF ExchangeInv, ReceiverInExchange, ReceiverOwnsLine
<1>2. QED
  BY <1>1, ExchangeInvariant, PTL

\* However the app mixes /out and /ans, a second receiver is never created
\* before the first is gone.
THEOREM SingleReceiver == ASSUME PromptReceiver PROVE Spec => []OneReceiver
<1>1. ExchangeInv => OneReceiver
  BY DEF ExchangeInv
<1>2. QED
  BY <1>1, ExchangeInvariant, PTL

\* When _waiting_for_ans is clear the answer is over: no chunk is in the
\* queue, and no receiver will put one there.
THEOREM ExchangeLeavesNothing ==
  ASSUME PromptReceiver PROVE Spec => []NothingLeftOver
<1>1. ExchangeInv => NothingLeftOver
  BY DEF ExchangeInv, ReceiverInExchange, HttpdInExchange, NothingLeftOver,
     ReceiversSettled, Working
<1>2. QED
  BY <1>1, ExchangeInvariant, PTL

=============================================================================
