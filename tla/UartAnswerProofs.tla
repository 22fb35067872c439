-------------------------- MODULE UartAnswerProofs --------------------------
(***************************************************************************)
(* Theorems about what UartBridge gives the app, for every set of          *)
(* receivers and every value of the bounds: an answer is whole and ends    *)
(* with its final chunk (ChunkInv), the bridge implements AppExchange, and *)
(* an answer is that of its own command until something disturbs the line  *)
(* (FreshInv).                                                             *)
(***************************************************************************)
EXTENDS UartBridgeProofs

-----------------------------------------------------------------------------
(* The chunks of an answer *)

\* The answer's final chunk waits for the app or has gone to it.
FinalSeen == lastChunk = "fin" \/ \E i \in DOMAIN queue : queue[i].kind = "fin"

\* A receiver has request_is_complete set from its final chunk on, and sees
\* neither flag before its own work has set it.
ReceiverFlags ==
  \A v \in Receivers :
    /\ pc[v] \in {"dead", "take"} => ~done[v]
    /\ pc[v] = "mark" => done[v]
    /\ done[v] => pc[v] \in {"mark", "give"} \/ complete
    /\ Working(v) => ~timeout
    /\ Working(v) /\ complete => done[v] /\ pc[v] # "mark"

\* A command is asked with the flags clear and nothing of an older answer.
AnswerFlags ==
  /\ pc[Httpd] \in {"take", "send", "waitok"} => ~complete /\ ~timeout
  /\ Asking \/ ~waiting => lastChunk = "none" /\ ~dropped

QueueOrder ==
  /\ \A i \in DOMAIN queue :
       /\ queue[i].kind \in {"seg", "fin"}
       /\ queue[i].kind = "fin" => i = Len(queue)
  /\ lastChunk = "fin" => queue = <<>>

\* The final chunk ends the receiver's work; and an answer is marked complete
\* only after its final chunk, unless that was dropped.
FinalEnds ==
  /\ FinalSeen => \A v \in Receivers : Working(v) => done[v]
  /\ ~dropped /\ waiting /\ ~Asking /\ complete => FinalSeen
  /\ ~dropped => \A v \in Receivers : pc[v] = "mark" => FinalSeen

ChunkInv == ReceiverFlags /\ AnswerFlags /\ QueueOrder /\ FinalEnds

LEMMA ChunkInit == Init => ChunkInv
<1> SUFFICES ASSUME Init PROVE ChunkInv
  OBVIOUS
<1>1. \A v \in Receivers : pc[v] = "dead" /\ ~done[v]
  BY TaskNames DEF Init
<1>2. pc[Httpd] = "idle" /\ queue = <<>> /\ lastChunk = "none" /\ ~dropped
  BY TaskNames DEF Init
<1> QED
  BY <1>1, <1>2 DEF ChunkInv, ReceiverFlags, AnswerFlags, QueueOrder, FinalEnds,
     FinalSeen, Working, Asking, Init

\* What the web server task and the receivers have to themselves.
answerState == <<answerVars, lastChunk, dropped>>

LEMMA ChunkFrame ==
  ASSUME ChunkInv, UNCHANGED answerState, pc'[Httpd] = pc[Httpd],
         \A v \in Receivers : pc'[v] = pc[v]
  PROVE  ChunkInv'
BY DEF ChunkInv, ReceiverFlags, AnswerFlags, QueueOrder, FinalEnds, FinalSeen,
   Working, Asking, answerState, answerVars

\* The mesh poll, the report reader and the sensor leave all of it alone.
LEMMA OthersLeaveAnswers ==
  ASSUME ControlOK, MeshNext \/ ReaderNext \/ SensorNext \/ UNCHANGED vars
  PROVE  /\ UNCHANGED answerState
         /\ pc'[Httpd] = pc[Httpd]
         /\ \A v \in Receivers : pc'[v] = pc[v]
<1> USE TaskNames DEF ControlOK, Take, Goto, Httpd, Mesh, Reader, answerState,
    answerVars, taskVars, appVars
<1>1. CASE PollWake \/ PollTake \/ PollSend \/ WaitOkReport(Mesh) \/ PollOk
  BY <1>1 DEF PollWake, PollTake, PollSend, WaitOkReport, PollOk
<1>2. CASE PollNotOk \/ PollTimeout \/ PollStatus \/ PollNoStatus \/ PollGive
  BY <1>2 DEF PollNotOk, PollTimeout, PollStatus, PollNoStatus, PollGive
<1>3. CASE ReaderNext
  BY <1>3 DEF ReaderNext, ReadTake, ReadNothing, ReadOther, ReadReport, ReadAdd,
     ReadWake
<1>4. CASE SensorNext
  BY <1>4 DEF SensorNext, SensorEmit, SensorReport, ReportDrain
<1>5. CASE UNCHANGED vars
  BY <1>5 DEF vars
<1> QED
  BY <1>1, <1>2, <1>3, <1>4, <1>5 DEF MeshNext

\* The next chunk goes to the app: the final one is the last.
LEMMA ChunkPassedOn ==
  ASSUME DataOK, QueueOrder, AnsChunk
  PROVE  QueueOrder' /\ (FinalSeen' <=> FinalSeen)
<1>1. /\ queue # <<>> /\ queue \in Seq(Message)
      /\ lastChunk' = queue[1].kind /\ queue' = Tail(queue)
  BY DEF AnsChunk, DataOK, Kind
<1>2. /\ Len(queue) \in Nat /\ Len(queue) > 0 /\ DOMAIN queue = 1..Len(queue)
      /\ Len(Tail(queue)) = Len(queue) - 1
      /\ DOMAIN Tail(queue) = 1..(Len(queue) - 1)
      /\ \A i \in 1..(Len(queue) - 1) : Tail(queue)[i] = queue[i + 1]
  BY <1>1
<1>3. QueueOrder'
  <2>1. \A i \in DOMAIN queue' :
          /\ queue'[i].kind \in {"seg", "fin"}
          /\ queue'[i].kind = "fin" => i = Len(queue')
    BY <1>1, <1>2 DEF QueueOrder
  <2>2. lastChunk' = "fin" => queue' = <<>>
    <3> SUFFICES ASSUME lastChunk' = "fin" PROVE queue' = <<>>
      OBVIOUS
    <3>1. Len(queue) = 1
      BY <1>1, <1>2 DEF QueueOrder
    <3> QED
      BY <1>1, <1>2, <3>1
  <2> QED
    BY <2>1, <2>2 DEF QueueOrder
<1>4. FinalSeen' <=> FinalSeen
  <2>1. lastChunk # "fin"
    BY <1>1 DEF QueueOrder
  <2>2. ASSUME NEW i \in DOMAIN queue, queue[i].kind = "fin" PROVE FinalSeen'
    <3>1. CASE i = 1
      BY <1>1, <2>2, <3>1 DEF FinalSeen
    <3>2. CASE i # 1
      <4>1. i - 1 \in DOMAIN queue' /\ queue'[i - 1] = queue[i]
        BY <1>1, <1>2, <3>2
      <4> QED
        BY <2>2, <4>1 DEF FinalSeen
    <3> QED
      BY <3>1, <3>2
  <2>3. ASSUME NEW i \in DOMAIN queue', queue'[i].kind = "fin" PROVE FinalSeen
    <3>1. i + 1 \in DOMAIN queue /\ queue'[i] = queue[i + 1]
      BY <1>1, <1>2
    <3> QED
      BY <2>3, <3>1 DEF FinalSeen
  <2>4. lastChunk' = "fin" => FinalSeen
    <3>1. 1 \in DOMAIN queue
      BY <1>2
    <3> QED
      BY <1>1, <3>1 DEF FinalSeen
  <2> QED
    BY <2>1, <2>2, <2>3, <2>4 DEF FinalSeen
<1> QED
  BY <1>3, <1>4

LEMMA ChunkHttpd ==
  ASSUME MutexInv, DataOK, ExchangeInv, ChunkInv, HttpdNext PROVE ChunkInv'
<1> USE TaskNames DEF ControlOK, Take, Goto, HttpdPcs, Working, Asking,
    ReceiverPcs, Httpd, Mesh, Reader, Free, taskVars, answerVars, appVars, MutexInv
<1>1. CASE OutIgnored \/ AnsIgnored \/ WaitOkReport(Httpd)
  BY <1>1, ChunkFrame DEF OutIgnored, AnsIgnored, WaitOkReport, vars, answerState
<1>2. CASE OutGive \/ AnsStart
  BY <1>2 DEF OutGive, AnsStart, ExchangeInv, HttpdInExchange, ChunkInv,
     ReceiverFlags, AnswerFlags, QueueOrder, FinalEnds, FinalSeen
<1> USE DEF ChunkInv, ReceiverFlags, AnswerFlags, FinalEnds, ExchangeInv,
    ReceiverInExchange, HttpdInExchange
<1>3. CASE OutAccept
  BY <1>3 DEF OutAccept, FinalSeen, QueueOrder
<1>4. CASE OutClear
  BY <1>4 DEF OutClear, FinalSeen, QueueOrder
<1>5. CASE OutTake \/ OutSend
  BY <1>5 DEF OutTake, OutSend, FinalSeen, QueueOrder
<1>6. CASE OutTakeTimeout \/ OutNotOk \/ OutTimeout
  BY <1>6 DEF OutTakeTimeout, OutNotOk, OutTimeout, FinalSeen, QueueOrder
<1>7. CASE OutOk
  <2>1. /\ queue = <<>> /\ lastChunk = "none" /\ ~complete /\ ~timeout
        /\ UNCHANGED <<answerVars, lastChunk, dropped>>
    BY <1>7 DEF OutOk
  <2>2. /\ ~FinalSeen' /\ QueueOrder'
    BY <2>1 DEF FinalSeen, QueueOrder
  <2>3. PICK v \in Receivers :
          pc[v] = "dead" /\ pc' = [pc EXCEPT ![Httpd] = "reply", ![v] = "take"]
    BY <1>7 DEF OutOk
  <2>4. \A w \in Receivers : pc[w] = "dead"
    BY <1>7, NoReceiverAtWaitOk DEF OutOk
  <2>5. pc'[Httpd] = "reply" /\ \A w \in Receivers : pc'[w] \in {"dead", "take"}
    BY <2>3, <2>4
  <2> QED
    BY <2>1, <2>2, <2>4, <2>5
<1>8. CASE AnsChunk
  <2>1. /\ QueueOrder' /\ (FinalSeen' <=> FinalSeen)
        /\ UNCHANGED <<taskVars, waiting, complete, timeout, done, dropped>>
        /\ pc[Httpd] = "ans"
    BY <1>8, ChunkPassedOn DEF AnsChunk
  <2> QED
    BY <2>1
<1>9. CASE AnsEnd
  BY <1>9 DEF AnsEnd, FinalSeen, QueueOrder
<1> QED
  BY <1>1, <1>2, <1>3, <1>4, <1>5, <1>6, <1>7, <1>8, <1>9 DEF HttpdNext

\* A chunk that is put into the queue is a segment or the final one, and the
\* latter only when none was there before.
LEMMA ChunkForwarded ==
  ASSUME NEW v \in Receivers, DataOK, ChunkInv, RecvForward(v)
  PROVE  /\ ~done[v] /\ ~FinalSeen /\ QueueOrder'
         /\ Kind(rx) \in {"seg", "fin"}
         /\ IsFinal(v) <=> Kind(rx) = "fin"
         /\ FinalSeen' => IsFinal(v)
         /\ IsFinal(v) /\ ~dropped' => FinalSeen'
<1>1. ~done[v]
  BY DEF RecvForward, Receiving, ChunkInv, ReceiverFlags
<1>2. ~FinalSeen
  BY <1>1 DEF RecvForward, Receiving, Working, ChunkInv, FinalEnds
<1>3. /\ IsFinal(v) <=> Kind(rx) = "fin"
      /\ Kind(rx) \in {"seg", "fin"}
  BY <1>1 DEF RecvForward, IsFinal
<1>4. Head(rx) \in Message /\ rx # <<>> /\ Kind(rx) = Head(rx).kind
  BY HeadAndTail DEF DataOK, RecvForward, Kind
<1>5. CASE queue' = Append(queue, Head(rx))
  <2> DEFINE m == Head(rx)
  <2>1. /\ Len(queue) \in Nat /\ DOMAIN queue = 1..Len(queue)
        /\ Len(queue') = Len(queue) + 1 /\ DOMAIN queue' = 1..(Len(queue) + 1)
        /\ \A i \in 1..Len(queue) : queue'[i] = queue[i]
        /\ queue'[Len(queue) + 1] = m
    BY <1>4, <1>5 DEF DataOK
  <2> HIDE DEF m
  <2>2. /\ \A i \in 1..Len(queue) : queue[i].kind = "seg"
        /\ lastChunk # "fin" /\ lastChunk' = lastChunk
        /\ m.kind = Kind(rx)
    BY <1>2, <1>4, <2>1 DEF FinalSeen, ChunkInv, QueueOrder, RecvForward, m
  <2>3. QueueOrder'
    BY <1>3, <2>1, <2>2 DEF QueueOrder
  <2>4. FinalSeen' <=> Kind(rx) = "fin"
    BY <2>1, <2>2 DEF FinalSeen
  <2> QED
    BY <1>1, <1>2, <1>3, <2>3, <2>4
<1>6. CASE dropped' = TRUE /\ UNCHANGED queue
  <2>1. UNCHANGED <<queue, lastChunk>>
    BY <1>6 DEF RecvForward
  <2>2. ~FinalSeen' /\ QueueOrder'
    BY <1>2, <2>1 DEF FinalSeen, ChunkInv, QueueOrder
  <2> QED
    BY <1>1, <1>2, <1>3, <1>6, <2>2
<1> QED
  BY <1>5, <1>6 DEF RecvForward

LEMMA ChunkReceiver ==
  ASSUME NEW v \in Receivers, MutexInv, DataOK, ExchangeInv, ChunkInv, RecvNext(v)
  PROVE  ChunkInv'
<1> USE TaskNames DEF ControlOK, Take, Goto, Working, Asking, Receiving,
    ReceiverPcs, Httpd, Mesh, Reader, Free, taskVars, answerVars, appVars, MutexInv
<1>1. CASE RecvReport(v) \/ RecvError(v)
  BY <1>1, ChunkFrame DEF RecvReport, RecvError, answerState
<1>2. CASE RecvForward(v)
  <2>1. /\ ~done[v] /\ ~FinalSeen /\ QueueOrder'
        /\ FinalSeen' => IsFinal(v)
        /\ IsFinal(v) /\ ~dropped' => FinalSeen'
    BY <1>2, ChunkForwarded
  <2>2. /\ ~complete /\ ~timeout /\ pc[v] = "loop" /\ IsFinal(v) \in BOOLEAN
        /\ done' = [done EXCEPT ![v] = IsFinal(v)]
        /\ pc' = [pc EXCEPT ![v] = IF IsFinal(v) THEN "mark" ELSE "check"]
        /\ UNCHANGED <<waiting, complete, timeout, lastChunk>>
        /\ dropped' \in {TRUE, dropped}
    BY <1>2 DEF RecvForward, IsFinal
  <2> HIDE DEF IsFinal
  <2>3. /\ waiting /\ ~Asking
        /\ \A w \in Receivers : w # v => pc[w] = "dead"
    BY <2>2 DEF ExchangeInv, ReceiverInExchange, OneReceiver
  <2>4. /\ pc'[v] = (IF IsFinal(v) THEN "mark" ELSE "check") /\ done'[v] = IsFinal(v)
        /\ \A w \in Receivers : w # v => pc'[w] = "dead" /\ done'[w] = done[w]
        /\ pc'[Httpd] = pc[Httpd]
    BY <2>2, <2>3 DEF DataOK
  <2>5. ReceiverFlags'
    BY <2>2, <2>3, <2>4 DEF ChunkInv, ReceiverFlags
  <2>6. AnswerFlags'
    BY <2>2, <2>3, <2>4 DEF ChunkInv, AnswerFlags
  <2>7. FinalEnds'
    BY <2>1, <2>2, <2>4 DEF FinalEnds
  <2> QED
    BY <2>1, <2>5, <2>6, <2>7 DEF ChunkInv
<1> USE DEF ChunkInv, ReceiverFlags, AnswerFlags, FinalEnds, FinalSeen, QueueOrder
<1>3. CASE RecvTake(v) \/ RecvNothing(v) \/ RecvNap(v) \/ RecvEnd(v)
  BY <1>3 DEF RecvTake, RecvNothing, RecvNap, RecvEnd
<1>4. CASE RecvMark(v)
  BY <1>4 DEF RecvMark, ExchangeInv, OneReceiver, ReceiverInExchange
<1>5. CASE RecvTimeout(v)
  BY <1>5 DEF RecvTimeout, ExchangeInv, OneReceiver, ReceiverInExchange
<1>6. CASE RecvGive(v)
  BY <1>6 DEF RecvGive, DataOK
<1> QED
  BY <1>1, <1>2, <1>3, <1>4, <1>5, <1>6 DEF RecvNext

LEMMA ChunkStep ==
  ASSUME MutexInv, DataOK, ExchangeInv, ChunkInv, [Next]_vars PROVE ChunkInv'
<1>1. CASE MeshNext \/ ReaderNext \/ SensorNext \/ UNCHANGED vars
  BY <1>1, OthersLeaveAnswers, ChunkFrame DEF MutexInv
<1> QED
  BY <1>1, ChunkHttpd, ChunkReceiver DEF Next

LEMMA ChunkInvariant ==
  ASSUME PromptReceiver PROVE Spec => []ChunkInv
BY ChunkInit, ChunkStep, MutexInvariant, DataInvariant, ExchangeInvariant, PTL
   DEF Spec

\* /ans passes nothing on after the final chunk, because the receiver stops at
\* it and the queue is empty when a command is asked.
THEOREM FinalChunkIsLast ==
  ASSUME PromptReceiver PROVE Spec => []FinalChunkLast
<1>1. ChunkInv => FinalChunkLast
  BY DEF ChunkInv, QueueOrder, FinalChunkLast
<1> QED
  BY <1>1, ChunkInvariant, PTL

\* /ans never sees _uart_response_is_complete before the final chunk is in the
\* queue, and leaves none there: unless the queue was full a complete answer
\* reaches the app to its end.
THEOREM AnswerIsComplete ==
  ASSUME PromptReceiver PROVE Spec => []AnswerComplete
<1>1. ExchangeInv /\ ChunkInv => AnswerComplete
  BY DEF ChunkInv, FinalEnds, FinalSeen, Asking, ExchangeInv, HttpdInExchange,
     AnswerComplete
<1> QED
  BY <1>1, ChunkInvariant, ExchangeInvariant, PTL

-----------------------------------------------------------------------------
(* What the app sees: UartBridge implements AppExchange *)

KindsOf(s) == [i \in DOMAIN s |-> s[i].kind]

LEMMA SameSeq ==
  ASSUME NEW S, NEW s \in Seq(S), NEW t \in Seq(S), Len(s) = Len(t),
         \A i \in 1..Len(s) : s[i] = t[i]
  PROVE  s = t
OBVIOUS

LEMMA KindsType ==
  ASSUME NEW s \in Seq(Message)
  PROVE  KindsOf(s) \in Seq(Kinds) /\ Len(KindsOf(s)) = Len(s)
<1>1. s \in [1..Len(s) -> Message] /\ DOMAIN s = 1..Len(s) /\ Len(s) \in Nat
  OBVIOUS
<1>2. \A i \in 1..Len(s) : s[i].kind \in Kinds
  BY <1>1 DEF Message
<1>3. KindsOf(s) \in [1..Len(s) -> Kinds]
  BY <1>1, <1>2 DEF KindsOf
<1> QED
  BY <1>1, <1>3, IsASeq

\* What the inbox is after a chunk has come, or gone.
LEMMA KindsAppend ==
  ASSUME NEW s \in Seq(Message), NEW m \in Message
  PROVE  KindsOf(Append(s, m)) = Append(KindsOf(s), m.kind)
<1>1. /\ Append(s, m) \in Seq(Message) /\ Len(Append(s, m)) = Len(s) + 1
      /\ DOMAIN s = 1..Len(s) /\ Len(s) \in Nat
  OBVIOUS
<1>2. /\ KindsOf(s) \in Seq(Kinds) /\ Len(KindsOf(s)) = Len(s)
      /\ KindsOf(Append(s, m)) \in Seq(Kinds)
      /\ Len(KindsOf(Append(s, m))) = Len(s) + 1
  BY <1>1, KindsType
<1>3. ASSUME NEW i \in 1..Len(s) + 1
      PROVE  KindsOf(Append(s, m))[i] = Append(KindsOf(s), m.kind)[i]
  <2>1. /\ Append(s, m)[i] = IF i <= Len(s) THEN s[i] ELSE m
        /\ i \in DOMAIN Append(s, m) /\ (i <= Len(s) => i \in DOMAIN s)
        /\ Append(KindsOf(s), m.kind)[i] =
             IF i <= Len(s) THEN KindsOf(s)[i] ELSE m.kind
    BY <1>1, <1>2
  <2> QED
    BY <2>1 DEF KindsOf
<1>4. /\ Append(KindsOf(s), m.kind) \in Seq(Kinds)
      /\ Len(Append(KindsOf(s), m.kind)) = Len(s) + 1
  <2>1. m.kind \in Kinds
    BY DEF Message
  <2> QED
    BY <1>2, <2>1
<1> QED
  BY <1>1, <1>2, <1>3, <1>4, SameSeq

LEMMA KindsTail ==
  ASSUME NEW s \in Seq(Message), s # <<>>
  PROVE  KindsOf(s) # <<>> /\ KindsOf(Tail(s)) = Tail(KindsOf(s))
<1>1. /\ Tail(s) \in Seq(Message) /\ Len(Tail(s)) = Len(s) - 1
      /\ DOMAIN s = 1..Len(s) /\ Len(s) \in Nat \ {0}
  OBVIOUS
<1>2. /\ KindsOf(s) \in Seq(Kinds) /\ Len(KindsOf(s)) = Len(s)
      /\ KindsOf(Tail(s)) \in Seq(Kinds) /\ Len(KindsOf(Tail(s))) = Len(s) - 1
  BY <1>1, KindsType
<1>3. ASSUME NEW i \in 1..Len(s) - 1
      PROVE  KindsOf(Tail(s))[i] = Tail(KindsOf(s))[i]
  <2>1. /\ Tail(s)[i] = s[i + 1] /\ i \in DOMAIN Tail(s) /\ i + 1 \in DOMAIN s
        /\ Tail(KindsOf(s))[i] = KindsOf(s)[i + 1]
    BY <1>1, <1>2
  <2> QED
    BY <2>1 DEF KindsOf
<1>4. /\ Tail(KindsOf(s)) \in Seq(Kinds) /\ KindsOf(s) # <<>>
      /\ Len(Tail(KindsOf(s))) = Len(s) - 1
  BY <1>1, <1>2
<1> QED
  BY <1>1, <1>2, <1>3, <1>4, SameSeq

LEMMA ViewFrame ==
  ASSUME UNCHANGED <<ExchangePhase, ExchangeEnded, queue>>
  PROVE  UNCHANGED Exchange!exchangeVars
BY DEF Exchange!exchangeVars

LEMMA ExchangeBegins == Init => Exchange!Init
<1> SUFFICES ASSUME Init PROVE Exchange!Init
  OBVIOUS
<1>1. ExchangePhase = "idle" /\ ExchangeEnded = FALSE
  BY DEF Init, ExchangePhase, ExchangeEnded
<1>2. queue = <<>> /\ DOMAIN <<>> = {}
  BY DEF Init
<1>3. [i \in DOMAIN queue |-> queue[i].kind] = <<>>
  BY <1>2
<1> QED
  BY <1>1, <1>3 DEF Exchange!Init

\* The exchange is not over before /ans ends it, and asks for nothing more
\* once the mutex, or the "ok", is not had.
LEMMA ViewHttpd ==
  ASSUME MutexInv, DataOK, ExchangeInv, ChunkInv, HttpdNext
  PROVE  [Exchange!Next]_(Exchange!exchangeVars)
<1> USE TaskNames DEF ControlOK, Take, Goto, HttpdPcs, Working, Asking,
    ReceiverPcs, Httpd, Mesh, Reader, Free, taskVars, answerVars, MutexInv,
    ExchangeInv, HttpdInExchange, ExchangePhase, ExchangeEnded
<1>1. CASE OutIgnored \/ AnsIgnored
  BY <1>1, ViewFrame DEF OutIgnored, AnsIgnored, vars
<1>2. CASE WaitOkReport(Httpd) \/ OutClear \/ OutTake \/ OutSend
  BY <1>2, ViewFrame DEF WaitOkReport, OutClear, OutTake, OutSend
<1>3. CASE OutGive \/ AnsStart
  BY <1>3, ViewFrame DEF OutGive, AnsStart
<1>4. CASE OutAccept
  <2>1. /\ ExchangePhase = "idle" /\ ExchangePhase' = "asking"
        /\ UNCHANGED <<ExchangeEnded, queue>>
    BY <1>4 DEF OutAccept
  <2> HIDE DEF ExchangePhase, ExchangeEnded
  <2>2. Exchange!Ask
    BY <2>1 DEF Exchange!Ask
  <2> QED
    BY <2>2 DEF Exchange!Next
<1>5. CASE OutTakeTimeout \/ OutNotOk \/ OutTimeout
  <2>1. /\ ExchangePhase = "asking" /\ ExchangePhase' = "idle"
        /\ UNCHANGED <<ExchangeEnded, queue>>
    BY <1>5 DEF OutTakeTimeout, OutNotOk, OutTimeout
  <2> HIDE DEF ExchangePhase, ExchangeEnded
  <2>2. Exchange!Refuse
    BY <2>1 DEF Exchange!Refuse
  <2> QED
    BY <2>2 DEF Exchange!Next
<1>6. CASE OutOk
  <2>1. /\ ~complete /\ ~timeout /\ waiting /\ pc[Httpd] = "waitok"
        /\ UNCHANGED answerVars
    BY <1>6 DEF OutOk, ChunkInv, AnswerFlags
  <2>2. \A w \in Receivers : pc[w] = "dead"
    BY <1>6, NoReceiverAtWaitOk DEF OutOk
  <2>3. PICK v \in Receivers :
          pc' = [pc EXCEPT ![Httpd] = "reply", ![v] = "take"]
    BY <1>6 DEF OutOk
  <2>4. /\ pc'[Httpd] = "reply"
        /\ \A w \in Receivers : pc'[w] \in {"dead", "take"}
    BY <2>2, <2>3
  <2>5. /\ ExchangePhase = "asking" /\ ExchangePhase' = "open"
        /\ UNCHANGED <<ExchangeEnded, queue>>
    BY <2>1, <2>2, <2>4
  <2> HIDE DEF ExchangePhase, ExchangeEnded
  <2>6. Exchange!Accept
    BY <2>5 DEF Exchange!Accept
  <2> QED
    BY <2>6 DEF Exchange!Next
<1>7. CASE AnsChunk
  <2>1. /\ ExchangePhase = "open"
        /\ UNCHANGED <<ExchangePhase, ExchangeEnded>>
    BY <1>7 DEF AnsChunk
  <2>2. /\ KindsOf(queue) # <<>> /\ KindsOf(queue)' = Tail(KindsOf(queue))
    BY <1>7, KindsTail DEF AnsChunk, DataOK
  <2> HIDE DEF ExchangePhase, ExchangeEnded
  <2>3. Exchange!Deliver
    BY <2>1, <2>2 DEF Exchange!Deliver, KindsOf
  <2> QED
    BY <2>3 DEF Exchange!Next
<1>8. CASE AnsEnd
  <2>1. /\ ExchangePhase = "open" /\ ExchangeEnded /\ queue = <<>>
        /\ ExchangePhase' = "idle" /\ ~ExchangeEnded' /\ UNCHANGED queue
    BY <1>8 DEF AnsEnd
  <2>2. [i \in DOMAIN queue |-> queue[i].kind] = <<>>
    <3>1. DOMAIN queue = {}
      BY <2>1
    <3> QED
      BY <3>1
  <2> HIDE DEF ExchangePhase, ExchangeEnded
  <2>3. ExchangeEnded' = FALSE
    BY <2>1 DEF ExchangeEnded
  <2>4. Exchange!Close
    BY <2>1, <2>2, <2>3 DEF Exchange!Close
  <2> QED
    BY <2>4 DEF Exchange!Next
<1> QED
  BY <1>1, <1>2, <1>3, <1>4, <1>5, <1>6, <1>7, <1>8 DEF HttpdNext

\* What a receiver puts into the queue arrives, its end of the wait is the
\* exchange's, and nothing else of its work is seen.
LEMMA ViewReceiver ==
  ASSUME NEW v \in Receivers, MutexInv, DataOK, ExchangeInv, ChunkInv, RecvNext(v)
  PROVE  [Exchange!Next]_(Exchange!exchangeVars)
<1> USE TaskNames DEF ControlOK, Take, Goto, Working, Asking, Receiving,
    ReceiverPcs, Httpd, Mesh, Reader, Free, taskVars, answerVars, MutexInv,
    ExchangeInv, ReceiverInExchange, ExchangePhase, ExchangeEnded
<1>1. CASE RecvReport(v) \/ RecvError(v)
  BY <1>1, ViewFrame DEF RecvReport, RecvError
<1>2. CASE RecvTake(v) \/ RecvEnd(v) \/ RecvNothing(v) \/ RecvNap(v)
  BY <1>2, ViewFrame DEF RecvTake, RecvEnd, RecvNothing, RecvNap
<1>3. CASE RecvMark(v)
  <2>1. UNCHANGED <<ExchangePhase, queue>> /\ ExchangeEnded /\ ExchangeEnded'
    BY <1>3 DEF RecvMark
  <2> HIDE DEF ExchangePhase
  <2>2. UNCHANGED ExchangeEnded
    BY <2>1 DEF ExchangeEnded
  <2> QED
    BY <2>1, <2>2, ViewFrame
<1>4. CASE RecvGive(v)
  <2>1. UNCHANGED <<waiting, complete, timeout, queue>>
    BY <1>4 DEF RecvGive
  <2>2. /\ pc'[Httpd] = pc[Httpd]
        /\ \A w \in Receivers : pc'[w] = "mark" <=> pc[w] = "mark"
    BY <1>4 DEF RecvGive
  <2>3. UNCHANGED ExchangePhase
    BY <2>1, <2>2
  <2> HIDE DEF ExchangePhase
  <2>4. UNCHANGED ExchangeEnded
    BY <2>1, <2>2, <2>3
  <2> QED
    BY <2>1, <2>3, <2>4, ViewFrame
<1>5. CASE RecvTimeout(v)
  <2>1. /\ ExchangePhase = "open" /\ ExchangePhase' = "open"
        /\ ExchangeEnded' = TRUE /\ UNCHANGED queue
        /\ ExchangeEnded \in BOOLEAN
    BY <1>5 DEF RecvTimeout
  <2> HIDE DEF ExchangePhase, ExchangeEnded
  <2>2. CASE ExchangeEnded
    BY <2>1, <2>2, ViewFrame
  <2>3. CASE ~ExchangeEnded
    <3>1. Exchange!Expire
      BY <2>1, <2>3 DEF Exchange!Expire
    <3> QED
      BY <3>1 DEF Exchange!Next
  <2> QED
    BY <2>2, <2>3
<1>6. CASE RecvForward(v)
  <2> DEFINE c == Kind(rx)
  <2>1. c \in {"seg", "fin"} /\ (IsFinal(v) <=> c = "fin")
    BY <1>6, ChunkForwarded
  <2>2. /\ ~complete /\ ~timeout /\ pc[v] = "loop"
        /\ pc' = [pc EXCEPT ![v] = IF IsFinal(v) THEN "mark" ELSE "check"]
        /\ UNCHANGED <<waiting, complete, timeout>>
        /\ \/ UNCHANGED queue
           \/ queue' = Append(queue, Head(rx))
    BY <1>6 DEF RecvForward
  <2>3. \A w \in Receivers : w # v => pc[w] = "dead"
    BY <2>2 DEF OneReceiver
  <2>4. Head(rx) \in Message /\ Head(rx).kind = c
    BY <1>6, HeadAndTail DEF RecvForward, DataOK, Kind
  <2> HIDE DEF c
  <2>5. /\ ExchangePhase = "open" /\ UNCHANGED ExchangePhase
        /\ ~ExchangeEnded /\ ExchangeEnded' = (c = "fin")
    BY <2>1, <2>2, <2>3
  <2> HIDE DEF ExchangePhase, ExchangeEnded
  <2>6. KindsOf(queue)' \in {KindsOf(queue), Append(KindsOf(queue), c)}
    BY <2>2, <2>4, KindsAppend DEF DataOK
  <2>7. PICK chunk \in {"seg", "fin"} : chunk = c
    BY <2>1
  <2>8. Exchange!Arrive(chunk)
    BY <2>5, <2>6, <2>7 DEF Exchange!Arrive, KindsOf
  <2> QED
    BY <2>8 DEF Exchange!Next
<1> QED
  BY <1>1, <1>2, <1>3, <1>4, <1>5, <1>6 DEF RecvNext

LEMMA ExchangeSteps ==
  ASSUME MutexInv, DataOK, ExchangeInv, ChunkInv, [Next]_vars
  PROVE  [Exchange!Next]_(Exchange!exchangeVars)
<1>1. CASE MeshNext \/ ReaderNext \/ SensorNext \/ UNCHANGED vars
  <2>1. UNCHANGED <<ExchangePhase, ExchangeEnded, queue>>
    BY <1>1, OthersLeaveAnswers
    DEF MutexInv, ExchangePhase, ExchangeEnded, answerState, answerVars
  <2> QED
    BY <2>1, ViewFrame
<1> QED
  BY <1>1, ViewHttpd, ViewReceiver DEF Next

\* The tasks, the mutex and the serial line together give the app what
\* AppExchange promises: one exchange at a time, refused or open, whose chunks
\* come in order and end with the final one or with a timeout, and which is
\* over only when the app has them all.
THEOREM BridgeImplementsExchange ==
  ASSUME PromptReceiver PROVE Spec => ImplementsExchange
BY ExchangeBegins, ExchangeSteps, MutexInvariant, DataInvariant,
   ExchangeInvariant, ChunkInvariant, PTL
DEF Spec, ImplementsExchange, Exchange!Spec

-----------------------------------------------------------------------------
(* Whose replies are on the line *)

\* What is still to be read, in order.
Incoming == rx \o line

Reply(m) == m.kind # "report"

Quiet(s) == \A i \in DOMAIN s : ~Reply(s[i])

\* The last command's replies: a refusal, or an "ok" before an answer, whose
\* final chunk is its last.
CommandPending(s) ==
  /\ \A i \in DOMAIN s : Reply(s[i]) => s[i].fresh
  /\ \A i, j \in DOMAIN s : i < j /\ Reply(s[i]) /\ Reply(s[j]) =>
       s[i].kind \in {"ok", "seg"} /\ s[j].kind \in {"seg", "fin"}
  /\ \A j \in DOMAIN s : Reply(s[j]) =>
       \/ s[j].kind \in {"ok", "other"}
       \/ \E i \in DOMAIN s : i < j /\ Reply(s[i])

AnswerPending(s) ==
  /\ \A i \in DOMAIN s : Reply(s[i]) => s[i].fresh /\ s[i].kind \in {"seg", "fin"}
  /\ \A i, j \in DOMAIN s : i < j /\ Reply(s[i]) /\ Reply(s[j]) => s[i].kind = "seg"

PollPending(s) ==
  \A i, j \in DOMAIN s :
    i < j /\ Reply(s[i]) /\ Reply(s[j]) => s[i].kind = "ok" /\ s[j].kind # "ok"

StatusPending(s) ==
  \A i, j \in DOMAIN s : i < j => ~Reply(s[i]) \/ ~Reply(s[j])

\* A receiver has still to read its answer, or some of it.
Collecting == \E v \in Receivers : Working(v) /\ ~done[v]

\* What the task on the line waits for.
Expecting ==
  IF pc[Httpd] = "waitok" THEN "command"
  ELSE IF Collecting THEN "answer"
  ELSE IF pc[Mesh] = "waitok" THEN "poll"
  ELSE IF pc[Mesh] = "status" THEN "status"
  ELSE "nothing"

Expected(what, s) ==
  /\ what = "command" => CommandPending(s)
  /\ what = "answer" => AnswerPending(s)
  /\ what = "poll" => PollPending(s)
  /\ what = "status" => StatusPending(s)
  /\ what = "nothing" => Quiet(s)

AllFresh(s) == \A i \in DOMAIN s : s[i].fresh

\* Undisturbed, the line carries the replies that its task waits for and no
\* others.
FreshInv == ~disturbed => AllFresh(queue) /\ Expected(Expecting, Incoming)

LEMMA QuietIsExpected ==
  ASSUME NEW s, Quiet(s), NEW what PROVE Expected(what, s)
BY DEF Quiet, Expected, CommandPending, AnswerPending, PollPending,
   StatusPending

\* The first message is read: what is expected of the others.
LEMMA AfterReport ==
  ASSUME NEW s \in Seq(Message), NEW t \in Seq(Message), Len(t) = Len(s) - 1,
         \A i \in DOMAIN t : t[i] = s[i + 1],
         ~Reply(s[1]), NEW what, Expected(what, s)
  PROVE  Expected(what, t)
<1>1. /\ DOMAIN s = 1..Len(s) /\ DOMAIN t = 1..(Len(s) - 1) /\ Len(s) \in Nat
      /\ \A i \in DOMAIN t : i + 1 \in DOMAIN s
  OBVIOUS
<1>2. CommandPending(s) => CommandPending(t)
  <2> SUFFICES ASSUME CommandPending(s) PROVE CommandPending(t)
    OBVIOUS
  <2>1. \A i \in DOMAIN t : Reply(t[i]) => t[i].fresh
    BY <1>1 DEF CommandPending
  <2>2. \A i, j \in DOMAIN t : i < j /\ Reply(t[i]) /\ Reply(t[j]) =>
          t[i].kind \in {"ok", "seg"} /\ t[j].kind \in {"seg", "fin"}
    BY <1>1 DEF CommandPending
  <2>3. ASSUME NEW j \in DOMAIN t, Reply(t[j]), t[j].kind \notin {"ok", "other"}
        PROVE  \E i \in DOMAIN t : i < j /\ Reply(t[i])
    <3>1. PICK i \in DOMAIN s : i < j + 1 /\ Reply(s[i])
      BY <1>1, <2>3 DEF CommandPending
    <3>2. i - 1 \in DOMAIN t /\ t[i - 1] = s[i] /\ i - 1 < j
      BY <1>1, <3>1
    <3> QED
      BY <3>1, <3>2
  <2> QED
    BY <2>1, <2>2, <2>3 DEF CommandPending
<1>3. AnswerPending(s) => AnswerPending(t)
  BY <1>1 DEF AnswerPending
<1>4. PollPending(s) => PollPending(t)
  BY <1>1 DEF PollPending
<1>5. StatusPending(s) => StatusPending(t)
  BY <1>1 DEF StatusPending
<1>6. Quiet(s) => Quiet(t)
  BY <1>1 DEF Quiet
<1> QED
  BY <1>2, <1>3, <1>4, <1>5, <1>6 DEF Expected

LEMMA AfterReply ==
  ASSUME NEW s \in Seq(Message), NEW t \in Seq(Message), s # <<>>,
         Len(t) = Len(s) - 1, \A i \in DOMAIN t : t[i] = s[i + 1], Reply(s[1])
  PROVE  /\ CommandPending(s) /\ s[1].kind = "ok" => AnswerPending(t)
         /\ CommandPending(s) /\ s[1].kind # "ok" => Quiet(t)
         /\ AnswerPending(s) => AnswerPending(t)
         /\ AnswerPending(s) /\ s[1].kind = "fin" => Quiet(t)
         /\ PollPending(s) /\ s[1].kind = "ok" => StatusPending(t)
         /\ PollPending(s) /\ s[1].kind # "ok" => Quiet(t)
         /\ StatusPending(s) => Quiet(t)
<1>1. /\ DOMAIN s = 1..Len(s) /\ DOMAIN t = 1..(Len(s) - 1)
      /\ Len(s) \in Nat \ {0} /\ 1 \in DOMAIN s
      /\ \A i \in DOMAIN t : i + 1 \in DOMAIN s /\ 1 < i + 1
  OBVIOUS
<1>2. CommandPending(s) /\ s[1].kind = "ok" => AnswerPending(t)
  <2> SUFFICES ASSUME CommandPending(s), s[1].kind = "ok" PROVE AnswerPending(t)
    OBVIOUS
  <2>1. \A i \in DOMAIN t :
          Reply(t[i]) => t[i].fresh /\ t[i].kind \in {"seg", "fin"}
    BY <1>1 DEF CommandPending
  <2>2. \A i, j \in DOMAIN t :
          i < j /\ Reply(t[i]) /\ Reply(t[j]) => t[i].kind = "seg"
    <3> SUFFICES ASSUME NEW i \in DOMAIN t, NEW j \in DOMAIN t,
                        i < j, Reply(t[i]), Reply(t[j])
                 PROVE  t[i].kind = "seg"
      OBVIOUS
    <3>1. t[i].kind \in {"ok", "seg"}
      BY <1>1 DEF CommandPending
    <3> QED
      BY <2>1, <3>1
  <2> QED
    BY <2>1, <2>2 DEF AnswerPending
<1>3. CommandPending(s) /\ s[1].kind # "ok" => Quiet(t)
  <2> SUFFICES ASSUME CommandPending(s), s[1].kind # "ok",
                      NEW i \in DOMAIN t, Reply(t[i])
               PROVE  FALSE
    BY DEF Quiet
  <2>1. s[1].kind \in {"ok", "seg"}
    BY <1>1 DEF CommandPending
  <2>2. \E j \in DOMAIN s : j < 1
    BY <1>1, <2>1 DEF CommandPending
  <2> QED
    BY <1>1, <2>2
<1>4. AnswerPending(s) => AnswerPending(t)
  BY <1>1 DEF AnswerPending
<1>5. AnswerPending(s) /\ s[1].kind = "fin" => Quiet(t)
  BY <1>1 DEF AnswerPending, Quiet
<1>6. PollPending(s) /\ s[1].kind = "ok" => StatusPending(t)
  <2> SUFFICES ASSUME PollPending(s), NEW i \in DOMAIN t, NEW j \in DOMAIN t,
                      i < j, Reply(t[i]), Reply(t[j])
               PROVE  FALSE
    BY DEF StatusPending
  <2>1. t[i].kind # "ok"
    BY <1>1 DEF PollPending
  <2>2. t[i].kind = "ok"
    BY <1>1 DEF PollPending
  <2> QED
    BY <2>1, <2>2
<1>7. PollPending(s) /\ s[1].kind # "ok" => Quiet(t)
  BY <1>1 DEF PollPending, Quiet
<1>8. StatusPending(s) => Quiet(t)
  BY <1>1 DEF StatusPending, Quiet
<1> QED
  BY <1>2, <1>3, <1>4, <1>5, <1>6, <1>7, <1>8

\* What comes first is lost, as a flush does.
LEMMA AfterFlush ==
  ASSUME NEW s \in Seq(Message), NEW t \in Seq(Message), NEW k \in 0..Len(s),
         Len(t) = Len(s) - k, \A i \in DOMAIN t : t[i] = s[i + k]
  PROVE  /\ PollPending(s) => PollPending(t)
         /\ StatusPending(s) => StatusPending(t)
         /\ Quiet(s) => Quiet(t)
<1>1. /\ DOMAIN s = 1..Len(s) /\ DOMAIN t = 1..(Len(s) - k) /\ Len(s) \in Nat
      /\ k \in Nat /\ \A i \in DOMAIN t : i + k \in DOMAIN s
      /\ \A i, j \in DOMAIN t : i < j => i + k < j + k
  OBVIOUS
<1>2. PollPending(s) => PollPending(t)
  BY <1>1 DEF PollPending
<1>3. StatusPending(s) => StatusPending(t)
  BY <1>1 DEF StatusPending
<1>4. Quiet(s) => Quiet(t)
  BY <1>1 DEF Quiet
<1> QED
  BY <1>2, <1>3, <1>4

\* A report comes in between.
LEMMA AfterInsert ==
  ASSUME NEW s \in Seq(Message), NEW t \in Seq(Message), NEW k \in 0..Len(s),
         Len(t) = Len(s) + 1, \A i \in 1..k : t[i] = s[i], ~Reply(t[k + 1]),
         \A i \in (k + 2)..Len(t) : t[i] = s[i - 1],
         NEW what, Expected(what, s)
  PROVE  Expected(what, t)
<1> DEFINE Old(i) == IF i <= k THEN i ELSE i - 1
           New(i) == IF i <= k THEN i ELSE i + 1
<1>1. /\ DOMAIN s = 1..Len(s) /\ DOMAIN t = 1..(Len(s) + 1)
      /\ Len(s) \in Nat /\ k \in Nat /\ k <= Len(s)
  OBVIOUS
<1>2. \A i \in DOMAIN t : Reply(t[i]) => Old(i) \in DOMAIN s /\ t[i] = s[Old(i)]
  <2> SUFFICES ASSUME NEW i \in DOMAIN t, Reply(t[i])
               PROVE  Old(i) \in DOMAIN s /\ t[i] = s[Old(i)]
    OBVIOUS
  <2>1. i # k + 1
    OBVIOUS
  <2>2. CASE i <= k
    BY <1>1, <2>2
  <2>3. CASE i > k + 1
    BY <1>1, <2>3
  <2> QED
    BY <1>1, <2>1, <2>2, <2>3
<1>3. \A i, j \in DOMAIN t :
        i < j /\ Reply(t[i]) /\ Reply(t[j]) => Old(i) < Old(j)
  BY <1>1
<1>4. \A i \in DOMAIN s : New(i) \in DOMAIN t /\ t[New(i)] = s[i]
  BY <1>1
<1>5. \A i \in DOMAIN s, j \in DOMAIN t :
        Reply(t[j]) /\ i < Old(j) => New(i) < j
  BY <1>1
<1> HIDE DEF Old, New
<1>6. CommandPending(s) => CommandPending(t)
  <2> SUFFICES ASSUME CommandPending(s) PROVE CommandPending(t)
    OBVIOUS
  <2>1. \A i \in DOMAIN t : Reply(t[i]) => t[i].fresh
    BY <1>2 DEF CommandPending
  <2>2. \A i, j \in DOMAIN t : i < j /\ Reply(t[i]) /\ Reply(t[j]) =>
          t[i].kind \in {"ok", "seg"} /\ t[j].kind \in {"seg", "fin"}
    BY <1>2, <1>3 DEF CommandPending
  <2>3. ASSUME NEW j \in DOMAIN t, Reply(t[j]), t[j].kind \notin {"ok", "other"}
        PROVE  \E i \in DOMAIN t : i < j /\ Reply(t[i])
    <3>1. PICK i \in DOMAIN s : i < Old(j) /\ Reply(s[i])
      BY <1>2, <2>3 DEF CommandPending
    <3>2. New(i) \in DOMAIN t /\ Reply(t[New(i)]) /\ New(i) < j
      BY <1>4, <1>5, <2>3, <3>1
    <3> QED
      BY <3>2
  <2> QED
    BY <2>1, <2>2, <2>3 DEF CommandPending
<1>7. AnswerPending(s) => AnswerPending(t)
  BY <1>2, <1>3 DEF AnswerPending
<1>8. PollPending(s) => PollPending(t)
  BY <1>2, <1>3 DEF PollPending
<1>9. StatusPending(s) => StatusPending(t)
  BY <1>2, <1>3 DEF StatusPending
<1>10. Quiet(s) => Quiet(t)
  BY <1>2 DEF Quiet
<1> QED
  BY <1>6, <1>7, <1>8, <1>9, <1>10 DEF Expected

LEMMA Joined ==
  ASSUME NEW a \in Seq(Message), NEW b \in Seq(Message)
  PROVE  /\ a \o b \in Seq(Message) /\ Len(a \o b) = Len(a) + Len(b)
         /\ \A i \in 1..(Len(a) + Len(b)) :
              (a \o b)[i] = IF i <= Len(a) THEN a[i] ELSE b[i - Len(a)]
OBVIOUS

LEMMA IncomingType ==
  ASSUME DataOK
  PROVE  /\ Incoming \in Seq(Message) /\ Len(Incoming) = Len(rx) + Len(line)
         /\ Len(rx) \in Nat /\ Len(line) \in Nat
         /\ \A i \in 1..(Len(rx) + Len(line)) :
              Incoming[i] = IF i <= Len(rx) THEN rx[i] ELSE line[i - Len(rx)]
BY Joined DEF DataOK, Incoming

\* A message is read from the driver's buffer.
LEMMA IncomingRead ==
  ASSUME DataOK, rx # <<>>, rx' = Tail(rx), UNCHANGED line
  PROVE  /\ Incoming \in Seq(Message) /\ Incoming' \in Seq(Message)
         /\ Incoming # <<>> /\ Incoming[1] = Head(rx)
         /\ Len(Incoming') = Len(Incoming) - 1
         /\ \A i \in DOMAIN Incoming' : Incoming'[i] = Incoming[i + 1]
<1>1. /\ rx \in Seq(Message) /\ line \in Seq(Message) /\ Len(rx) \in Nat \ {0}
      /\ Len(line) \in Nat /\ Head(rx) = rx[1]
      /\ Tail(rx) \in Seq(Message) /\ Len(Tail(rx)) = Len(rx) - 1
      /\ \A i \in 1..(Len(rx) - 1) : Tail(rx)[i] = rx[i + 1]
  BY DEF DataOK
<1>2. /\ Incoming \in Seq(Message) /\ Len(Incoming) = Len(rx) + Len(line)
      /\ \A i \in 1..(Len(rx) + Len(line)) :
           Incoming[i] = IF i <= Len(rx) THEN rx[i] ELSE line[i - Len(rx)]
  BY IncomingType
<1>3. /\ Incoming' \in Seq(Message)
      /\ Len(Incoming') = Len(rx) - 1 + Len(line)
      /\ \A i \in 1..(Len(rx) - 1 + Len(line)) :
           Incoming'[i] =
             IF i <= Len(rx) - 1 THEN Tail(rx)[i] ELSE line[i - (Len(rx) - 1)]
  BY <1>1, Joined DEF Incoming
<1>4. DOMAIN Incoming' = 1..(Len(rx) - 1 + Len(line))
  BY <1>3
<1>5. ASSUME NEW i \in 1..(Len(rx) - 1 + Len(line))
      PROVE  Incoming'[i] = Incoming[i + 1]
  BY <1>1, <1>2, <1>3
<1>6. Incoming # <<>> /\ Incoming[1] = Head(rx)
  BY <1>1, <1>2
<1> QED
  BY <1>2, <1>3, <1>4, <1>5, <1>6

\* A reply on its way reaches the buffer.
LEMMA IncomingEmit ==
  ASSUME DataOK, line # <<>>, line' = Tail(line), rx' = Append(rx, Head(line))
  PROVE  Incoming' = Incoming
<1>1. /\ rx \in Seq(Message) /\ line \in Seq(Message) /\ Len(line) \in Nat \ {0}
      /\ Len(rx) \in Nat /\ Head(line) = line[1] /\ Head(line) \in Message
      /\ Tail(line) \in Seq(Message) /\ Len(Tail(line)) = Len(line) - 1
      /\ \A i \in 1..(Len(line) - 1) : Tail(line)[i] = line[i + 1]
  BY DEF DataOK
<1>2. /\ rx' \in Seq(Message) /\ Len(rx') = Len(rx) + 1
      /\ \A i \in 1..Len(rx) : rx'[i] = rx[i]
      /\ rx'[Len(rx) + 1] = line[1]
  BY <1>1
<1>3. /\ Incoming \in Seq(Message) /\ Len(Incoming) = Len(rx) + Len(line)
      /\ \A i \in 1..(Len(rx) + Len(line)) :
           Incoming[i] = IF i <= Len(rx) THEN rx[i] ELSE line[i - Len(rx)]
  BY IncomingType
<1>4. /\ Incoming' \in Seq(Message) /\ Len(Incoming') = Len(rx) + Len(line)
      /\ \A i \in 1..(Len(rx) + Len(line)) :
           Incoming'[i] =
             IF i <= Len(rx) + 1 THEN rx'[i] ELSE Tail(line)[i - (Len(rx) + 1)]
  <2>1. /\ rx' \o Tail(line) \in Seq(Message)
        /\ Len(rx' \o Tail(line)) = Len(rx') + Len(Tail(line))
        /\ \A i \in 1..(Len(rx') + Len(Tail(line))) :
             (rx' \o Tail(line))[i] =
                IF i <= Len(rx') THEN rx'[i] ELSE Tail(line)[i - Len(rx')]
    BY <1>1, <1>2, Joined
  <2>2. Len(rx') + Len(Tail(line)) = Len(rx) + Len(line)
    BY <1>1, <1>2
  <2> QED
    BY <1>2, <2>1, <2>2 DEF Incoming
<1>5. ASSUME NEW i \in 1..(Len(rx) + Len(line)) PROVE Incoming'[i] = Incoming[i]
  <2>1. CASE i <= Len(rx)
    <3>1. i \in 1..Len(rx) /\ i <= Len(rx) + 1
      BY <1>1, <2>1
    <3>2. Incoming'[i] = rx[i]
      BY <1>2, <1>4, <3>1
    <3> QED
      BY <1>3, <2>1, <3>2
  <2>2. CASE i = Len(rx) + 1
    <3>1. i - Len(rx) = 1 /\ i <= Len(rx) + 1 /\ ~(i <= Len(rx))
      BY <1>1, <2>2
    <3>2. Incoming'[i] = line[1]
      BY <1>2, <1>4, <2>2, <3>1
    <3> QED
      BY <1>3, <3>1, <3>2
  <2>3. CASE i > Len(rx) + 1
    <3>1. /\ i - (Len(rx) + 1) \in 1..(Len(line) - 1)
          /\ i - (Len(rx) + 1) + 1 = i - Len(rx)
      BY <1>1, <2>3
    <3>2. Tail(line)[i - (Len(rx) + 1)] = line[i - Len(rx)]
      BY <1>1, <3>1
    <3> QED
      BY <1>1, <1>3, <1>4, <2>3, <3>2
  <2> QED
    BY <1>1, <2>1, <2>2, <2>3
<1> QED
  BY <1>3, <1>4, <1>5, SameSeq

\* A report comes in behind what the buffer holds.
LEMMA IncomingReport ==
  ASSUME DataOK, NEW m \in Message, rx' = Append(rx, m), UNCHANGED line
  PROVE  /\ Incoming \in Seq(Message) /\ Incoming' \in Seq(Message)
         /\ Len(rx) \in 0..Len(Incoming) /\ Len(Incoming') = Len(Incoming) + 1
         /\ \A i \in 1..Len(rx) : Incoming'[i] = Incoming[i]
         /\ Incoming'[Len(rx) + 1] = m
         /\ \A i \in (Len(rx) + 2)..Len(Incoming') : Incoming'[i] = Incoming[i - 1]
<1>1. /\ rx \in Seq(Message) /\ line \in Seq(Message) /\ Len(line) \in Nat
      /\ Len(rx) \in Nat
  BY DEF DataOK
<1>2. /\ rx' \in Seq(Message) /\ Len(rx') = Len(rx) + 1
      /\ \A i \in 1..Len(rx) : rx'[i] = rx[i]
      /\ rx'[Len(rx) + 1] = m
  BY <1>1
<1>3. /\ Incoming \in Seq(Message) /\ Len(Incoming) = Len(rx) + Len(line)
      /\ \A i \in 1..(Len(rx) + Len(line)) :
           Incoming[i] = IF i <= Len(rx) THEN rx[i] ELSE line[i - Len(rx)]
  BY IncomingType
<1>4. /\ Incoming' \in Seq(Message) /\ Len(Incoming') = Len(rx) + 1 + Len(line)
      /\ \A i \in 1..(Len(rx) + 1 + Len(line)) :
           Incoming'[i] =
             IF i <= Len(rx) + 1 THEN rx'[i] ELSE line[i - (Len(rx) + 1)]
  BY <1>1, <1>2, Joined DEF Incoming
<1>5. ASSUME NEW i \in 1..Len(rx) PROVE Incoming'[i] = Incoming[i]
  <2>1. /\ i \in 1..(Len(rx) + Len(line)) /\ i \in 1..(Len(rx) + 1 + Len(line))
        /\ i <= Len(rx) /\ i <= Len(rx) + 1
    BY <1>1
  <2> QED
    BY <1>2, <1>3, <1>4, <2>1
<1>6. Incoming'[Len(rx) + 1] = m
  BY <1>1, <1>2, <1>4
<1>7. ASSUME NEW i \in (Len(rx) + 2)..(Len(rx) + 1 + Len(line))
      PROVE  Incoming'[i] = Incoming[i - 1]
  <2>1. i - 1 \in 1..(Len(rx) + Len(line)) /\ ~(i - 1 <= Len(rx))
        /\ i \in 1..(Len(rx) + 1 + Len(line)) /\ ~(i <= Len(rx) + 1)
        /\ i - (Len(rx) + 1) = i - 1 - Len(rx)
    BY <1>1
  <2> QED
    BY <1>3, <1>4, <2>1
<1> QED
  BY <1>1, <1>3, <1>4, <1>5, <1>6, <1>7

\* A flush empties the buffer.
LEMMA IncomingFlush ==
  ASSUME DataOK, rx' = <<>>, UNCHANGED line
  PROVE  /\ Incoming \in Seq(Message) /\ Incoming' \in Seq(Message)
         /\ Len(rx) \in 0..Len(Incoming)
         /\ Len(Incoming') = Len(Incoming) - Len(rx)
         /\ \A i \in DOMAIN Incoming' : Incoming'[i] = Incoming[i + Len(rx)]
<1>1. /\ Incoming \in Seq(Message) /\ Len(Incoming) = Len(rx) + Len(line)
      /\ \A i \in 1..(Len(rx) + Len(line)) :
           Incoming[i] = IF i <= Len(rx) THEN rx[i] ELSE line[i - Len(rx)]
      /\ Len(rx) \in Nat /\ Len(line) \in Nat
  BY IncomingType
<1>2. Incoming' = line /\ line \in Seq(Message) /\ DOMAIN line = 1..Len(line)
  BY DEF DataOK, Incoming
<1>3. ASSUME NEW i \in 1..Len(line) PROVE line[i] = Incoming[i + Len(rx)]
  BY <1>1
<1> QED
  BY <1>1, <1>2, <1>3

LEMMA StaleIs ==
  ASSUME NEW s \in Seq(Message)
  PROVE  \A i \in 1..Len(s) : Stale(s)[i] = Msg(s[i].kind, FALSE)
<1>1. DOMAIN s = 1..Len(s)
  OBVIOUS
<1> QED
  BY <1>1, Zenon DEF Stale

\* A command goes out on a line without replies: what is to come is its own.
LEMMA IncomingSent ==
  ASSUME DataOK, NEW kinds \in Seq(Kinds), Quiet(Incoming),
         line' = Stale(line) \o Script(kinds), rx' = Stale(rx)
  PROVE  /\ Incoming' \in Seq(Message)
         /\ Len(Incoming') = Len(Incoming) + Len(kinds)
         /\ \A i \in 1..Len(Incoming) : ~Reply(Incoming'[i])
         /\ \A i \in 1..Len(kinds) :
              Incoming'[Len(Incoming) + i] = Msg(kinds[i], TRUE)
<1> DEFINE p == Len(rx)
           q == Len(line)
           n == Len(kinds)
           a == Stale(rx)
           b == Stale(line)
           c == Script(kinds)
           d == b \o c
<1>1. /\ rx \in Seq(Message) /\ line \in Seq(Message)
      /\ p \in Nat /\ q \in Nat /\ n \in Nat
  BY DEF DataOK
<1>2. /\ a \in Seq(Message) /\ Len(a) = p
      /\ b \in Seq(Message) /\ Len(b) = q
      /\ c \in Seq(Message) /\ Len(c) = n
      /\ \A i \in 1..p : a[i] = Msg(rx[i].kind, FALSE)
      /\ \A i \in 1..q : b[i] = Msg(line[i].kind, FALSE)
      /\ \A i \in 1..n : c[i] = Msg(kinds[i], TRUE)
  <2>1. \A i \in 1..n : c[i] = Msg(kinds[i], TRUE)
    <3>1. DOMAIN kinds = 1..Len(kinds)
      OBVIOUS
    <3> QED
      BY <3>1, Zenon DEF Script
  <2> QED
    BY <1>1, <2>1, StaleIsSeq, ScriptIsSeq, StaleIs
<1>3. Incoming' = a \o d
  BY DEF Incoming
<1> HIDE DEF p, q, n, a, b, c
<1>4. /\ d \in Seq(Message) /\ Len(d) = q + n
      /\ \A i \in 1..(q + n) : d[i] = IF i <= q THEN b[i] ELSE c[i - q]
  BY <1>2, Joined
<1> HIDE DEF d
<1>5. /\ Incoming' \in Seq(Message) /\ Len(Incoming') = p + (q + n)
      /\ \A i \in 1..(p + (q + n)) :
           Incoming'[i] = IF i <= p THEN a[i] ELSE d[i - p]
  <2>1. /\ a \o d \in Seq(Message) /\ Len(a \o d) = Len(a) + Len(d)
        /\ \A i \in 1..(Len(a) + Len(d)) :
             (a \o d)[i] = IF i <= Len(a) THEN a[i] ELSE d[i - Len(a)]
    BY <1>2, <1>4, Joined, Zenon
  <2>2. Len(a) = p /\ Len(d) = q + n
    BY <1>2, <1>4
  <2> QED
    BY <1>3, <2>1, <2>2, Zenon
<1>6. /\ Incoming \in Seq(Message) /\ Len(Incoming) = p + q
      /\ \A i \in 1..(p + q) : Incoming[i] = IF i <= p THEN rx[i] ELSE line[i - p]
  BY IncomingType DEF p, q
<1>7. ASSUME NEW i \in 1..(p + q) PROVE ~Reply(Incoming'[i])
  <2>1. /\ i \in 1..(p + (q + n)) /\ i \in DOMAIN Incoming
        /\ ~(i <= p) => i - p \in 1..q /\ i - p \in 1..(q + n) /\ i - p <= q
        /\ i <= p => i \in 1..p
    BY <1>1, <1>6
  <2>2. Incoming[i].kind = "report"
    BY <2>1 DEF Quiet, Reply
  <2>3. CASE i <= p
    <3>1. Incoming'[i] = Msg(Incoming[i].kind, FALSE)
      BY <1>2, <1>5, <1>6, <2>1, <2>3
    <3> QED
      BY <2>2, <3>1 DEF Msg, Reply
  <2>4. CASE ~(i <= p)
    <3>1. Incoming'[i] = b[i - p]
      BY <1>4, <1>5, <2>1, <2>4
    <3>2. Incoming'[i] = Msg(Incoming[i].kind, FALSE)
      BY <1>2, <1>6, <2>1, <2>4, <3>1
    <3> QED
      BY <2>2, <3>2 DEF Msg, Reply
  <2> QED
    BY <2>3, <2>4
<1>8. ASSUME NEW i \in 1..n PROVE Incoming'[p + q + i] = Msg(kinds[i], TRUE)
  <2> DEFINE j == p + q + i
             k == q + i
  <2>1. /\ j \in 1..(p + (q + n)) /\ ~(j <= p) /\ j - p = k
        /\ k \in 1..(q + n) /\ ~(k <= q) /\ k - q = i
    BY <1>1
  <2> HIDE DEF j, k
  <2>2. Incoming'[j] = d[k]
    BY <1>5, <2>1
  <2>3. d[k] = c[i]
    BY <1>4, <2>1
  <2>4. Incoming'[j] = Msg(kinds[i], TRUE)
    BY <1>2, <2>2, <2>3
  <2> QED
    BY <2>4 DEF j
<1>9. p + (q + n) = p + q + n
  BY <1>1
<1> QED
  BY <1>5, <1>6, <1>7, <1>8, <1>9 DEF n

\* The sensor answers a command with an "ok" before segments and the final
\* chunk behind them, or with a single refusal.
LEMMA CommandScript ==
  ASSUME NEW kinds \in CommandReplies
  PROVE  /\ kinds \in Seq(Kinds)
         /\ \A i \in 1..Len(kinds) : kinds[i] # "report"
         /\ Len(kinds) > 0 => kinds[1] \in {"ok", "other"}
         /\ \A i, j \in 1..Len(kinds) : i < j =>
              kinds[i] \in {"ok", "seg"} /\ kinds[j] \in {"seg", "fin"}
<1>1. kinds \in Seq(Kinds)
  BY RepliesAreKinds
<1>2. CASE kinds = <<>> \/ kinds = <<"other">>
  <2>1. /\ Len(kinds) <= 1
        /\ \A i \in 1..Len(kinds) : kinds[i] = "other"
    <3>1. CASE kinds = <<>>
      BY <3>1
    <3>2. CASE kinds = <<"other">>
      <4>1. Len(kinds) = 1 /\ kinds[1] = "other"
        BY <3>2
      <4> QED
        BY <4>1
    <3> QED
      BY <1>2, <3>1, <3>2
  <2>2. Len(kinds) \in Nat
    BY <1>1
  <2> QED
    BY <1>1, <2>1, <2>2
<1>3. ASSUME NEW n \in 0..MaxSegs
      PROVE  /\ Segs(n) \in Seq(Kinds) /\ Len(Segs(n)) = n /\ n \in Nat
             /\ \A i \in 1..n : Segs(n)[i] = "seg"
  <2>1. n \in Nat /\ Segs(n) \in [1..n -> Kinds]
    BY BoundsAreNat DEF Segs, Kinds, Bounds
  <2> QED
    BY <2>1, IsASeq DEF Segs
<1>4. ASSUME NEW n \in 0..MaxSegs, NEW s \in Seq(Kinds), s = Segs(n)
      PROVE  /\ <<"ok">> \o s \in Seq(Kinds) /\ Len(<<"ok">> \o s) = n + 1
             /\ (<<"ok">> \o s)[1] = "ok"
             /\ \A i \in 2..(n + 1) : (<<"ok">> \o s)[i] = "seg"
  <2>1. /\ Len(s) = n /\ n \in Nat /\ \A i \in 1..n : s[i] = "seg"
        /\ <<"ok">> \in Seq(Kinds)
    BY <1>3, <1>4 DEF Kinds
  <2>2. /\ <<"ok">> \o s \in Seq(Kinds) /\ Len(<<"ok">> \o s) = n + 1
        /\ \A i \in 1..(n + 1) :
             (<<"ok">> \o s)[i] = IF i <= 1 THEN <<"ok">>[i] ELSE s[i - 1]
    BY <2>1
  <2> QED
    BY <2>1, <2>2
<1>5. ASSUME NEW n \in 0..MaxSegs, kinds = <<"ok">> \o Segs(n)
      PROVE  /\ \A i \in 1..Len(kinds) : kinds[i] # "report"
             /\ Len(kinds) > 0 => kinds[1] \in {"ok", "other"}
             /\ \A i, j \in 1..Len(kinds) : i < j =>
                  kinds[i] \in {"ok", "seg"} /\ kinds[j] \in {"seg", "fin"}
  <2>1. /\ Len(kinds) = n + 1 /\ n \in Nat
        /\ kinds[1] = "ok" /\ \A i \in 2..(n + 1) : kinds[i] = "seg"
    BY <1>3, <1>4, <1>5
  <2> QED
    BY <2>1
<1>6. ASSUME NEW n \in 0..MaxSegs, kinds = <<"ok">> \o Segs(n) \o <<"fin">>
      PROVE  /\ \A i \in 1..Len(kinds) : kinds[i] # "report"
             /\ Len(kinds) > 0 => kinds[1] \in {"ok", "other"}
             /\ \A i, j \in 1..Len(kinds) : i < j =>
                  kinds[i] \in {"ok", "seg"} /\ kinds[j] \in {"seg", "fin"}
  <2> DEFINE a == <<"ok">> \o Segs(n)
  <2>1. /\ a \in Seq(Kinds) /\ Len(a) = n + 1 /\ n \in Nat /\ a[1] = "ok"
        /\ \A i \in 2..(n + 1) : a[i] = "seg"
    BY <1>3, <1>4
  <2> HIDE DEF a
  <2>2. /\ Len(a \o <<"fin">>) = n + 2
        /\ \A i \in 1..(n + 2) :
             (a \o <<"fin">>)[i] = IF i <= n + 1 THEN a[i] ELSE "fin"
    BY <2>1
  <2>3. kinds = a \o <<"fin">>
    BY <1>6 DEF a
  <2>4. /\ Len(kinds) = n + 2 /\ kinds[1] = "ok" /\ kinds[n + 2] = "fin"
        /\ \A i \in 2..(n + 1) : kinds[i] = "seg"
    BY <2>1, <2>2, <2>3
  <2> QED
    BY <2>1, <2>4
<1>7. \/ kinds = <<>> \/ kinds = <<"other">>
      \/ \E n \in 0..MaxSegs : kinds = <<"ok">> \o Segs(n)
      \/ \E n \in 0..MaxSegs : kinds = <<"ok">> \o Segs(n) \o <<"fin">>
  BY Zenon DEF CommandReplies
<1>8. CASE \E n \in 0..MaxSegs : kinds = <<"ok">> \o Segs(n)
  <2>1. PICK n \in 0..MaxSegs : kinds = <<"ok">> \o Segs(n)
    BY <1>8, Zenon
  <2> QED
    BY <1>1, <1>5, <2>1, Zenon
<1>9. CASE \E n \in 0..MaxSegs : kinds = <<"ok">> \o Segs(n) \o <<"fin">>
  <2>1. PICK n \in 0..MaxSegs : kinds = <<"ok">> \o Segs(n) \o <<"fin">>
    BY <1>9, Zenon
  <2> QED
    BY <1>1, <1>6, <2>1, Zenon
<1> QED
  BY <1>1, <1>2, <1>7, <1>8, <1>9

LEMMA PollScript ==
  ASSUME NEW kinds \in PollReplies
  PROVE  /\ kinds \in Seq(Kinds)
         /\ \A i, j \in 1..Len(kinds) : i < j => kinds[i] = "ok" /\ kinds[j] # "ok"
<1>1. kinds \in Seq(Kinds)
  BY RepliesAreKinds
<1>2. kinds \in {<<>>, <<"other">>, <<"ok">>, <<"ok", "status">>}
  BY DEF PollReplies
<1>3. \A i, j \in 1..Len(kinds) : i < j => kinds[i] = "ok" /\ kinds[j] # "ok"
  BY <1>2
<1> QED
  BY <1>1, <1>3

LEMMA CommandSent ==
  ASSUME DataOK, Quiet(Incoming), Send(CommandReplies)
  PROVE  CommandPending(Incoming')
<1>1. PICK kinds \in CommandReplies :
        line' = Stale(line) \o Script(kinds) /\ rx' = Stale(rx)
  BY DEF Send
<1> DEFINE n == Len(Incoming)
           t == Incoming'
<1>2. /\ kinds \in Seq(Kinds) /\ Len(kinds) \in Nat
      /\ \A i \in 1..Len(kinds) : kinds[i] # "report"
      /\ Len(kinds) > 0 => kinds[1] \in {"ok", "other"}
      /\ \A i, j \in 1..Len(kinds) : i < j =>
           kinds[i] \in {"ok", "seg"} /\ kinds[j] \in {"seg", "fin"}
  BY CommandScript
<1>3. /\ t \in Seq(Message) /\ Len(t) = n + Len(kinds) /\ n \in Nat
      /\ \A i \in 1..n : ~Reply(t[i])
      /\ \A i \in 1..Len(kinds) : t[n + i] = Msg(kinds[i], TRUE)
  <2>1. /\ t \in Seq(Message) /\ Len(t) = n + Len(kinds)
        /\ \A i \in 1..n : ~Reply(t[i])
        /\ \A i \in 1..Len(kinds) : t[n + i] = Msg(kinds[i], TRUE)
    BY <1>1, <1>2, IncomingSent, Zenon
  <2>2. n \in Nat
    BY IncomingType
  <2> QED
    BY <2>1, <2>2
<1> HIDE DEF n, t
<1>4. ASSUME NEW i \in DOMAIN t, Reply(t[i])
      PROVE  /\ i - n \in 1..Len(kinds) /\ t[i].fresh = TRUE
             /\ t[i].kind = kinds[i - n]
  <2>1. i \in 1..(n + Len(kinds)) /\ i \notin 1..n
    BY <1>3, <1>4
  <2>2. i - n \in 1..Len(kinds) /\ n + (i - n) = i
    BY <1>2, <1>3, <2>1
  <2>3. t[i] = Msg(kinds[i - n], TRUE)
    BY <1>3, <2>2
  <2> QED
    BY <2>2, <2>3 DEF Msg
<1>5. \A i, j \in DOMAIN t : i < j /\ Reply(t[i]) /\ Reply(t[j]) =>
        t[i].kind \in {"ok", "seg"} /\ t[j].kind \in {"seg", "fin"}
  <2> SUFFICES ASSUME NEW i \in DOMAIN t, NEW j \in DOMAIN t,
                      i < j, Reply(t[i]), Reply(t[j])
               PROVE  t[i].kind \in {"ok", "seg"} /\ t[j].kind \in {"seg", "fin"}
    OBVIOUS
  <2>1. i - n < j - n
    BY <1>3
  <2> QED
    BY <1>2, <1>4, <2>1
<1>6. ASSUME NEW j \in DOMAIN t, Reply(t[j]), t[j].kind \notin {"ok", "other"}
      PROVE  \E i \in DOMAIN t : i < j /\ Reply(t[i])
  <2>1. j - n \in 1..Len(kinds) /\ t[j].kind = kinds[j - n]
    BY <1>4, <1>6
  <2>2. kinds[1] \in {"ok", "other"}
    BY <1>2, <2>1
  <2>3. j - n # 1
    BY <1>6, <2>1, <2>2
  <2>4. 1 \in 1..Len(kinds) /\ n + 1 \in DOMAIN t /\ n + 1 < j
    BY <1>2, <1>3, <2>1, <2>3
  <2>5. t[n + 1] = Msg(kinds[1], TRUE)
    BY <1>3, <2>4
  <2>6. Reply(t[n + 1])
    BY <2>2, <2>5 DEF Msg, Reply
  <2> QED
    BY <2>4, <2>6
<1>7. CommandPending(t)
  BY <1>4, <1>5, <1>6 DEF CommandPending
<1> QED
  BY <1>7 DEF t

LEMMA PollSent ==
  ASSUME DataOK, Quiet(Incoming), Send(PollReplies)
  PROVE  PollPending(Incoming')
<1>1. PICK kinds \in PollReplies :
        line' = Stale(line) \o Script(kinds) /\ rx' = Stale(rx)
  BY DEF Send
<1> DEFINE n == Len(Incoming)
           t == Incoming'
<1>2. /\ kinds \in Seq(Kinds) /\ Len(kinds) \in Nat
      /\ \A i, j \in 1..Len(kinds) : i < j => kinds[i] = "ok" /\ kinds[j] # "ok"
  BY PollScript
<1>3. /\ t \in Seq(Message) /\ Len(t) = n + Len(kinds) /\ n \in Nat
      /\ \A i \in 1..n : ~Reply(t[i])
      /\ \A i \in 1..Len(kinds) : t[n + i] = Msg(kinds[i], TRUE)
  <2>1. /\ t \in Seq(Message) /\ Len(t) = n + Len(kinds)
        /\ \A i \in 1..n : ~Reply(t[i])
        /\ \A i \in 1..Len(kinds) : t[n + i] = Msg(kinds[i], TRUE)
    BY <1>1, <1>2, IncomingSent, Zenon
  <2>2. n \in Nat
    BY IncomingType
  <2> QED
    BY <2>1, <2>2
<1> HIDE DEF n, t
<1>4. ASSUME NEW i \in DOMAIN t, Reply(t[i])
      PROVE  i - n \in 1..Len(kinds) /\ t[i].kind = kinds[i - n]
  <2>1. i \in 1..(n + Len(kinds)) /\ i \notin 1..n
    BY <1>3, <1>4
  <2>2. i - n \in 1..Len(kinds) /\ n + (i - n) = i
    BY <1>2, <1>3, <2>1
  <2>3. t[i] = Msg(kinds[i - n], TRUE)
    BY <1>3, <2>2
  <2> QED
    BY <2>2, <2>3 DEF Msg
<1>5. PollPending(t)
  <2> SUFFICES ASSUME NEW i \in DOMAIN t, NEW j \in DOMAIN t,
                      i < j, Reply(t[i]), Reply(t[j])
               PROVE  t[i].kind = "ok" /\ t[j].kind # "ok"
    BY DEF PollPending
  <2>1. i - n < j - n
    BY <1>3
  <2> QED
    BY <1>2, <1>4, <2>1
<1> QED
  BY <1>5 DEF t

\* Where the tasks are tells what is expected on the line.
LEMMA ExpectingIs ==
  ASSUME MutexInv, ExchangeInv
  PROVE  /\ pc[Httpd] = "send" => Expecting = "nothing"
         /\ pc[Httpd] = "waitok" => Expecting = "command"
         /\ pc[Mesh] = "send" => Expecting = "nothing"
         /\ pc[Mesh] = "waitok" => Expecting = "poll"
         /\ pc[Mesh] = "status" => Expecting = "status"
         /\ pc[Reader] = "read" => Expecting = "nothing"
         /\ ~waiting => Expecting \in {"poll", "status", "nothing"}
         /\ \A v \in Receivers :
              /\ Working(v) /\ ~done[v] => Expecting = "answer"
              /\ Critical(v) /\ (pc[v] = "give" \/ done[v]) => Expecting = "nothing"
<1> USE TaskNames DEF MutexInv, LineExclusive, Critical, ExchangeInv,
    ReceiverInExchange, HttpdInExchange, Working, Httpd, Mesh, Reader, Free
<1>1. pc[Mesh] \in {"send", "waitok", "status", "give"} \/ pc[Reader] = "read"
        => pc[Httpd] # "waitok" /\ ~Collecting
  BY DEF Collecting
<1>2. pc[Httpd] \in {"send", "waitok"} =>
        ~Collecting /\ pc[Mesh] \notin {"waitok", "status"}
  BY DEF Collecting
<1>3. pc[Reader] = "read" => pc[Mesh] \notin {"waitok", "status"}
  OBVIOUS
<1>4. ~waiting => pc[Httpd] # "waitok" /\ ~Collecting
  BY DEF Collecting, Asking
<1>5. ASSUME NEW v \in Receivers, Working(v), ~done[v]
      PROVE  pc[Httpd] # "waitok" /\ Collecting
  BY <1>5 DEF Collecting
<1>6. ASSUME NEW v \in Receivers, Critical(v), pc[v] = "give" \/ done[v]
      PROVE  /\ pc[Httpd] # "waitok" /\ ~Collecting
             /\ pc[Mesh] \notin {"waitok", "status"}
  <2>1. mutex = v
    BY <1>6
  <2>2. pc[Httpd] # "waitok" /\ pc[Mesh] \notin {"waitok", "status"}
    BY <2>1
  <2>3. \A w \in Receivers : w # v => pc[w] = "dead"
    BY <1>6 DEF OneReceiver
  <2> QED
    BY <1>6, <2>2, <2>3 DEF Collecting
<1> QED
  BY <1>1, <1>2, <1>3, <1>4, <1>5, <1>6 DEF Expecting

LEMMA ExpectingFrame ==
  ASSUME pc'[Httpd] = "waitok" <=> pc[Httpd] = "waitok",
         pc'[Mesh] = "waitok" <=> pc[Mesh] = "waitok",
         pc'[Mesh] = "status" <=> pc[Mesh] = "status",
         \A v \in Receivers :
           Working(v)' /\ ~done'[v] <=> Working(v) /\ ~done[v]
  PROVE  Expecting' = Expecting
BY DEF Expecting, Collecting

LEMMA FreshFrame ==
  ASSUME FreshInv, UNCHANGED <<Expecting, Incoming, queue>>, disturbed => disturbed'
  PROVE  FreshInv'
BY DEF FreshInv

\* When nothing is to come nothing wrong can be expected.
LEMMA FreshWhenQuiet ==
  ASSUME ~disturbed' => AllFresh(queue') /\ Quiet(Incoming')
  PROVE  FreshInv'
BY QuietIsExpected DEF FreshInv

LEMMA FreshInit == Init => FreshInv
<1> SUFFICES ASSUME Init PROVE FreshInv
  OBVIOUS
<1>1. queue = <<>> /\ Incoming = <<>>
  BY DEF Init, Incoming
<1>2. AllFresh(queue) /\ Quiet(Incoming)
  BY <1>1 DEF AllFresh, Quiet
<1> QED
  BY <1>2, QuietIsExpected DEF FreshInv

\* A wait that ends with no reply left to come.
LEMMA FreshEndWait ==
  ASSUME DataOK, FreshInv, EndWait, UNCHANGED <<serialVars, queue>>
  PROVE  FreshInv'
<1> SUFFICES ASSUME ~disturbed' PROVE AllFresh(queue') /\ Quiet(Incoming')
  BY FreshWhenQuiet
<1>1. ~disturbed /\ NoReplyComing
  BY DEF EndWait
<1>2. line = <<>> /\ rx \in Seq(Message) /\ Len(rx) \in Nat
  BY <1>1 DEF NoReplyComing, DataOK
<1>3. Incoming = rx /\ UNCHANGED Incoming
  BY <1>2 DEF Incoming, serialVars
<1>4. Quiet(Incoming)
  BY <1>1, <1>3 DEF NoReplyComing, Quiet, Reply
<1> QED
  BY <1>1, <1>3, <1>4 DEF FreshInv

\* A report is read off the line.
LEMMA FreshReport ==
  ASSUME DataOK, FreshInv, rx # <<>>, Kind(rx) = "report", rx' = Tail(rx),
         UNCHANGED <<line, queue, disturbed, Expecting>>
  PROVE  FreshInv'
<1>1. /\ Incoming \in Seq(Message) /\ Incoming' \in Seq(Message)
      /\ Incoming[1] = Head(rx) /\ Len(Incoming') = Len(Incoming) - 1
      /\ \A i \in DOMAIN Incoming' : Incoming'[i] = Incoming[i + 1]
  BY IncomingRead
<1>2. ~Reply(Incoming[1])
  BY <1>1 DEF Kind, Reply
<1> SUFFICES ASSUME ~disturbed
             PROVE  AllFresh(queue)' /\ Expected(Expecting', Incoming')
  BY DEF FreshInv, AllFresh
<1>3. Expected(Expecting, Incoming')
  BY <1>1, <1>2, AfterReport DEF FreshInv
<1> QED
  BY <1>3 DEF FreshInv, AllFresh

\* A reply is read off the line while it is expected.
LEMMA FreshReply ==
  ASSUME DataOK, FreshInv, ~disturbed, rx # <<>>, Kind(rx) # "report",
         rx' = Tail(rx), UNCHANGED line
  PROVE  /\ Expecting = "command" /\ Kind(rx) = "ok" => AnswerPending(Incoming')
         /\ Expecting = "command" /\ Kind(rx) # "ok" => Quiet(Incoming')
         /\ Expecting = "answer" => AnswerPending(Incoming')
         /\ Expecting = "answer" => Kind(rx) \in {"seg", "fin"} /\ Head(rx).fresh
         /\ Expecting = "answer" /\ Kind(rx) = "fin" => Quiet(Incoming')
         /\ Expecting = "poll" /\ Kind(rx) = "ok" => StatusPending(Incoming')
         /\ Expecting = "poll" /\ Kind(rx) # "ok" => Quiet(Incoming')
         /\ Expecting = "status" => Quiet(Incoming')
         /\ Expecting # "nothing"
<1>1. /\ Incoming \in Seq(Message) /\ Incoming' \in Seq(Message)
      /\ Incoming # <<>> /\ Incoming[1] = Head(rx)
      /\ Len(Incoming') = Len(Incoming) - 1
      /\ \A i \in DOMAIN Incoming' : Incoming'[i] = Incoming[i + 1]
  BY IncomingRead
<1>2. /\ Reply(Incoming[1]) /\ Incoming[1].kind = Kind(rx)
      /\ 1 \in DOMAIN Incoming
  BY <1>1 DEF Kind, Reply
<1>3. /\ CommandPending(Incoming) /\ Kind(rx) = "ok" => AnswerPending(Incoming')
      /\ CommandPending(Incoming) /\ Kind(rx) # "ok" => Quiet(Incoming')
      /\ AnswerPending(Incoming) => AnswerPending(Incoming')
      /\ AnswerPending(Incoming) /\ Kind(rx) = "fin" => Quiet(Incoming')
      /\ PollPending(Incoming) /\ Kind(rx) = "ok" => StatusPending(Incoming')
      /\ PollPending(Incoming) /\ Kind(rx) # "ok" => Quiet(Incoming')
      /\ StatusPending(Incoming) => Quiet(Incoming')
  BY <1>1, <1>2, AfterReply
<1>4. AnswerPending(Incoming) => Kind(rx) \in {"seg", "fin"} /\ Head(rx).fresh
  BY <1>1, <1>2 DEF AnswerPending
<1>5. ~Quiet(Incoming)
  BY <1>2 DEF Quiet
<1>6. Expected(Expecting, Incoming)
  BY DEF FreshInv
<1> QED
  BY <1>3, <1>4, <1>5, <1>6 DEF Expected

LEMMA AllFreshTail ==
  ASSUME NEW s \in Seq(Message), s # <<>>, AllFresh(s) PROVE AllFresh(Tail(s))
<1>1. /\ DOMAIN s = 1..Len(s) /\ DOMAIN Tail(s) = 1..(Len(s) - 1)
      /\ Len(s) \in Nat \ {0} /\ \A i \in 1..(Len(s) - 1) : Tail(s)[i] = s[i + 1]
  OBVIOUS
<1> QED
  BY <1>1 DEF AllFresh

LEMMA FreshHttpd ==
  ASSUME MutexInv, DataOK, ExchangeInv, ChunkInv, FreshInv, HttpdNext
  PROVE  FreshInv'
<1> USE TaskNames DEF ControlOK, Take, Goto, Working, Httpd, Mesh, Reader,
    taskVars, answerVars, serialVars, appVars, MutexInv
<1>1. CASE OutIgnored \/ AnsIgnored
  BY <1>1, FreshFrame
  DEF OutIgnored, AnsIgnored, vars, Expecting, Collecting, Incoming
<1>2. CASE OutClear \/ OutTake \/ OutGive \/ AnsStart \/ AnsEnd \/ OutTakeTimeout
  <2>1. Expecting' = Expecting
    BY <1>2, ExpectingFrame
    DEF OutClear, OutTake, OutGive, AnsStart, AnsEnd, OutTakeTimeout
  <2>2. UNCHANGED <<rx, line, queue, disturbed>>
    BY <1>2 DEF OutClear, OutTake, OutGive, AnsStart, AnsEnd, OutTakeTimeout
  <2> QED
    BY <2>1, <2>2, FreshFrame DEF Incoming
<1>3. CASE WaitOkReport(Httpd)
  BY <1>3, FreshReport DEF WaitOkReport, Expecting, Collecting
<1>4. CASE AnsChunk
  <2>1. UNCHANGED <<Expecting, Incoming, disturbed>>
    BY <1>4 DEF AnsChunk, Expecting, Collecting, Incoming
  <2>2. AllFresh(queue) => AllFresh(queue')
    BY <1>4, AllFreshTail DEF AnsChunk, DataOK
  <2> QED
    BY <2>1, <2>2 DEF FreshInv
<1>5. CASE OutAccept
  <2> SUFFICES ASSUME ~disturbed' PROVE AllFresh(queue')
                                        /\ Expected(Expecting', Incoming')
    BY DEF FreshInv
  <2>1. /\ ~disturbed /\ ~waiting /\ rx' = <<>> /\ queue' = <<>>
        /\ UNCHANGED <<line, done>> /\ pc' = [pc EXCEPT ![Httpd] = "cleared"]
        /\ pc[Httpd] = "idle"
    BY <1>5 DEF OutAccept
  <2>2. Expecting' = Expecting /\ Expecting \in {"poll", "status", "nothing"}
    BY <2>1, ExpectingFrame, ExpectingIs
  <2>3. /\ PollPending(Incoming) => PollPending(Incoming')
        /\ StatusPending(Incoming) => StatusPending(Incoming')
        /\ Quiet(Incoming) => Quiet(Incoming')
    BY <2>1, IncomingFlush, AfterFlush
  <2>4. Expected(Expecting, Incoming)
    BY <2>1 DEF FreshInv
  <2>5. AllFresh(queue')
    BY <2>1 DEF AllFresh
  <2> QED
    BY <2>2, <2>3, <2>4, <2>5 DEF Expected
<1>6. CASE OutSend
  <2> SUFFICES ASSUME ~disturbed' PROVE AllFresh(queue')
                                        /\ Expected(Expecting', Incoming')
    BY DEF FreshInv
  <2>1. /\ Send(CommandReplies) /\ pc[Httpd] = "send" /\ pc'[Httpd] = "waitok"
        /\ UNCHANGED queue /\ (disturbed => rx = <<>> /\ line = <<>>)
    BY <1>6 DEF OutSend
  <2>2. Quiet(Incoming)
    <3>1. CASE ~disturbed
      BY <2>1, <3>1, ExpectingIs DEF FreshInv, Expected
    <3>2. CASE rx = <<>> /\ line = <<>>
      <4>1. Incoming = <<>>
        BY <3>2 DEF Incoming
      <4> QED
        BY <4>1 DEF Quiet
    <3> QED
      BY <2>1, <3>1, <3>2
  <2>3. CommandPending(Incoming')
    BY <2>1, <2>2, CommandSent
  <2>4. Expecting' = "command"
    BY <2>1 DEF Expecting
  <2>5. queue' = <<>>
    BY <2>1 DEF ExchangeInv, HttpdInExchange, Asking
  <2>6. AllFresh(queue')
    BY <2>5 DEF AllFresh
  <2> QED
    BY <2>3, <2>4, <2>6 DEF Expected
<1>7. CASE OutOk
  <2> SUFFICES ASSUME ~disturbed' PROVE AllFresh(queue')
                                        /\ Expected(Expecting', Incoming')
    BY DEF FreshInv
  <2>1. /\ ~disturbed /\ pc[Httpd] = "waitok" /\ rx # <<>> /\ Kind(rx) = "ok"
        /\ rx' = Tail(rx) /\ UNCHANGED <<line, queue, done>>
    BY <1>7 DEF OutOk
  <2>2. AnswerPending(Incoming')
    BY <2>1, FreshReply, ExpectingIs
  <2>3. PICK v \in Receivers :
          pc[v] = "dead" /\ pc' = [pc EXCEPT ![Httpd] = "reply", ![v] = "take"]
    BY <1>7 DEF OutOk
  <2>4. pc'[v] = "take" /\ pc'[Httpd] = "reply" /\ ~done'[v]
    BY <2>1, <2>3 DEF ChunkInv, ReceiverFlags
  <2>5. Expecting' = "answer"
    BY <2>4 DEF Expecting, Collecting
  <2>6. AllFresh(queue')
    BY <2>1 DEF FreshInv
  <2> QED
    BY <2>2, <2>5, <2>6 DEF Expected
<1>8. CASE OutNotOk
  <2>1. /\ pc[Httpd] = "waitok" /\ rx # <<>> /\ Kind(rx) # "report"
        /\ Kind(rx) # "ok" /\ rx' = Tail(rx)
        /\ UNCHANGED <<line, queue, disturbed>>
    BY <1>8 DEF OutNotOk
  <2>2. ~disturbed => Quiet(Incoming')
    BY <2>1, FreshReply, ExpectingIs
  <2> QED
    BY <2>1, <2>2, FreshWhenQuiet DEF FreshInv
<1>9. CASE OutTimeout
  BY <1>9, FreshEndWait DEF OutTimeout
<1> QED
  BY <1>1, <1>2, <1>3, <1>4, <1>5, <1>6, <1>7, <1>8, <1>9 DEF HttpdNext

LEMMA FreshReceiver ==
  ASSUME NEW v \in Receivers, MutexInv, DataOK, ExchangeInv, ChunkInv, FreshInv,
         RecvNext(v)
  PROVE  FreshInv'
<1> USE TaskNames DEF ControlOK, Take, Goto, Working, Receiving, Httpd, Mesh,
    Reader, taskVars, answerVars, serialVars, appVars, MutexInv
<1>1. CASE RecvTake(v) \/ RecvNothing(v) \/ RecvNap(v)
  <2>1. Expecting' = Expecting
    BY <1>1, ExpectingFrame DEF RecvTake, RecvNothing, RecvNap
  <2>2. UNCHANGED <<rx, line, queue, disturbed>>
    BY <1>1 DEF RecvTake, RecvNothing, RecvNap
  <2> QED
    BY <2>1, <2>2, FreshFrame DEF Incoming
<1>2. CASE RecvMark(v) \/ RecvGive(v) \/ RecvEnd(v)
  <2>1. pc[v] # "give" => done[v]
    BY <1>2 DEF RecvMark, RecvGive, RecvEnd, ChunkInv, ReceiverFlags
  <2>2. /\ pc' \in {[pc EXCEPT ![v] = "check"], [pc EXCEPT ![v] = "dead"],
                    [pc EXCEPT ![v] = "give"]}
        /\ UNCHANGED <<rx, line, queue, disturbed>>
        /\ \A w \in Receivers : w # v => done'[w] = done[w]
        /\ pc'[v] \notin {"dead", "give"} => done'[v]
    BY <1>2, <2>1 DEF RecvMark, RecvGive, RecvEnd, DataOK
  <2>3. Expecting' = Expecting
    BY <2>1, <2>2, ExpectingFrame
  <2> QED
    BY <2>2, <2>3, FreshFrame DEF Incoming
<1>3. CASE RecvReport(v)
  BY <1>3, FreshReport DEF RecvReport, Expecting, Collecting
<1>4. CASE RecvError(v)
  <2>1. /\ Working(v) /\ ~done[v] /\ rx # <<>> /\ Kind(rx) # "report"
        /\ Kind(rx) \notin {"seg", "fin"} /\ rx' = Tail(rx)
        /\ UNCHANGED <<line, disturbed>>
    BY <1>4 DEF RecvError, IsFinal
  <2>2. disturbed
    BY <2>1, FreshReply, ExpectingIs
  <2> QED
    BY <2>1, <2>2 DEF FreshInv
<1>5. CASE RecvForward(v)
  <2> SUFFICES ASSUME ~disturbed' PROVE FreshInv'
    BY DEF FreshInv
  <2>1. /\ pc[v] = "loop" /\ Working(v) /\ rx # <<>> /\ Kind(rx) # "report"
        /\ rx' = Tail(rx) /\ UNCHANGED line /\ ~disturbed
        /\ queue' \in {queue, Append(queue, Head(rx))}
        /\ done' = [done EXCEPT ![v] = IsFinal(v)]
        /\ pc' = [pc EXCEPT ![v] = IF IsFinal(v) THEN "mark" ELSE "check"]
    BY <1>5 DEF RecvForward
  <2>2. ~done[v] /\ (IsFinal(v) <=> Kind(rx) = "fin")
    BY <1>5, ChunkForwarded
  <2>3. Expecting = "answer"
    BY <2>1, <2>2, ExpectingIs
  <2>4. /\ AnswerPending(Incoming') /\ Head(rx).fresh
        /\ IsFinal(v) => Quiet(Incoming')
    BY <2>1, <2>2, <2>3, FreshReply
  <2>5. AllFresh(queue')
    <3>1. AllFresh(queue) /\ queue \in Seq(Message) /\ Head(rx) \in Message
      BY <2>1, HeadAndTail DEF FreshInv, DataOK
    <3>2. CASE queue' = Append(queue, Head(rx))
      BY <2>4, <3>1, <3>2 DEF AllFresh
    <3> QED
      BY <2>1, <3>1, <3>2
  <2>6. CASE IsFinal(v)
    BY <2>4, <2>5, <2>6, FreshWhenQuiet
  <2>7. CASE ~IsFinal(v)
    <3>1. Expecting' = Expecting
      BY <2>1, <2>2, <2>7, ExpectingFrame DEF DataOK
    <3> QED
      BY <2>3, <2>4, <2>5, <3>1 DEF FreshInv, Expected
  <2> QED
    BY <2>6, <2>7
<1>6. CASE RecvTimeout(v)
  BY <1>6, FreshEndWait DEF RecvTimeout
<1> QED
  BY <1>1, <1>2, <1>3, <1>4, <1>5, <1>6 DEF RecvNext

LEMMA FreshMesh ==
  ASSUME MutexInv, DataOK, ExchangeInv, FreshInv, MeshNext PROVE FreshInv'
<1> USE TaskNames DEF ControlOK, Take, Goto, Working, Httpd, Mesh, Reader,
    taskVars, answerVars, serialVars, appVars, MutexInv
<1>1. CASE PollWake \/ PollTake \/ PollGive
  <2>1. Expecting' = Expecting
    BY <1>1, ExpectingFrame DEF PollWake, PollTake, PollGive
  <2>2. UNCHANGED <<rx, line, queue, disturbed>>
    BY <1>1 DEF PollWake, PollTake, PollGive
  <2> QED
    BY <2>1, <2>2, FreshFrame DEF Incoming
<1>2. CASE PollSend
  <2> SUFFICES ASSUME ~disturbed' PROVE AllFresh(queue')
                                        /\ Expected(Expecting', Incoming')
    BY DEF FreshInv
  <2>1. /\ Send(PollReplies) /\ pc[Mesh] = "send" /\ ~disturbed
        /\ pc' = [pc EXCEPT ![Mesh] = "waitok"] /\ UNCHANGED <<queue, done>>
    BY <1>2 DEF PollSend
  <2>2. Expecting = "nothing"
    BY <2>1, ExpectingIs
  <2>3. Quiet(Incoming) /\ AllFresh(queue')
    BY <2>1, <2>2 DEF FreshInv, Expected
  <2>4. PollPending(Incoming')
    BY <2>1, <2>3, PollSent
  <2>5. Expecting' = "poll"
    BY <2>1, <2>2 DEF Expecting, Collecting
  <2> QED
    BY <2>3, <2>4, <2>5 DEF Expected
<1>3. CASE WaitOkReport(Mesh)
  BY <1>3, FreshReport DEF WaitOkReport, Expecting, Collecting
<1>4. CASE PollOk
  <2> SUFFICES ASSUME ~disturbed' PROVE AllFresh(queue')
                                        /\ Expected(Expecting', Incoming')
    BY DEF FreshInv
  <2>1. /\ pc[Mesh] = "waitok" /\ ~disturbed /\ rx # <<>> /\ Kind(rx) = "ok"
        /\ rx' = Tail(rx) /\ UNCHANGED <<line, queue, done>>
        /\ pc' = [pc EXCEPT ![Mesh] = "status"]
    BY <1>4 DEF PollOk
  <2>2. Expecting = "poll"
    BY <2>1, ExpectingIs
  <2>3. StatusPending(Incoming')
    BY <2>1, <2>2, FreshReply
  <2>4. Expecting' = "status"
    BY <2>1, <2>2 DEF Expecting, Collecting
  <2> QED
    BY <2>1, <2>3, <2>4 DEF Expected, FreshInv
<1>5. CASE PollNotOk
  <2>1. /\ pc[Mesh] = "waitok" /\ rx # <<>> /\ Kind(rx) # "report"
        /\ Kind(rx) # "ok" /\ rx' = Tail(rx)
        /\ UNCHANGED <<line, queue, disturbed>>
    BY <1>5 DEF PollNotOk
  <2>2. ~disturbed => Quiet(Incoming')
    BY <2>1, FreshReply, ExpectingIs
  <2> QED
    BY <2>1, <2>2, FreshWhenQuiet DEF FreshInv
<1>6. CASE PollTimeout \/ PollNoStatus
  BY <1>6, FreshEndWait DEF PollTimeout, PollNoStatus
<1>7. CASE PollStatus
  <2> SUFFICES ASSUME ~disturbed' PROVE FreshInv'
    BY DEF FreshInv
  <2>1. /\ pc[Mesh] = "status" /\ ~disturbed /\ rx # <<>> /\ rx' = Tail(rx)
        /\ Kind(rx) # "report" /\ UNCHANGED <<line, queue>>
    BY <1>7 DEF PollStatus
  <2>2. Quiet(Incoming')
    BY <2>1, FreshReply, ExpectingIs
  <2> QED
    BY <2>1, <2>2, FreshWhenQuiet DEF FreshInv
<1> QED
  BY <1>1, <1>2, <1>3, <1>4, <1>5, <1>6, <1>7 DEF MeshNext

\* The report reader finds no reply it could throw away.
LEMMA FreshReader ==
  ASSUME MutexInv, DataOK, ExchangeInv, FreshInv, ReaderNext PROVE FreshInv'
<1> USE TaskNames DEF ControlOK, Take, Goto, Working, Httpd, Mesh, Reader,
    taskVars, answerVars, serialVars, appVars, MutexInv
<1>1. CASE ReadTake \/ ReadNothing \/ ReadAdd \/ ReadWake
  <2>1. Expecting' = Expecting
    BY <1>1, ExpectingFrame DEF ReadTake, ReadNothing, ReadAdd, ReadWake
  <2>2. UNCHANGED <<rx, line, queue, disturbed>>
    BY <1>1 DEF ReadTake, ReadNothing, ReadAdd, ReadWake
  <2> QED
    BY <2>1, <2>2, FreshFrame DEF Incoming
<1>2. CASE ReadOther
  <2>1. /\ pc[Reader] = "read" /\ rx # <<>> /\ Kind(rx) # "report"
        /\ rx' = Tail(rx) /\ UNCHANGED <<line, disturbed>>
    BY <1>2 DEF ReadOther
  <2>2. disturbed
    BY <2>1, FreshReply, ExpectingIs
  <2> QED
    BY <2>1, <2>2 DEF FreshInv
<1>3. CASE ReadReport
  <2>1. Expecting' = Expecting
    BY <1>3, ExpectingFrame DEF ReadReport
  <2> QED
    BY <1>3, <2>1, FreshReport DEF ReadReport
<1> QED
  BY <1>1, <1>2, <1>3 DEF ReaderNext

LEMMA FreshSensor == ASSUME DataOK, FreshInv, SensorNext PROVE FreshInv'
<1>1. Expecting' = Expecting /\ UNCHANGED queue
  BY DEF SensorNext, SensorEmit, SensorReport, ReportDrain, taskVars,
     answerVars, Expecting, Collecting, Working
<1>2. CASE SensorEmit
  <2> SUFFICES ASSUME ~disturbed' PROVE FreshInv'
    BY DEF FreshInv
  <2>1. ~disturbed /\ Len(rx) # RxCap /\ line # <<>> /\ line' = Tail(line)
    BY <1>2 DEF SensorEmit
  <2>2. Len(rx) \in Nat /\ Len(rx) <= RxCap /\ RxCap \in Nat
    BY BoundsAreNat DEF DataOK, Bounds
  <2>3. rx' = Append(rx, Head(line))
    BY <1>2, <2>1, <2>2 DEF SensorEmit
  <2>4. Incoming' = Incoming
    BY <2>1, <2>3, IncomingEmit
  <2> QED
    BY <1>1, <2>1, <2>4, FreshFrame
<1>3. CASE SensorReport
  <2>1. PICK m \in Message : m = Msg("report", FALSE)
    BY DEF Msg, Message, Kinds
  <2>2. ~Reply(m) /\ rx' = Append(rx, m) /\ UNCHANGED <<line, disturbed>>
    BY <1>3, <2>1 DEF SensorReport, Msg, Reply, appVars
  <2>3. /\ Incoming \in Seq(Message) /\ Incoming' \in Seq(Message)
        /\ Len(rx) \in 0..Len(Incoming) /\ Len(Incoming') = Len(Incoming) + 1
        /\ \A i \in 1..Len(rx) : Incoming'[i] = Incoming[i]
        /\ Incoming'[Len(rx) + 1] = m
        /\ \A i \in (Len(rx) + 2)..Len(Incoming') : Incoming'[i] = Incoming[i - 1]
    BY <2>2, IncomingReport
  <2>4. Expected(Expecting, Incoming) => Expected(Expecting, Incoming')
    BY <2>2, <2>3, AfterInsert
  <2> QED
    BY <1>1, <2>2, <2>4 DEF FreshInv
<1>4. CASE ReportDrain
  BY <1>1, <1>4, FreshFrame DEF ReportDrain, serialVars, appVars, Incoming
<1> QED
  BY <1>2, <1>3, <1>4 DEF SensorNext

LEMMA FreshStep ==
  ASSUME MutexInv, DataOK, ExchangeInv, ChunkInv, FreshInv, [Next]_vars
  PROVE  FreshInv'
<1>1. CASE UNCHANGED vars
  BY <1>1, FreshFrame DEF vars, Expecting, Collecting, Working, Incoming
<1> QED
  BY <1>1, FreshHttpd, FreshReceiver, FreshMesh, FreshReader, FreshSensor
     DEF Next

LEMMA FreshInvariant ==
  ASSUME PromptReceiver PROVE Spec => []FreshInv
BY FreshInit, FreshStep, MutexInvariant, DataInvariant, ExchangeInvariant,
   ChunkInvariant, PTL DEF Spec

\* The app is given the answer of its own command, from a command sent on a
\* silent line up to a late reply, a cut or lost message, or a report read as
\* a status: no reply of an older command is left on the line when a task
\* begins to wait, and no task reads what another waits for.
THEOREM AnswersAreFresh ==
  ASSUME PromptReceiver PROVE Spec => []AnswersFresh
<1>1. FreshInv => AnswersFresh
  BY DEF FreshInv, AllFresh, AnswersFresh
<1> QED
  BY <1>1, FreshInvariant, PTL

=============================================================================
