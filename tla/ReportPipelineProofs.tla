------------------------- MODULE ReportPipelineProofs -------------------------
(***************************************************************************)
(* Theorems about ReportPipeline, for all devices, dates, limits and       *)
(* numbers of reports.  Each stands on an inductive invariant of its own:  *)
(* MsgInv, what the adders and the intake know of the mutex and the buffer *)
(* between them; IdInv, which ids are taken; NameInv, how far the writer's *)
(* three reads of the date have come; and, on top of TypeInv, TimeInv, the *)
(* order of the times from stamp to window, WindowInv, and FreshInv, that  *)
(* a report offered was not accepted before.  The last part shows that the *)
(* pipeline implements ReportLog.                                          *)
(***************************************************************************)
EXTENDS ReportPipeline, FiniteSetTheorems, TLAPS

-----------------------------------------------------------------------------
(* The buffer of messages *)

\* The adder pushes only with the mutex; the intake pops, with or without it,
\* only what is there; and it never waits with the mutex on top of a report.
MsgInv ==
  /\ adder \in [Adders -> {"idle", "take", "push"}]
  /\ \A a \in Adders : msgMutex = a <=> adder[a] = "push"
  /\ msgMutex = "intake" => intake \in {"test", "pop", "give", "sleep", "take"}
  /\ intake = "pop" => msgs # <<>>
  /\ StuckStrandsNothing

msgState == <<msgMutex, msgs, adder, intake>>

LEMMA MsgStart ==
  /\ Init => MsgInv
  /\ Restart => MsgInv'
BY DEF Init, Restart, MsgInv, StuckStrandsNothing, Adders

LEMMA MsgStep == MsgInv /\ [Next]_vars => MsgInv'
<1> SUFFICES ASSUME MsgInv, [Next]_vars PROVE MsgInv'
  OBVIOUS
<1>1. ASSUME NEW a \in Adders, AdderNext(a) PROVE MsgInv'
  <2> USE DEF MsgInv, StuckStrandsNothing, notAdder, intakeVars, Adders
  <2>1. CASE AddTake(a)
    BY <2>1 DEF AddTake
  <2>2. CASE AddTimeout(a)
    BY <2>2 DEF AddTimeout, AddDone
  <2>3. CASE AddRefuse(a)
    BY <2>3 DEF AddRefuse, AddDone
  <2>4. CASE AddPush(a)
    <3>1. Append(msgs, report[a]) # <<>>
      OBVIOUS
    <3> QED
      BY <2>4, <3>1 DEF AddPush, AddDone
  <2> QED
    BY <1>1, <2>1, <2>2, <2>3, <2>4 DEF AdderNext
<1>2. CASE IntakeNext
  <2> USE DEF MsgInv, StuckStrandsNothing, IntakeTo, adderVars, Adders
  <2>1. CASE IntakeTake
    BY <2>1 DEF IntakeTake
  <2>2. CASE IntakeTest
    BY <2>2 DEF IntakeTest
  <2>3. CASE IntakePop
    BY <2>3 DEF IntakePop
  <2>4. CASE IntakePopTorn \/ IntakePopRace \/ IntakeGiveAsserts
    BY <2>4, MsgStart DEF IntakePopTorn, IntakePopRace, IntakeGiveAsserts, Halt
  <2>5. CASE IntakeGive
    BY <2>5 DEF IntakeGive
  <2>6. CASE IntakeFind
    BY <2>6 DEF IntakeFind
  <2>7. CASE IntakeUnknown
    BY <2>7 DEF IntakeUnknown, IntakeDrop
  <2>8. CASE IntakeAddTake
    BY <2>8 DEF IntakeAddTake
  <2>9. CASE IntakeAddTimeout
    BY <2>9 DEF IntakeAddTimeout, IntakeDrop
  <2>10. CASE IntakePush
    BY <2>10 DEF IntakePush
  <2>11. CASE IntakeWake
    BY <2>11 DEF IntakeWake
  <2> QED
    BY <1>2, <2>1, <2>2, <2>3, <2>4, <2>5, <2>6, <2>7, <2>8, <2>9, <2>10,
       <2>11 DEF IntakeNext
<1>3. CASE WriterNext
  <2>1. CASE WriterHalts
    BY <2>1, MsgStart DEF WriterHalts, Halt
  <2>2. ASSUME WriterNext, ~WriterHalts PROVE UNCHANGED msgState
    BY <2>2 DEF msgState, WriterNext, WriterWake, ReadYear, ReadMonth, ReadDay,
                ReadDate, WriterTake, WriterTimeout, WriterSleep, WriterSample,
                WriterGive, WriterNothing, WriterOpen, WriterWrite, WriterClose,
                WriterTo, adderVars, intakeVars
  <2> QED
    BY <1>3, <2>1, <2>2 DEF msgState, MsgInv, StuckStrandsNothing
<1>4. CASE Requests
  <2>1. ASSUME NEW a \in Adders, ConfigCrash \/ OfferLong(a) PROVE MsgInv'
    BY <2>1, MsgStart DEF ConfigCrash, OfferLong, Halt
  <2>2. ASSUME NEW a \in Adders, NEW mac, Offer(a, mac) PROVE MsgInv'
    BY <2>2 DEF Offer, LineFree, notAdder, intakeVars, MsgInv,
                StuckStrandsNothing, Adders
  <2>3. ASSUME NEW mac, ConfigAsk(mac) PROVE UNCHANGED msgState
    BY <2>3 DEF ConfigAsk, ConfigTo, adderVars, intakeVars, msgState
  <2>4. ASSUME NEW t, Clock(t) PROVE UNCHANGED msgState
    BY <2>4 DEF Clock, adderVars, intakeVars, msgState
  <2>5. ASSUME UNCHANGED msgState PROVE MsgInv'
    BY <2>5 DEF msgState, MsgInv, StuckStrandsNothing
  <2> QED
    BY <1>4, <2>1, <2>2, <2>3, <2>4, <2>5 DEF Requests, Adders
<1>5. CASE ConfigInsert \/ UNCHANGED vars
  BY <1>5 DEF ConfigInsert, ConfigTo, vars, adderVars, intakeVars, MsgInv,
              StuckStrandsNothing
<1>6. CASE PowerCycle
  BY <1>6, MsgStart DEF PowerCycle
<1> QED
  BY <1>1, <1>2, <1>3, <1>4, <1>5, <1>6 DEF Next

\* The intake that waits for the mutex it has kept does not wait on top of a
\* report that was accepted (report_entry_handler, add_entry_to_report_msg_buffer).
THEOREM IntakeStrandsNothing == Spec => []StuckStrandsNothing
<1>1. MsgInv => StuckStrandsNothing
  BY DEF MsgInv
<1> QED
  BY <1>1, MsgStart, MsgStep, PTL DEF Spec

-----------------------------------------------------------------------------
(* The ids of the devices *)

\* As long as there are no more devices than ids, the ids given are the first
\* ones, each once; and the device that is being inserted is a new one.
IdInv ==
  /\ IsFiniteSet(DOMAIN known)
  /\ config = "insert" => newMac \notin DOMAIN known
  /\ Cardinality(DOMAIN known) <= IdMod =>
       \A m \in DOMAIN known : known[m] \in 0 .. Cardinality(DOMAIN known) - 1
  /\ IdsUnique

LEMMA IdStart ==
  /\ Init => IdInv
  /\ Restart => IdInv'
<1>1. DOMAIN EmptyMap = {} /\ IsFiniteSet({})
  BY FS_EmptySet DEF EmptyMap
<1> QED
  BY <1>1 DEF Init, Restart, IdInv, IdsUnique

\* Only the configuration of a device changes the map.
LEMMA MapStep ==
  [Next]_vars => UNCHANGED mapVars \/ Restart \/ ConfigInsert
                   \/ \E mac \in Macs : ConfigAsk(mac)
<1> SUFFICES ASSUME [Next]_vars
             PROVE  UNCHANGED mapVars \/ Restart \/ ConfigInsert
                      \/ \E mac \in Macs : ConfigAsk(mac)
  OBVIOUS
<1>1. ASSUME NEW a \in Adders, AdderNext(a) PROVE UNCHANGED mapVars
  BY <1>1 DEF AdderNext, AddTake, AddTimeout, AddRefuse, AddPush, AddDone,
              notAdder
<1>2. ASSUME IntakeNext PROVE UNCHANGED mapVars \/ Restart
  BY <1>2 DEF IntakeNext, IntakeTake, IntakeTest, IntakePop, IntakePopTorn,
              IntakePopRace, IntakeGive, IntakeGiveAsserts, IntakeFind, IntakeUnknown,
              IntakeDrop, IntakeAddTake, IntakeAddTimeout, IntakePush,
              IntakeWake, IntakeTo, Halt
<1>3. ASSUME WriterNext PROVE UNCHANGED mapVars \/ Restart
  BY <1>3 DEF WriterNext, WriterWake, ReadYear, ReadMonth, ReadDay, ReadDate,
              WriterTake, WriterTimeout, WriterSleep, WriterSample, WriterGive,
              WriterNothing, WriterOpen, WriterWrite, WriterClose, WriterTo,
              WriterHalts, Halt
<1>4. ASSUME Requests
      PROVE  UNCHANGED mapVars \/ Restart \/ \E mac \in Macs : ConfigAsk(mac)
  BY <1>4 DEF Requests, Offer, OfferLong, notAdder, ConfigCrash, Halt, Clock
<1> QED
  BY <1>1, <1>2, <1>3, <1>4 DEF Next, PowerCycle, vars

LEMMA IdStep == IdInv /\ [Next]_vars => IdInv'
<1> SUFFICES ASSUME IdInv, [Next]_vars PROVE IdInv'
  OBVIOUS
<1> USE DEF IdInv, IdsUnique
<1>1. CASE UNCHANGED mapVars
  BY <1>1 DEF mapVars
<1>2. CASE Restart
  BY <1>2, IdStart
<1>3. ASSUME NEW mac \in Macs, ConfigAsk(mac) PROVE IdInv'
  BY <1>3 DEF ConfigAsk, ConfigTo
<1>4. CASE ConfigInsert
  <2> DEFINE D == DOMAIN known
  <2>1. newMac \notin D /\ config' = "idle" /\ DOMAIN known' = D \cup {newMac}
    BY <1>4 DEF ConfigInsert, ConfigTo
  <2>2. /\ IsFiniteSet(D \cup {newMac})
        /\ Cardinality(D \cup {newMac}) = Cardinality(D) + 1
        /\ Cardinality(D) \in Nat
    BY <2>1, FS_AddElement, FS_CardinalityType
  <2>3. ASSUME Cardinality(D) + 1 <= IdMod
        PROVE  /\ \A m \in D : known'[m] = known[m]
                                 /\ known[m] \in 0 .. Cardinality(D) - 1
               /\ known'[newMac] = Cardinality(D)
    <3>1. Cardinality(D) % IdMod = Cardinality(D)
      BY <2>2, <2>3, PipelineAssumption
    <3> QED
      BY <1>4, <2>1, <2>2, <2>3, <3>1, PipelineAssumption DEF ConfigInsert
  <2>4. Cardinality(DOMAIN known') = Cardinality(D) + 1
    BY <2>1, <2>2
  <2>5. ASSUME Cardinality(D) + 1 <= IdMod, NEW m \in D \cup {newMac}
        PROVE  known'[m] \in 0 .. Cardinality(D)
    BY <2>2, <2>3, <2>5
  <2>6. ASSUME Cardinality(D) + 1 <= IdMod, NEW a \in D \cup {newMac},
               NEW b \in D \cup {newMac}, known'[a] = known'[b]
        PROVE  a = b
    <3>1. Cardinality(D) <= IdMod
      BY <2>2, <2>6, PipelineAssumption
    <3>2. CASE a \in D /\ b \in D
      BY <2>3, <2>6, <3>1, <3>2
    <3>3. CASE a = newMac \/ b = newMac
      BY <2>2, <2>3, <2>6, <3>3
    <3> QED
      BY <2>6, <3>2, <3>3
  <2>7. IsFiniteSet(DOMAIN known') /\ ~(config' = "insert")
    BY <2>1, <2>2
  <2>8. Cardinality(DOMAIN known') - 1 = Cardinality(D)
    BY <2>2, <2>4
  <2> HIDE DEF D
  <2>9. Cardinality(DOMAIN known') <= IdMod =>
          \A m \in DOMAIN known' :
            known'[m] \in 0 .. Cardinality(DOMAIN known') - 1
    BY <2>1, <2>4, <2>5, <2>8
  <2> QED
    BY <2>1, <2>4, <2>6, <2>7, <2>9
<1> QED
  BY <1>1, <1>2, <1>3, <1>4, MapStep

\* Two devices share an id only when there are more devices than ids
\* (add_device_to_report_info_map).
THEOREM IdsAreUnique == Spec => []IdsUnique
<1>1. IdInv => IdsUnique
  BY DEF IdInv
<1> QED
  BY <1>1, IdStart, IdStep, PTL DEF Spec

-----------------------------------------------------------------------------
(* The file of the records *)

\* How much of the date name holds while the writer is at pc, if the day has
\* not turned.
NameAt(pc) ==
  CASE pc = "month" -> [year |-> Today.year % 100, month |-> 0, day |-> 0]
    [] pc = "day" -> [year |-> Today.year % 100, month |-> Today.month, day |-> 0]
    [] OTHER -> [year |-> Today.year % 100, month |-> Today.month,
                 day |-> Today.day]

Named == {"month", "day", "take", "drain", "open", "write", "close"}

\* The file is open only on a name, and on today's name unless the day turned.
NameInv ==
  /\ now \in Times
  /\ writer \in Named =>
       name \in Days /\ (~turned => name = NameAt(writer))
  /\ card \in [mounted : BOOLEAN, isOpen : BOOLEAN, file : Days \cup {NoFile}]
  /\ card.isOpen <=> card.file # NoFile
  /\ card.isOpen => writer \in {"write", "close"} /\ card.file = name

nameState == <<now, turned, writer, name, card>>

LEMMA NameStart ==
  /\ Init => NameInv
  /\ NameInv /\ Restart => NameInv'
<1> DEFINE Closed == [mounted : BOOLEAN, isOpen : {FALSE}, file : {NoFile}]
<1>1. Cards \subseteq Closed
  <2>1. ASSUME NEW b \in BOOLEAN PROVE [NewCard EXCEPT !.mounted = b] \in Closed
    BY DEF NewCard
  <2>2. ASSUME NEW failed \in 0 .. MAX_CARD_MOUNT_ATTEMPTS
        PROVE  (failed < MAX_CARD_MOUNT_ATTEMPTS) \in BOOLEAN
    BY DEF MAX_CARD_MOUNT_ATTEMPTS
  <2>3. ASSUME NEW failed \in 0 .. MAX_CARD_MOUNT_ATTEMPTS
        PROVE  begin(NewCard, failed) \in Closed
    <3> HIDE DEF Closed
    <3> QED
      BY <2>1, <2>2, Zenon DEF begin
  <2> QED
    BY <2>3, Zenon DEF Cards
<1>2. Init => NameInv
  BY <1>1 DEF Init, NameInv, Named
<1>3. NameInv /\ Restart => NameInv'
  BY <1>1 DEF Restart, NameInv, Named
<1> QED
  BY <1>2, <1>3

\* A date in the form of a file name.
LEMMA DayName ==
  ASSUME NEW t \in Times
  PROVE  /\ [DateAt[t] EXCEPT !.year = @ % 100] =
              [year |-> DateAt[t].year % 100, month |-> DateAt[t].month,
               day |-> DateAt[t].day]
         /\ DateAt[t].year % 100 \in Nat
         /\ DateAt[t].month \in Nat /\ DateAt[t].day \in Nat
<1>1. DateAt[t] \in Days
  BY PipelineAssumption DEF Times
<1> QED
  BY <1>1 DEF Days

LEMMA NameStep == NameInv /\ [Next]_vars => NameInv'
<1> SUFFICES ASSUME NameInv, [Next]_vars PROVE NameInv'
  OBVIOUS
<1>d. /\ Today.year % 100 \in Nat /\ Today.month \in Nat /\ Today.day \in Nat
      /\ NoFile \notin Days
  BY DayName, PipelineAssumption DEF NameInv, Today
<1>1. ASSUME UNCHANGED nameState PROVE NameInv'
  BY <1>1 DEF nameState, NameInv, NameAt, Today
<1>2. ASSUME NEW t \in Times, Clock(t) PROVE NameInv'
  <2>1. /\ UNCHANGED <<writer, name, card>> /\ now' = t
        /\ writer \in Named /\ ~turned' => ~turned /\ Today' = Today
    BY <1>2 DEF Clock, writerVars, Named, Today
  <2> QED
    BY <2>1 DEF NameInv, NameAt
<1>3. ASSUME Restart PROVE NameInv'
  BY <1>3, NameStart
<1>4. CASE WriterNext
  <2> USE DEF WriterTo, NameInv, Named, NameAt, Today
  <2>1. CASE WriterWake
    BY <2>1 DEF WriterWake, ReadDate
  <2>2. CASE ReadYear
    BY <2>2, <1>d DEF ReadYear, ReadDate, Days
  <2>3. CASE ReadMonth
    <3>1. name \in Days /\ name' = [name EXCEPT !.month = Today.month]
      BY <2>3 DEF ReadMonth, ReadDate
    <3>2. /\ name' \in Days
          /\ name' = [year |-> name.year, month |-> Today.month, day |-> name.day]
      BY <3>1, <1>d DEF Days
    <3>3. /\ UNCHANGED <<now, turned, card>> /\ writer' = "day"
          /\ writer = "month" /\ ~card.isOpen
          /\ ~turned => name = [year |-> Today.year % 100, month |-> 0, day |-> 0]
      BY <2>3 DEF ReadMonth, ReadDate
    <3>4. ~turned => name' = NameAt("day")'
      BY <3>2, <3>3
    <3> QED
      BY <3>2, <3>3, <3>4
  <2>4. CASE ReadDay
    <3>1. name \in Days /\ name' = [name EXCEPT !.day = Today.day]
      BY <2>4 DEF ReadDay, ReadDate
    <3>2. /\ name' \in Days
          /\ name' = [year |-> name.year, month |-> name.month, day |-> Today.day]
      BY <3>1, <1>d DEF Days
    <3>3. /\ UNCHANGED <<now, turned, card>> /\ writer' = "take"
          /\ writer = "day" /\ ~card.isOpen
          /\ ~turned => name = [year |-> Today.year % 100, month |-> Today.month,
                          day |-> 0]
      BY <2>4 DEF ReadDay, ReadDate
    <3>4. ~turned => name' = NameAt("take")'
      BY <3>2, <3>3
    <3> QED
      BY <3>2, <3>3, <3>4
  <2>5. CASE WriterTake \/ WriterSample \/ WriterGive \/ WriterWrite
    BY <2>5 DEF WriterTake, WriterSample, WriterGive, WriterWrite
  <2>6. CASE WriterTimeout \/ WriterNothing
    BY <2>6 DEF WriterTimeout, WriterNothing, WriterSleep
  <2>7. CASE WriterOpen
    BY <2>7, <1>d DEF WriterOpen, openFile, closeFile
  <2>8. CASE WriterHalts
    BY <2>8, <1>3 DEF WriterHalts, Halt
  <2>9. CASE WriterClose
    BY <2>9, <1>d DEF WriterClose, WriterSleep, closeFile
  <2> QED
    BY <1>4, <2>1, <2>2, <2>3, <2>4, <2>5, <2>6, <2>7, <2>8, <2>9
    DEF WriterNext
<1>5. ASSUME NEW a \in Adders, AdderNext(a) PROVE NameInv'
  BY <1>5, <1>1
  DEF AdderNext, AddTake, AddTimeout, AddRefuse, AddPush, AddDone, notAdder,
      writerVars, clockVars, nameState
<1>6. CASE IntakeNext
  BY <1>6, <1>1, <1>3
  DEF IntakeNext, IntakeTake, IntakeTest, IntakePop, IntakePopTorn, IntakePopRace,
      IntakeGive,
      IntakeGiveAsserts, IntakeFind, IntakeUnknown, IntakeDrop, IntakeAddTake,
      IntakeAddTimeout, IntakePush, IntakeWake, IntakeTo, Halt, writerVars,
      clockVars, nameState
<1>7. CASE Requests
  BY <1>7, <1>1, <1>2, <1>3
  DEF Requests, Offer, OfferLong, notAdder, ConfigCrash, Halt, ConfigAsk,
      ConfigTo, writerVars, clockVars, nameState
<1>8. CASE ConfigInsert \/ PowerCycle \/ UNCHANGED vars
  BY <1>8, <1>1, <1>3
  DEF ConfigInsert, ConfigTo, PowerCycle, vars, writerVars, clockVars, nameState
<1> QED
  BY <1>4, <1>5, <1>6, <1>7, <1>8 DEF Next

\* The records go to the file of today, unless the day has turned since the
\* writer woke up; and the file is closed again (writing_file_handler,
\* createFileName, CartaoSD::openFile and closeFile).
THEOREM FileIsCurrent == Spec => []FileNameCurrent
<1>1. NameInv => FileNameCurrent
  BY DayName DEF NameInv, FileNameCurrent, NameAt, Named, Today
<1> QED
  BY <1>1, NameStart, NameStep, PTL DEF Spec

-----------------------------------------------------------------------------
(* Types *)

Holding == {"give", "find", "add", "push"}

\* The types, and who works on a report.
TypeInv ==
  /\ TypeOK
  /\ \A a \in Adders : adder[a] # "idle" => report[a] \in Reports
  /\ IF intake \in Holding THEN held \in Reports ELSE held = NoReport
  /\ config = "insert" => newMac \in Macs

LEMMA TypeStart ==
  /\ Init => TypeInv
  /\ TypeInv /\ (PowerCycle \/ Halt) => TypeInv'
<1>1. DOMAIN EmptyMap = {} /\ IsFiniteSet({}) /\ EmptyMap \in [{} -> 0 .. IdMod - 1]
  BY FS_EmptySet DEF EmptyMap
<1>2. /\ 0 \in 0 .. MaxReports /\ 0 \in 0 .. IdMod - 1 /\ 0 <= MsgLimit + 1
      /\ {} \subseteq 0 .. IdMod - 1 /\ 0 \in Times
  BY PipelineAssumption DEF Times
<1>3. Len(<<>>) = 0 /\ \A S : <<>> \in Seq(S)
  OBVIOUS
<1>4. Init => TypeInv
  BY <1>1, <1>2, <1>3 DEF Init, TypeInv, TypeOK, Holding
<1>5. TypeInv /\ (PowerCycle \/ Halt) => TypeInv'
  BY <1>1, <1>2, <1>3 DEF PowerCycle, Halt, Restart, TypeInv, TypeOK, Holding
<1> QED
  BY <1>4, <1>5

LEMMA AdderTypes ==
  ASSUME TypeInv, NEW a \in Adders, AdderNext(a) PROVE TypeInv'
<1> USE DEF TypeInv, TypeOK, notAdder, intakeVars, heldVars, mapVars, writerVars,
            clockVars
<1>0. a # "free" /\ a # "intake"
  BY DEF Adders
<1>1. CASE AddTake(a)
  BY <1>1 DEF AddTake
<1>2. CASE AddTimeout(a)
  BY <1>2 DEF AddTimeout, AddDone
<1>3. CASE AddRefuse(a)
  BY <1>3 DEF AddRefuse, AddDone
<1>4. CASE AddPush(a)
  <2>1. report[a] \in Reports /\ report[a].n \in 1 .. MaxReports
    BY <1>4 DEF AddPush, Reports
  <2>2. msgs' \in Seq(Reports) /\ Len(msgs') <= MsgLimit + 1
    BY <1>4, <2>1, PipelineAssumption DEF AddPush
  <2> QED
    BY <1>4, <2>1, <2>2 DEF AddPush, AddDone
<1> QED
  BY <1>1, <1>2, <1>3, <1>4 DEF AdderNext

LEMMA IntakeTypes == TypeInv /\ MsgInv /\ IntakeNext => TypeInv'
<1> SUFFICES ASSUME TypeInv, MsgInv, IntakeNext PROVE TypeInv'
  OBVIOUS
<1>0. 0 \in 0 .. IdMod - 1 /\ 0 \in Times
  BY PipelineAssumption DEF Times
<1>1. CASE IntakePopTorn \/ IntakePopRace \/ IntakeGiveAsserts
  BY <1>1, TypeStart DEF IntakePopTorn, IntakePopRace, IntakeGiveAsserts
<1> USE DEF TypeInv, TypeOK, IntakeTo, adderVars, heldVars, mapVars, writerVars,
            clockVars, Holding
<1>2. CASE IntakeTake \/ IntakeTest \/ IntakeGive \/ IntakeAddTake \/ IntakeWake
  <2>1. CASE IntakeTake
    BY <2>1 DEF IntakeTake
  <2>2. CASE IntakeTest
    BY <2>2 DEF IntakeTest
  <2>3. CASE IntakeGive
    BY <2>3 DEF IntakeGive
  <2>4. CASE IntakeAddTake
    BY <2>4 DEF IntakeAddTake
  <2>5. CASE IntakeWake
    BY <2>5 DEF IntakeWake
  <2> QED
    BY <1>2, <2>1, <2>2, <2>3, <2>4, <2>5
<1>3. CASE IntakePop
  <2>1. /\ Head(msgs) \in Reports /\ Tail(msgs) \in Seq(Reports)
        /\ Len(Tail(msgs)) <= MsgLimit + 1
    BY <1>3, PipelineAssumption DEF IntakePop, MsgInv
  <2> QED
    BY <1>3, <2>1 DEF IntakePop
<1>4. CASE IntakeFind
  <2>1. heldId' \in 0 .. IdMod - 1
    BY <1>0, <1>4 DEF IntakeFind, Found
  <2> QED
    BY <1>4, <2>1 DEF IntakeFind
<1>5. CASE IntakeUnknown \/ IntakeAddTimeout
  BY <1>0, <1>5 DEF IntakeUnknown, IntakeAddTimeout, IntakeDrop
<1>6. CASE IntakePush
  <2>1. writing' \in Seq(Entries)
    BY <1>6 DEF IntakePush, Reports, Entries
  <2> QED
    BY <1>0, <1>6, <2>1 DEF IntakePush
<1> QED
  BY <1>1, <1>2, <1>3, <1>4, <1>5, <1>6 DEF IntakeNext

\* What the writer may change, and the types of that.
WriterTypeOK ==
  /\ writeMutex \in {"free", "intake", "writer"}
  /\ writing \in Seq(Entries)
  /\ writer \in {"sleep", "year", "month", "day", "take", "drain", "open",
                 "write", "close"}
  /\ added \in BOOLEAN /\ turned \in BOOLEAN
  /\ DOMAIN params \subseteq 0 .. IdMod - 1
  /\ sampled \in 0 .. MaxReports

LEMMA WriterFrame ==
  ASSUME TypeInv, WriterTypeOK',
         UNCHANGED <<finished, adderVars, msgMutex, msgs, intakeVars, mapVars,
                     now, setBack, halted>>
  PROVE  TypeInv'
BY DEF TypeInv, TypeOK, WriterTypeOK, adderVars, intakeVars, heldVars, mapVars

LEMMA WriterTypes == TypeInv /\ WriterNext => TypeInv'
<1> SUFFICES ASSUME TypeInv, WriterNext PROVE TypeInv'
  OBVIOUS
<1>1. CASE WriterHalts
  BY <1>1, TypeStart DEF WriterHalts
<1>0. WriterTypeOK
  BY DEF TypeInv, TypeOK, WriterTypeOK
<1> DEFINE Frame == UNCHANGED <<finished, adderVars, msgMutex, msgs, intakeVars,
                                mapVars, now, setBack, halted>>
           Suffices == WriterTypeOK' /\ Frame
<1>2. ASSUME NEW from, NEW to \in {"year", "month", "day", "take"}, NEW date,
             ReadDate(from, to, date)
      PROVE  Suffices
  BY <1>0, <1>2 DEF ReadDate, WriterTo, WriterTypeOK
<1>3. CASE WriterWake \/ ReadYear \/ ReadMonth \/ ReadDay
  BY <1>2, <1>3, WriterFrame DEF WriterWake, ReadYear, ReadMonth, ReadDay
<1>4. CASE WriterTake \/ WriterGive \/ WriterOpen
  <2>1. Suffices
    BY <1>0, <1>4 DEF WriterTake, WriterGive, WriterOpen, WriterTo, WriterTypeOK
  <2> QED
    BY <2>1, WriterFrame
<1>5. CASE WriterTimeout \/ WriterNothing \/ WriterClose
  <2>1. Suffices
    BY <1>0, <1>5 DEF WriterTimeout, WriterNothing, WriterClose, WriterSleep,
                      WriterTo, WriterTypeOK
  <2> QED
    BY <2>1, WriterFrame
<1>6. CASE WriterSample
  <2>1. writing # <<>> /\ writing \in Seq(Entries)
    BY <1>0, <1>6 DEF WriterSample, WriterTypeOK
  <2>2. Head(writing) \in Entries /\ Tail(writing) \in Seq(Entries)
    BY <2>1
  <2>3. Head(writing).id \in 0 .. IdMod - 1 /\ Head(writing).n \in 0 .. MaxReports
    BY <2>2, PipelineAssumption DEF Entries
  <2>4. DOMAIN params' = DOMAIN params \cup {Head(writing).id}
    BY <1>6 DEF WriterSample
  <2>5. Suffices
    BY <1>0, <1>6, <2>2, <2>3, <2>4 DEF WriterSample, WriterTo, WriterTypeOK
  <2> QED
    BY <2>5, WriterFrame
<1>7. CASE WriterWrite
  <2>1. DOMAIN params' = DOMAIN params
    BY <1>7 DEF WriterWrite
  <2>2. Suffices
    BY <1>0, <1>7, <2>1 DEF WriterWrite, WriterTo, WriterTypeOK
  <2> QED
    BY <2>2, WriterFrame
<1> QED
  BY <1>1, <1>3, <1>4, <1>5, <1>6, <1>7 DEF WriterNext

LEMMA TypeStep == TypeInv /\ MsgInv /\ [Next]_vars => TypeInv'
<1> SUFFICES ASSUME TypeInv, MsgInv, [Next]_vars PROVE TypeInv'
  OBVIOUS
<1>1. ASSUME NEW a \in Adders, NEW mac \in Mesh, Offer(a, mac) PROVE TypeInv'
  <2>1. offered + 1 \in 1 .. MaxReports /\ offered + 1 \in 0 .. MaxReports
    BY <1>1, PipelineAssumption DEF TypeInv, TypeOK, Offer
  <2>2. [mac |-> mac, n |-> offered + 1] \in Reports
    BY <2>1, PipelineAssumption DEF Reports
  <2> QED
    BY <1>1, <2>1, <2>2
    DEF Offer, LineFree, notAdder, intakeVars, heldVars, mapVars, writerVars,
        clockVars, TypeInv, TypeOK
<1>2. ASSUME NEW mac \in Macs, ConfigAsk(mac) PROVE TypeInv'
  BY <1>2 DEF ConfigAsk, ConfigTo, adderVars, intakeVars, heldVars, writerVars,
              clockVars, TypeInv, TypeOK
<1>3. ASSUME NEW t \in Times, Clock(t) PROVE TypeInv'
  BY <1>3 DEF Clock, adderVars, intakeVars, heldVars, mapVars, writerVars, TypeInv,
              TypeOK
<1>4. CASE ConfigInsert
  <2>1. /\ newMac \in Macs /\ IsFiniteSet(DOMAIN known \cup {newMac})
        /\ Cardinality(DOMAIN known) \in Nat
    BY <1>4, FS_AddElement, FS_CardinalityType DEF ConfigInsert, TypeInv, TypeOK
  <2>2. Cardinality(DOMAIN known) % IdMod \in 0 .. IdMod - 1
    BY <2>1, PipelineAssumption
  <2>3. /\ DOMAIN known' = DOMAIN known \cup {newMac}
        /\ known' \in [DOMAIN known' -> 0 .. IdMod - 1]
    BY <1>4, <2>2 DEF ConfigInsert, TypeInv, TypeOK
  <2>4. DOMAIN known' \subseteq Macs /\ IsFiniteSet(DOMAIN known')
    BY <2>1, <2>3 DEF TypeInv, TypeOK
  <2>5. /\ config' = "idle" /\ newMac' = Nobody
        /\ UNCHANGED <<finished, adderVars, msgMutex, msgs, intakeVars,
                       writeMutex, writing, writerVars, clockVars, halted>>
    BY <1>4 DEF ConfigInsert, ConfigTo
  <2> QED
    BY <2>3, <2>4, <2>5
    DEF adderVars, intakeVars, heldVars, writerVars, clockVars, TypeInv, TypeOK
<1>5. ASSUME NEW a, ConfigCrash \/ OfferLong(a) \/ PowerCycle PROVE TypeInv'
  BY <1>5, TypeStart DEF ConfigCrash, OfferLong
<1>6. CASE UNCHANGED vars
  BY <1>6 DEF vars, adderVars, intakeVars, heldVars, mapVars, writerVars,
              clockVars, TypeInv, TypeOK
<1> QED
  BY <1>1, <1>2, <1>3, <1>4, <1>5, <1>6, AdderTypes, IntakeTypes, WriterTypes
  DEF Next, Requests

\* Every variable of the pipeline keeps its type and its bound; the buffer of
\* add_entry_to_report_msg_buffer holds one report more than its limit.
THEOREM PipelineTypeCorrect == Spec => []TypeOK
<1>1. Init => TypeInv /\ MsgInv
  BY TypeStart, MsgStart
<1>2. TypeInv /\ MsgInv /\ [Next]_vars => (TypeInv /\ MsgInv)'
  BY TypeStep, MsgStep
<1>3. TypeInv => TypeOK
  BY DEF TypeInv
<1> QED
  BY <1>1, <1>2, <1>3, PTL DEF Spec

-----------------------------------------------------------------------------
(* The times of the windows *)

Ordered(s) == \A i, j \in DOMAIN s : i <= j => s[i].t <= s[j].t
From(s, k) == \A i \in DOMAIN s : k <= s[i].t
Upto(s, k) == \A i \in DOMAIN s : s[i].t <= k

\* A buffer keeps its order when an entry as late as all of it comes, and when
\* its head goes.
LEMMA AppendOrdered ==
  ASSUME NEW S, \A x \in S : x.t \in Nat, NEW s \in Seq(S), NEW e \in S
  PROVE  /\ Ordered(s) /\ Upto(s, e.t) => Ordered(Append(s, e))
         /\ \A k \in Nat : From(s, k) /\ k <= e.t => From(Append(s, e), k)
         /\ \A k \in Nat : e.t <= k /\ Upto(s, k) => Upto(Append(s, e), k)
<1>1. /\ DOMAIN Append(s, e) = 1 .. Len(s) + 1 /\ DOMAIN s = 1 .. Len(s)
      /\ Len(s) \in Nat
      /\ \A i \in 1 .. Len(s) : Append(s, e)[i] = s[i]
      /\ Append(s, e)[Len(s) + 1] = e
  OBVIOUS
<1>2. e.t \in Nat /\ \A i \in 1 .. Len(s) : s[i] \in S /\ s[i].t \in Nat
  OBVIOUS
<1> QED
  BY <1>1, <1>2 DEF Ordered, From, Upto

LEMMA TailOrdered ==
  ASSUME NEW S, \A x \in S : x.t \in Nat, NEW s \in Seq(S), s # <<>>, Ordered(s)
  PROVE  /\ Head(s) \in S /\ Tail(s) \in Seq(S)
         /\ Ordered(Tail(s)) /\ From(Tail(s), Head(s).t)
         /\ \A k : From(s, k) => k <= Head(s).t
         /\ \A k : Upto(s, k) => Head(s).t <= k /\ Upto(Tail(s), k)
<1>1. /\ DOMAIN Tail(s) = 1 .. Len(s) - 1 /\ DOMAIN s = 1 .. Len(s)
      /\ Len(s) \in Nat \ {0} /\ Head(s) = s[1]
      /\ \A i \in 1 .. Len(s) - 1 : Tail(s)[i] = s[i + 1]
  OBVIOUS
<1>2. \A i \in 1 .. Len(s) - 1 : i + 1 \in 1 .. Len(s)
  BY <1>1
<1>3. Head(s) \in S /\ Tail(s) \in Seq(S)
  OBVIOUS
<1> QED
  BY <1>1, <1>2, <1>3 DEF Ordered, From, Upto

Windows == [t0 : Nat, t1 : Nat, ti : Nat, new : BOOLEAN]
Stamped == {"add", "push"}

\* The ends of the windows, the entries that wait for the writer, the entry the
\* intake works on and the clock, each no earlier than the one before.
TimeInv ==
  /\ \A i \in DOMAIN params : params[i] \in Windows
  /\ ~setBack =>
       /\ Ordered(writing) /\ Upto(writing, now)
       /\ intake \in Stamped => heldTime <= now /\ Upto(writing, heldTime)
       /\ \A i \in DOMAIN params :
            /\ params[i].ti <= now /\ From(writing, params[i].ti)
            /\ intake \in Stamped => params[i].ti <= heldTime

timeState == <<setBack, now, intake, heldTime, writing, params>>

LEMMA TimeStart ==
  /\ Init => TimeInv
  /\ Restart => TimeInv'
BY DEF Init, Restart, TimeInv, Ordered, From, Upto, EmptyMap, Stamped

\* The window of an id after a report as late as its end.
LEMMA NextWindow ==
  ASSUME NEW p \in Windows, NEW t \in Nat
  PROVE  /\ Window(p, t) \in Windows /\ Window(p, t).ti = t
         /\ p.ti <= t /\ p.t0 <= p.t1 /\ p.t1 <= p.ti =>
              Window(p, t).t0 <= Window(p, t).t1 /\ Window(p, t).t1 <= t
BY DEF Windows, Window

\* What the writer does to the windows with the next entry.
LEMMA SampleStep ==
  ASSUME TypeInv, TimeInv, WriterSample
  PROVE  \E e \in Entries :
           /\ e.t \in Nat /\ e.id \in 0 .. IdMod - 1
           /\ writing' = Tail(writing) /\ e = Head(writing) /\ e = writing[1]
           /\ 1 \in DOMAIN writing
           /\ DOMAIN params' = DOMAIN params \cup {e.id}
           /\ \A i \in DOMAIN params' :
                \/ i # e.id /\ i \in DOMAIN params /\ params'[i] = params[i]
                \/ /\ i = e.id /\ i \in DOMAIN params
                   /\ params'[i] = Window(params[i], e.t)
                \/ /\ i = e.id /\ i \notin DOMAIN params
                   /\ params'[i] = [t0 |-> e.t, t1 |-> e.t, ti |-> e.t, new |-> TRUE]
           /\ \A i \in DOMAIN params' : params'[i] \in Windows
           /\ UNCHANGED <<setBack, now, intake, heldTime>>
           /\ added' = TRUE /\ writer' = "drain"
<1> DEFINE e == Head(writing)
<1>1. writing # <<>> /\ writing \in Seq(Entries)
  BY DEF WriterSample, TypeInv, TypeOK
<1>2. e \in Entries /\ e = writing[1] /\ 1 \in DOMAIN writing
  BY <1>1
<1>3. e.t \in Nat /\ e.id \in 0 .. IdMod - 1
  BY <1>2, PipelineAssumption DEF Entries, Times
<1> HIDE DEF e
<1>4. /\ writing' = Tail(writing) /\ added' = TRUE /\ writer' = "drain"
      /\ DOMAIN params' = DOMAIN params \cup {e.id}
      /\ \A i \in DOMAIN params' :
           params'[i] = IF i # e.id THEN params[i]
                        ELSE IF i \in DOMAIN params THEN Window(params[i], e.t)
                             ELSE FirstWindow(e.t)
      /\ UNCHANGED <<setBack, now, intake, heldTime>>
  BY DEF WriterSample, WriterTo, e, intakeVars, heldVars
<1>5. ASSUME NEW i \in DOMAIN params'
      PROVE  /\ \/ i # e.id /\ i \in DOMAIN params /\ params'[i] = params[i]
                \/ /\ i = e.id /\ i \in DOMAIN params
                   /\ params'[i] = Window(params[i], e.t)
                \/ /\ i = e.id /\ i \notin DOMAIN params
                   /\ params'[i] = [t0 |-> e.t, t1 |-> e.t, ti |-> e.t, new |-> TRUE]
             /\ params'[i] \in Windows
  <2>1. CASE i # e.id
    BY <1>4, <2>1 DEF TimeInv
  <2>2. CASE i = e.id /\ i \in DOMAIN params
    <3>1. params[i] \in Windows
      BY <2>2 DEF TimeInv
    <3>2. Window(params[i], e.t) \in Windows
      BY <1>3, <3>1, NextWindow
    <3>3. params'[i] = Window(params[i], e.t)
      BY <1>4, <2>2
    <3> QED
      BY <2>2, <3>2, <3>3
  <2>3. CASE i = e.id /\ i \notin DOMAIN params
    <3>1. params'[i] = [t0 |-> e.t, t1 |-> e.t, ti |-> e.t, new |-> TRUE]
      BY <1>4, <2>3 DEF FirstWindow
    <3> QED
      BY <1>3, <2>3, <3>1 DEF Windows
  <2> QED
    BY <2>1, <2>2, <2>3
<1> QED
  BY <1>2, <1>3, <1>4, <1>5 DEF e

LEMMA TimeStep == TimeInv /\ TypeInv /\ [Next]_vars => TimeInv'
<1> SUFFICES ASSUME TimeInv, TypeInv, [Next]_vars PROVE TimeInv'
  OBVIOUS
<1>t. /\ writing \in Seq(Entries) /\ now \in Nat /\ heldTime \in Nat
      /\ \A x \in Entries : x.t \in Nat
      /\ \A i \in DOMAIN writing : writing[i].t \in Nat
      /\ \A i \in DOMAIN params : params[i].ti \in Nat
  <2>1. /\ writing \in Seq(Entries) /\ now \in Nat /\ heldTime \in Nat
    BY PipelineAssumption DEF TypeInv, TypeOK, Times
  <2>2. \A x \in Entries : x.t \in Nat
    BY PipelineAssumption DEF Entries, Times
  <2>3. \A i \in DOMAIN params : params[i].ti \in Nat
    BY DEF TimeInv, Windows
  <2> QED
    BY <2>1, <2>2, <2>3
<1>1. ASSUME UNCHANGED timeState PROVE TimeInv'
  BY <1>1 DEF timeState, TimeInv
<1>2. ASSUME Restart PROVE TimeInv'
  BY <1>2, TimeStart
<1>3. ASSUME NEW t \in Times, Clock(t) PROVE TimeInv'
  <2>1. /\ UNCHANGED <<intake, heldTime, writing, params>> /\ now' = t
        /\ ~setBack /\ (setBack' <=> t < now)
    BY <1>3 DEF Clock, intakeVars, heldVars, writerVars
  <2>2. t \in Nat /\ (~(t < now) => now <= t)
    BY <1>t, PipelineAssumption DEF Times
  <2> QED
    BY <2>1, <2>2, <1>t DEF TimeInv, Upto
<1>4. CASE IntakeFind
  <2>1. /\ heldTime' = now /\ UNCHANGED <<setBack, now, writing, params>>
    BY <1>4 DEF IntakeFind, IntakeTo, clockVars, writerVars
  <2> QED
    BY <2>1, <1>t DEF TimeInv
<1>5. CASE IntakePush
  <2> DEFINE e == [id |-> heldId, n |-> held.n, t |-> heldTime]
  <2>1. /\ e \in Entries /\ e.t = heldTime /\ intake \in Stamped
        /\ intake' \notin Stamped /\ writing' = Append(writing, e)
        /\ UNCHANGED <<setBack, now, params>>
    BY <1>5 DEF IntakePush, IntakeTo, clockVars, writerVars, Stamped, TypeInv,
                TypeOK, Entries, Reports, Holding
  <2> HIDE DEF e
  <2>2. ASSUME ~setBack
        PROVE  /\ Ordered(writing') /\ Upto(writing', now)
               /\ \A i \in DOMAIN params : From(writing', params[i].ti)
    BY <2>1, <2>2, <1>t, AppendOrdered DEF TimeInv
  <2> QED
    BY <2>1, <2>2 DEF TimeInv
<1>6. CASE WriterSample
  <2>1. PICK e \in Entries :
          /\ e.t \in Nat /\ e.id \in 0 .. IdMod - 1
          /\ writing' = Tail(writing) /\ e = Head(writing) /\ e = writing[1]
          /\ 1 \in DOMAIN writing
          /\ DOMAIN params' = DOMAIN params \cup {e.id}
          /\ \A i \in DOMAIN params' :
               \/ i # e.id /\ i \in DOMAIN params /\ params'[i] = params[i]
               \/ /\ i = e.id /\ i \in DOMAIN params
                  /\ params'[i] = Window(params[i], e.t)
               \/ /\ i = e.id /\ i \notin DOMAIN params
                  /\ params'[i] = [t0 |-> e.t, t1 |-> e.t, ti |-> e.t, new |-> TRUE]
          /\ \A i \in DOMAIN params' : params'[i] \in Windows
          /\ UNCHANGED <<setBack, now, intake, heldTime>>
    BY <1>6, SampleStep
  <2>2. ASSUME ~setBack
        PROVE  /\ Ordered(writing') /\ From(writing', e.t) /\ e.t <= now
               /\ Upto(writing', now)
               /\ intake \in Stamped => e.t <= heldTime /\ Upto(writing', heldTime)
               /\ \A i \in DOMAIN params : params[i].ti <= e.t
    <3>1. writing # <<>> /\ Ordered(writing)
      BY <1>6, <2>2 DEF WriterSample, TimeInv
    <3>2. /\ Ordered(Tail(writing)) /\ From(Tail(writing), e.t)
          /\ \A k : From(writing, k) => k <= e.t
          /\ \A k : Upto(writing, k) => e.t <= k /\ Upto(Tail(writing), k)
      BY <1>t, <2>1, <3>1, TailOrdered
    <3> QED
      BY <2>1, <2>2, <3>2 DEF TimeInv
  <2>3. ASSUME ~setBack, NEW i \in DOMAIN params'
        PROVE  /\ params'[i].ti <= e.t /\ params'[i].ti \in Nat
    <3>1. CASE i # e.id /\ i \in DOMAIN params /\ params'[i] = params[i]
      BY <2>2, <2>3, <3>1, <1>t
    <3>2. CASE i \in DOMAIN params /\ params'[i] = Window(params[i], e.t)
      <4>1. params[i] \in Windows
        BY <3>2 DEF TimeInv
      <4>2. Window(params[i], e.t).ti = e.t
        BY <2>1, <4>1, NextWindow
      <4> QED
        BY <2>1, <3>2, <4>2
    <3>3. CASE params'[i] = [t0 |-> e.t, t1 |-> e.t, ti |-> e.t, new |-> TRUE]
      BY <2>1, <3>3
    <3> QED
      BY <2>1, <2>3, <3>1, <3>2, <3>3
  <2>4. ASSUME ~setBack, NEW i \in DOMAIN params'
        PROVE  /\ params'[i].ti <= now /\ From(writing', params'[i].ti)
               /\ intake \in Stamped => params'[i].ti <= heldTime
    <3>1. \A j \in DOMAIN writing' : writing'[j].t \in Nat
      <4>1. Tail(writing) \in Seq(Entries)
        BY <1>t, <1>6 DEF WriterSample
      <4> QED
        BY <1>t, <2>1, <4>1
    <3> QED
      BY <1>t, <2>1, <2>2, <2>3, <2>4, <3>1 DEF From
  <2> QED
    BY <2>1, <2>2, <2>4 DEF TimeInv
<1>7. CASE WriterWrite
  <2>1. /\ DOMAIN params' = DOMAIN params
        /\ \A i \in DOMAIN params : params'[i] = [params[i] EXCEPT !.new = FALSE]
        /\ UNCHANGED <<setBack, now, intake, heldTime, writing>>
    BY <1>7 DEF WriterWrite, WriterTo, intakeVars, heldVars
  <2>2. ASSUME NEW i \in DOMAIN params
        PROVE  params'[i] \in Windows /\ params'[i].ti = params[i].ti
    BY <2>1 DEF TimeInv, Windows
  <2> QED
    BY <2>1, <2>2 DEF TimeInv
<1>8. CASE IntakeNext /\ ~IntakeFind /\ ~IntakePush
  <2>1. CASE IntakePopTorn \/ IntakePopRace \/ IntakeGiveAsserts
    BY <1>2, <2>1 DEF IntakePopTorn, IntakePopRace, IntakeGiveAsserts, Halt
  <2>2. CASE ~(IntakePopTorn \/ IntakePopRace \/ IntakeGiveAsserts)
    <3>1. /\ UNCHANGED <<setBack, now, writing, params>>
          /\ intake' \in Stamped => intake \in Stamped /\ UNCHANGED heldTime
      BY <1>8, <2>2
      DEF IntakeNext, IntakeTake, IntakeTest, IntakePop, IntakeGive,
          IntakeUnknown, IntakeDrop, IntakeAddTake, IntakeAddTimeout, IntakeWake,
          IntakeTo, heldVars, clockVars, writerVars, Stamped
    <3> QED
      BY <3>1 DEF TimeInv
  <2> QED
    BY <2>1, <2>2
<1>9. CASE WriterNext /\ ~WriterSample /\ ~WriterWrite /\ ~WriterHalts
  <2>1. UNCHANGED timeState
    BY <1>9
    DEF WriterNext, WriterWake, ReadYear, ReadMonth, ReadDay, ReadDate,
        WriterTake, WriterTimeout, WriterSleep, WriterGive, WriterNothing,
        WriterOpen, WriterClose, WriterTo, intakeVars, heldVars, timeState
  <2> QED
    BY <1>1, <2>1
<1>10. ASSUME NEW a, WriterHalts \/ ConfigCrash \/ OfferLong(a) \/ PowerCycle
       PROVE  TimeInv'
  BY <1>2, <1>10 DEF WriterHalts, ConfigCrash, OfferLong, PowerCycle, Halt
<1>11. ASSUME NEW a, NEW mac, AdderNext(a) \/ Offer(a, mac) \/ ConfigAsk(mac)
       PROVE  TimeInv'
  BY <1>1, <1>11
  DEF AdderNext, AddTake, AddTimeout, AddRefuse, AddPush, AddDone, Offer,
      ConfigAsk, ConfigTo, notAdder, intakeVars, heldVars, clockVars, writerVars,
      timeState
<1>12. CASE ConfigInsert \/ UNCHANGED vars
  BY <1>1, <1>12 DEF ConfigInsert, ConfigTo, vars, intakeVars, heldVars,
                     clockVars, writerVars, timeState
<1> QED
  BY <1>3, <1>4, <1>5, <1>6, <1>7, <1>8, <1>9, <1>10, <1>11, <1>12
  DEF Next, WriterNext, IntakeNext, Requests

-----------------------------------------------------------------------------
(* The sampling windows *)

\* A window with something new is there only while the writer is at work on it.
WindowInv ==
  /\ WindowOrdered
  /\ ~added /\ writer = "drain" => \A i \in DOMAIN params : ~params[i].new

LEMMA WindowStart ==
  /\ Init => WindowInv
  /\ Restart => WindowInv'
BY DEF Init, Restart, WindowInv, WindowOrdered, EmptyMap

LEMMA WindowStep ==
  WindowInv /\ TimeInv /\ TimeInv' /\ TypeInv /\ [Next]_vars => WindowInv'
<1> SUFFICES ASSUME WindowInv, TimeInv, TimeInv', TypeInv, [Next]_vars
             PROVE  WindowInv'
  OBVIOUS
<1>1. CASE UNCHANGED <<params, writer, added, now, setBack>>
  BY <1>1 DEF WindowInv, WindowOrdered
<1>2. CASE Restart
  BY <1>2, WindowStart
<1>3. CASE WriterSample
  <2>1. PICK e \in Entries :
          /\ e.t \in Nat /\ e.id \in 0 .. IdMod - 1
          /\ writing' = Tail(writing) /\ e = Head(writing) /\ e = writing[1]
          /\ 1 \in DOMAIN writing
          /\ DOMAIN params' = DOMAIN params \cup {e.id}
          /\ \A i \in DOMAIN params' :
               \/ i # e.id /\ i \in DOMAIN params /\ params'[i] = params[i]
               \/ /\ i = e.id /\ i \in DOMAIN params
                  /\ params'[i] = Window(params[i], e.t)
               \/ /\ i = e.id /\ i \notin DOMAIN params
                  /\ params'[i] = [t0 |-> e.t, t1 |-> e.t, ti |-> e.t, new |-> TRUE]
          /\ UNCHANGED <<setBack, now, intake, heldTime>>
          /\ added' = TRUE /\ writer' = "drain"
    BY <1>3, SampleStep
  <2>2. ASSUME NEW i \in DOMAIN params', ~setBack'
        PROVE  /\ params'[i].t0 <= params'[i].t1
               /\ params'[i].t1 <= params'[i].ti /\ params'[i].ti <= now'
    <3>0. params'[i].ti <= now'
      BY <2>2 DEF TimeInv
    <3>1. CASE i # e.id /\ i \in DOMAIN params /\ params'[i] = params[i]
      BY <2>1, <2>2, <3>0, <3>1 DEF WindowInv, WindowOrdered
    <3>2. CASE i \in DOMAIN params /\ params'[i] = Window(params[i], e.t)
      <4>1. /\ params[i] \in Windows /\ params[i].ti <= e.t
            /\ params[i].t0 <= params[i].t1 /\ params[i].t1 <= params[i].ti
        BY <2>1, <2>2, <3>2 DEF TimeInv, From, WindowInv, WindowOrdered
      <4> QED
        BY <2>1, <3>0, <3>2, <4>1, NextWindow
    <3>3. CASE params'[i] = [t0 |-> e.t, t1 |-> e.t, ti |-> e.t, new |-> TRUE]
      BY <2>1, <3>0, <3>3
    <3> QED
      BY <2>1, <2>2, <3>1, <3>2, <3>3
  <2> QED
    BY <2>1, <2>2 DEF WindowInv, WindowOrdered
<1>4. CASE WriterWrite
  <2>1. /\ UNCHANGED <<now, setBack>> /\ writer' = "close"
        /\ DOMAIN params' = DOMAIN params
        /\ \A i \in DOMAIN params' : params'[i] = [params[i] EXCEPT !.new = FALSE]
    BY <1>4 DEF WriterWrite, WriterTo
  <2>2. ASSUME NEW i \in DOMAIN params
        PROVE  /\ ~params'[i].new
               /\ params'[i].t0 = params[i].t0 /\ params'[i].t1 = params[i].t1
               /\ params'[i].ti = params[i].ti
    BY <2>1 DEF TimeInv, Windows
  <2> QED
    BY <2>1, <2>2 DEF WindowInv, WindowOrdered
<1>5. CASE /\ WriterNext
           /\ ~(WriterSample \/ WriterWrite \/ WriterHalts)
  <2>1. /\ UNCHANGED <<params, now, setBack>>
        /\ writer \in {"open", "write"} => writer' \in {"open", "write"}
        /\ writer = "drain" => writer' = "open" \/ ~added
        /\ writer' = "drain" => writer = "take"
    BY <1>5
    DEF WriterNext, WriterWake, ReadYear, ReadMonth, ReadDay, ReadDate,
        WriterTake, WriterTimeout, WriterSleep, WriterGive, WriterNothing,
        WriterOpen, WriterClose, WriterTo
  <2>2. \A i \in DOMAIN params : params[i].new =>
          writer \in {"open", "write"} \/ (writer = "drain" /\ added)
    BY DEF WindowInv, WindowOrdered
  <2> QED
    BY <2>1, <2>2 DEF WindowInv, WindowOrdered
<1>6. ASSUME NEW a \in Adders, AdderNext(a) PROVE WindowInv'
  BY <1>1, <1>6 DEF AdderNext, AddTake, AddTimeout, AddRefuse, AddPush, AddDone,
                    notAdder, clockVars, writerVars
<1>7. CASE IntakeNext
  BY <1>1, <1>2, <1>7
  DEF IntakeNext, IntakeTake, IntakeTest, IntakePop, IntakePopTorn, IntakePopRace,
      IntakeGive, IntakeGiveAsserts, IntakeFind, IntakeUnknown, IntakeDrop,
      IntakeAddTake, IntakeAddTimeout, IntakePush, IntakeWake, IntakeTo, Halt,
      clockVars, writerVars
<1>8. ASSUME NEW t \in Times, Clock(t) PROVE WindowInv'
  <2>1. UNCHANGED <<params, writer, added>> /\ (~setBack' => ~setBack)
    BY <1>8 DEF Clock, writerVars
  <2>2. \A i \in DOMAIN params' : ~setBack' => params'[i].ti <= now'
    BY DEF TimeInv
  <2> QED
    BY <2>1, <2>2 DEF WindowInv, WindowOrdered
<1>9. CASE Requests /\ ~\E t \in Times : Clock(t)
  BY <1>1, <1>2, <1>9
  DEF Requests, Offer, OfferLong, notAdder, ConfigCrash, Halt, ConfigAsk, ConfigTo,
      clockVars, writerVars
<1>10. CASE ConfigInsert \/ WriterHalts \/ PowerCycle \/ UNCHANGED vars
  BY <1>1, <1>2, <1>10
  DEF ConfigInsert, ConfigTo, WriterHalts, Halt, PowerCycle, vars, clockVars,
      writerVars
<1> QED
  BY <1>3, <1>4, <1>5, <1>6, <1>7, <1>8, <1>9, <1>10 DEF Next, WriterNext

\* Unless the clock was set back, the times of a sampling window lie in the
\* order of its reports and none in the future, whatever devices share its id,
\* whoever added the reports and whatever was lost; and nothing new in it
\* outlives the turn of the writer it came in (report_entry_handler,
\* writing_file_handler).
THEOREM WindowsAreOrdered == Spec => []WindowOrdered
<1> DEFINE Inv == WindowInv /\ TimeInv /\ TypeInv /\ MsgInv
<1>1. Init => Inv
  BY WindowStart, TimeStart, TypeStart, MsgStart
<1>2. Inv /\ [Next]_vars => Inv'
  BY WindowStep, TimeStep, TypeStep, MsgStep
<1>3. Inv => WindowOrdered
  BY DEF WindowInv
<1> QED
  BY <1>1, <1>2, <1>3, PTL DEF Spec

-----------------------------------------------------------------------------
(* The pipeline implements the log *)

\* What an adder offers was not accepted before, nor does the other offer it.
FreshInv ==
  /\ accepted \subseteq 1 .. offered
  /\ \A a \in Adders : adder[a] # "idle" =>
       report[a].n \in 1 .. offered /\ report[a].n \notin accepted
  /\ \A a, b \in Adders :
       a # b /\ adder[a] # "idle" /\ adder[b] # "idle" => report[a].n # report[b].n

LEMMA FreshStart ==
  /\ Init => FreshInv
  /\ Restart => FreshInv'
BY DEF Init, Restart, FreshInv, Adders

LEMMA FreshStep == FreshInv /\ TypeInv /\ [Next]_vars => FreshInv'
<1> SUFFICES ASSUME FreshInv, TypeInv, [Next]_vars PROVE FreshInv'
  OBVIOUS
<1>t. /\ offered \in Nat /\ adder \in [Adders -> {"idle", "take", "push"}]
      /\ report \in [Adders -> Reports \cup {NoReport}]
  BY PipelineAssumption DEF TypeInv, TypeOK
<1>1. ASSUME UNCHANGED adderVars PROVE FreshInv'
  BY <1>1 DEF adderVars, FreshInv
<1>2. ASSUME Restart PROVE FreshInv'
  BY <1>2, FreshStart
<1>3. ASSUME NEW a \in Adders, NEW mac \in Mesh, Offer(a, mac) PROVE FreshInv'
  <2>1. /\ offered' = offered + 1 /\ UNCHANGED accepted
        /\ \A b \in Adders : b # a => adder'[b] = adder[b] /\ report'[b] = report[b]
        /\ report'[a].n = offered + 1
    BY <1>3, <1>t DEF Offer
  <2> QED
    BY <1>t, <2>1 DEF FreshInv
<1>4. ASSUME NEW a \in Adders, AddTake(a) PROVE FreshInv'
  <2>1. /\ UNCHANGED <<offered, report, accepted>>
        /\ \A b \in Adders : adder'[b] # "idle" => adder[b] # "idle"
    BY <1>4, <1>t DEF AddTake
  <2> QED
    BY <2>1 DEF FreshInv
<1>5. ASSUME NEW a \in Adders, AddTimeout(a) \/ AddRefuse(a) \/ AddPush(a)
      PROVE  FreshInv'
  <2>1. /\ UNCHANGED offered /\ adder[a] # "idle"
        /\ accepted' = accepted \/ accepted' = accepted \cup {report[a].n}
        /\ \A b \in Adders : adder'[b] # "idle" =>
             b # a /\ adder[b] # "idle" /\ report'[b] = report[b]
    BY <1>5, <1>t DEF AddTimeout, AddRefuse, AddPush, AddDone
  <2> QED
    BY <2>1 DEF FreshInv
<1>6. CASE IntakeNext
  BY <1>1, <1>2, <1>6
  DEF IntakeNext, IntakeTake, IntakeTest, IntakePop, IntakePopTorn, IntakePopRace,
      IntakeGive, IntakeGiveAsserts, IntakeFind, IntakeUnknown, IntakeDrop,
      IntakeAddTake, IntakeAddTimeout, IntakePush, IntakeWake, IntakeTo, Halt
<1>7. CASE WriterNext
  BY <1>1, <1>2, <1>7
  DEF WriterNext, WriterWake, ReadYear, ReadMonth, ReadDay, ReadDate, WriterTake,
      WriterTimeout, WriterSleep, WriterSample, WriterGive, WriterNothing,
      WriterOpen, WriterHalts, Halt, WriterWrite, WriterClose, WriterTo
<1>8. ASSUME NEW a, NEW mac, NEW t,
             ConfigCrash \/ OfferLong(a) \/ PowerCycle \/ ConfigAsk(mac) \/ Clock(t)
      PROVE  FreshInv'
  BY <1>1, <1>2, <1>8 DEF ConfigCrash, OfferLong, Halt, PowerCycle, ConfigAsk,
                          ConfigTo, Clock
<1>9. CASE ConfigInsert \/ UNCHANGED vars
  BY <1>1, <1>9 DEF ConfigInsert, ConfigTo, vars
<1> QED
  BY <1>3, <1>4, <1>5, <1>6, <1>7, <1>8, <1>9 DEF Next, AdderNext, Requests

LEMMA NumbersType ==
  ASSUME NEW S, \A x \in S : x.n \in Nat, NEW s \in Seq(S)
  PROVE  NumbersOf(s) \in Seq(Nat) /\ Len(NumbersOf(s)) = Len(s)
<1>1. /\ DOMAIN s = 1 .. Len(s) /\ Len(s) \in Nat
      /\ \A i \in 1 .. Len(s) : s[i].n \in Nat
  OBVIOUS
<1>2. NumbersOf(s) \in [1 .. Len(s) -> Nat]
  BY <1>1 DEF NumbersOf
<1> HIDE DEF NumbersOf
<1> QED
  BY <1>1, <1>2

LEMMA SameSeq ==
  ASSUME NEW s \in Seq(Nat), NEW t \in Seq(Nat), Len(s) = Len(t),
         \A i \in 1 .. Len(s) : s[i] = t[i]
  PROVE  s = t
OBVIOUS

LEMMA NumbersAppend ==
  ASSUME NEW S, \A x \in S : x.n \in Nat, NEW s \in Seq(S), NEW e \in S
  PROVE  NumbersOf(Append(s, e)) = Append(NumbersOf(s), e.n)
<1>1. /\ Append(s, e) \in Seq(S) /\ Len(Append(s, e)) = Len(s) + 1
      /\ DOMAIN s = 1 .. Len(s) /\ Len(s) \in Nat
  OBVIOUS
<1>2. /\ NumbersOf(s) \in Seq(Nat) /\ Len(NumbersOf(s)) = Len(s)
      /\ NumbersOf(Append(s, e)) \in Seq(Nat)
      /\ Len(NumbersOf(Append(s, e))) = Len(s) + 1
  BY <1>1, NumbersType
<1>3. ASSUME NEW i \in 1 .. Len(s) + 1
      PROVE  NumbersOf(Append(s, e))[i] = Append(NumbersOf(s), e.n)[i]
  <2>1. /\ Append(s, e)[i] = IF i <= Len(s) THEN s[i] ELSE e
        /\ i \in DOMAIN Append(s, e) /\ (i <= Len(s) => i \in DOMAIN s)
        /\ Append(NumbersOf(s), e.n)[i] =
             IF i <= Len(s) THEN NumbersOf(s)[i] ELSE e.n
    BY <1>1, <1>2
  <2> QED
    BY <2>1 DEF NumbersOf
<1>4. /\ Append(NumbersOf(s), e.n) \in Seq(Nat)
      /\ Len(Append(NumbersOf(s), e.n)) = Len(s) + 1
  <2>1. e.n \in Nat
    OBVIOUS
  <2> QED
    BY <1>1, <1>2, <2>1
<1> QED
  BY <1>1, <1>2, <1>3, <1>4, SameSeq

LEMMA NumbersTail ==
  ASSUME NEW S, \A x \in S : x.n \in Nat, NEW s \in Seq(S), s # <<>>
  PROVE  /\ NumbersOf(s) # <<>> /\ Head(NumbersOf(s)) = Head(s).n
         /\ NumbersOf(Tail(s)) = Tail(NumbersOf(s))
<1>1. /\ Tail(s) \in Seq(S) /\ Len(Tail(s)) = Len(s) - 1
      /\ DOMAIN s = 1 .. Len(s) /\ Len(s) \in Nat \ {0} /\ Head(s) = s[1]
  OBVIOUS
<1>2. /\ NumbersOf(s) \in Seq(Nat) /\ Len(NumbersOf(s)) = Len(s)
      /\ NumbersOf(Tail(s)) \in Seq(Nat) /\ Len(NumbersOf(Tail(s))) = Len(s) - 1
  BY <1>1, NumbersType
<1>3. ASSUME NEW i \in 1 .. Len(s) - 1
      PROVE  NumbersOf(Tail(s))[i] = Tail(NumbersOf(s))[i]
  <2>1. /\ Tail(s)[i] = s[i + 1] /\ i \in DOMAIN Tail(s) /\ i + 1 \in DOMAIN s
        /\ Tail(NumbersOf(s))[i] = NumbersOf(s)[i + 1]
    BY <1>1, <1>2
  <2> QED
    BY <2>1 DEF NumbersOf
<1>4. /\ Tail(NumbersOf(s)) \in Seq(Nat) /\ NumbersOf(s) # <<>>
      /\ Len(Tail(NumbersOf(s))) = Len(s) - 1
      /\ Head(NumbersOf(s)) = NumbersOf(s)[1]
  BY <1>1, <1>2
<1>5. NumbersOf(s)[1] = s[1].n
  BY <1>1 DEF NumbersOf
<1> QED
  BY <1>1, <1>2, <1>3, <1>4, <1>5, SameSeq

\* What the steps of the pipeline do to three sequences one after the other.
LEMMA Moves ==
  ASSUME NEW w \in Seq(Nat), NEW m \in Seq(Nat), NEW h \in Nat
  PROVE  /\ m # <<>> => w \o <<>> \o m = w \o <<Head(m)>> \o Tail(m)
         /\ w \o <<h>> \o m = Append(w, h) \o <<>> \o m
         /\ w \o <<>> \o m = Log!RemoveAt(w \o <<h>> \o m, Len(w) + 1)
         /\ Len(w) + 1 \in DOMAIN (w \o <<h>> \o m)
<1>1. m # <<>> => w \o <<>> \o m = w \o <<Head(m)>> \o Tail(m)
  OBVIOUS
<1>2. w \o <<h>> \o m = Append(w, h) \o <<>> \o m
  OBVIOUS
<1>3. w \o <<>> \o m = Log!RemoveAt(w \o <<h>> \o m, Len(w) + 1)
  <2> DEFINE s == w \o <<h>> \o m
             k == Len(w)
  <2>1. SubSeq(s, 1, k) = w
    OBVIOUS
  <2>2. SubSeq(s, k + 2, Len(s)) = m
    OBVIOUS
  <2>3. k + 1 - 1 = k /\ k + 1 + 1 = k + 2
    OBVIOUS
  <2>4. w \o <<>> \o m = w \o m
    OBVIOUS
  <2>5. ASSUME NEW i, i = k + 1 PROVE Log!RemoveAt(s, i) = w \o m
    <3>1. i - 1 = k /\ i + 1 = k + 2
      BY <2>3, <2>5
    <3> HIDE DEF s, k
    <3> QED
      BY <2>1, <2>2, <3>1, Zenon DEF Log!RemoveAt
  <2> HIDE DEF s, k
  <2> QED
    BY <2>4, <2>5 DEF s, k
<1>4. Len(w) + 1 \in DOMAIN (w \o <<h>> \o m)
  OBVIOUS
<1> QED
  BY <1>1, <1>2, <1>3, <1>4

LEMMA FrontOf ==
  ASSUME NEW w \in Seq(Nat), NEW h \in Seq(Nat), NEW m \in Seq(Nat), w # <<>>
  PROVE  /\ w \o h \o m # <<>> /\ Head(w \o h \o m) = Head(w)
         /\ Tail(w \o h \o m) = Tail(w) \o h \o m
OBVIOUS

LEMMA BackOf ==
  ASSUME NEW w \in Seq(Nat), NEW h \in Seq(Nat), NEW m \in Seq(Nat), NEW n \in Nat
  PROVE  w \o h \o Append(m, n) = Append(w \o h \o m, n)
OBVIOUS

\* The number of the report the intake holds, as a sequence.
HeldNumber == IF held = NoReport THEN <<>> ELSE <<held.n>>

LEMMA TransitType ==
  ASSUME TypeInv
  PROVE  /\ NumbersOf(writing) \in Seq(Nat) /\ NumbersOf(msgs) \in Seq(Nat)
         /\ HeldNumber \in Seq(Nat)
         /\ Transit = NumbersOf(writing) \o HeldNumber \o NumbersOf(msgs)
         /\ \A x \in Reports : x # NoReport /\ x.n \in Nat
         /\ \A x \in Entries : x.n \in Nat
<1>1. /\ \A x \in Reports : x.n \in Nat /\ x.mac # NoMac
      /\ \A x \in Entries : x.n \in Nat
  BY PipelineAssumption DEF Reports, Entries
<1>2. \A x \in Reports : x # NoReport
  BY <1>1 DEF NoReport
<1>3. NumbersOf(writing) \in Seq(Nat) /\ NumbersOf(msgs) \in Seq(Nat)
  <2>1. /\ writing \in Seq(Entries)
        /\ msgs \in Seq(Reports)
    BY DEF TypeInv, TypeOK
  <2> QED
    BY <1>1, <2>1, NumbersType
<1>4. HeldNumber \in Seq(Nat)
  BY <1>1 DEF TypeInv, HeldNumber
<1> QED
  BY <1>1, <1>2, <1>3, <1>4 DEF Transit, HeldNumber

LEMMA LogStart ==
  /\ Init => Log!Init
  /\ Restart => Log!PowerFails
<1>1. NumbersOf(<<>>) = <<>>
  BY DEF NumbersOf
<1>2. <<>> \o <<>> \o <<>> = <<>>
  OBVIOUS
<1> QED
  BY <1>1, <1>2 DEF Init, Restart, Transit, Log!Init, Log!PowerFails

LEMMA LogStep ==
  TypeInv /\ TypeInv' /\ FreshInv /\ MsgInv /\ [Next]_vars
    => [Log!Next]_(Log!logVars)
<1> SUFFICES ASSUME TypeInv, TypeInv', FreshInv, MsgInv, [Next]_vars
             PROVE  [Log!Next]_(Log!logVars)
  OBVIOUS
<1> DEFINE w == NumbersOf(writing)
           m == NumbersOf(msgs)
<1>t. /\ w \in Seq(Nat) /\ m \in Seq(Nat) /\ HeldNumber \in Seq(Nat)
      /\ Transit = w \o HeldNumber \o m
      /\ \A x \in Reports : x # NoReport /\ x.n \in Nat
      /\ \A x \in Entries : x.n \in Nat
      /\ msgs \in Seq(Reports) /\ writing \in Seq(Entries)
  BY TransitType DEF TypeInv, TypeOK
<1>0. /\ held = NoReport => HeldNumber = <<>>
      /\ held # NoReport => HeldNumber = <<held.n>>
      /\ held' = NoReport => HeldNumber' = <<>>
      /\ held' # NoReport => HeldNumber' = <<held'.n>>
      /\ Transit' = w' \o HeldNumber' \o m'
  BY DEF HeldNumber, Transit
<1> HIDE DEF w, m
<1>1. CASE UNCHANGED <<writing, held, msgs, accepted, sampled>>
  BY <1>1 DEF Transit, Log!logVars
<1>2. CASE Restart
  BY <1>2, LogStart DEF Log!Next
<1>3. ASSUME NEW a \in Adders, AddPush(a) PROVE [Log!Next]_(Log!logVars)
  <2> DEFINE n == report[a].n
  <2>1. /\ report[a] \in Reports /\ n \in 1 .. MaxReports /\ n \in Nat
        /\ n \notin accepted /\ accepted' = accepted \cup {n}
        /\ msgs' = Append(msgs, report[a]) /\ UNCHANGED <<writing, held, sampled>>
    BY <1>3, PipelineAssumption
    DEF AddPush, AddDone, notAdder, intakeVars, heldVars, writerVars, TypeInv,
        FreshInv, Reports
  <2> HIDE DEF n
  <2>2. w' = w /\ HeldNumber' = HeldNumber
    BY <2>1 DEF w, HeldNumber
  <2>3. m' = Append(m, n)
    BY <1>t, <2>1, NumbersAppend DEF m, n
  <2>4. Transit' = Append(Transit, n)
    <3>1. w \o HeldNumber \o Append(m, n) = Append(w \o HeldNumber \o m, n)
      BY <1>t, <2>1, BackOf
    <3> QED
      BY <1>0, <1>t, <2>2, <2>3, <3>1
  <2>5. Log!Accept(n)
    BY <2>1, <2>4 DEF Log!Accept
  <2> QED
    BY <2>1, <2>5 DEF Log!Next
<1>4. CASE IntakePop
  <2>1. /\ msgs # <<>> /\ held = NoReport /\ held' = Head(msgs)
        /\ msgs' = Tail(msgs) /\ UNCHANGED <<writing, accepted, sampled>>
    BY <1>4 DEF IntakePop, IntakeTo, adderVars, writerVars, MsgInv, TypeInv, Holding
  <2>2. Head(msgs) \in Reports
    BY <1>t, <2>1
  <2>3. m # <<>> /\ Head(m) = Head(msgs).n /\ m' = Tail(m) /\ w' = w
    BY <1>t, <2>1, NumbersTail DEF m, w
  <2>4. HeldNumber' = <<Head(m)>> /\ Head(m) \in Nat /\ HeldNumber = <<>>
    BY <1>0, <1>t, <2>1, <2>2, <2>3
  <2>5. Transit' = Transit
    BY <1>0, <1>t, <2>3, <2>4, Moves
  <2> QED
    BY <2>1, <2>5 DEF Log!logVars
<1>5. CASE IntakeUnknown \/ IntakeAddTimeout
  <2>1. /\ held \in Reports /\ held' = NoReport
        /\ UNCHANGED <<writing, msgs, accepted, sampled>>
    BY <1>5 DEF IntakeUnknown, IntakeAddTimeout, IntakeDrop, IntakeTo, adderVars,
                writerVars, TypeInv, Holding
  <2>2. /\ HeldNumber = <<held.n>> /\ held.n \in Nat /\ HeldNumber' = <<>>
        /\ w' = w /\ m' = m
    BY <1>0, <1>t, <2>1 DEF w, m
  <2>3. /\ Transit' = Log!RemoveAt(Transit, Len(w) + 1)
        /\ Len(w) + 1 \in DOMAIN Transit
    BY <1>0, <1>t, <2>2, Moves
  <2>4. Log!Lose(Len(w) + 1)
    BY <2>1, <2>3 DEF Log!Lose
  <2> QED
    BY <2>3, <2>4 DEF Log!Next
<1>6. CASE IntakePush
  <2> DEFINE e == [id |-> heldId, n |-> held.n, t |-> heldTime]
  <2>1. /\ held \in Reports /\ held' = NoReport /\ e \in Entries
        /\ e.n = held.n /\ writing' = Append(writing, e)
        /\ UNCHANGED <<msgs, accepted, sampled>>
    BY <1>6 DEF IntakePush, IntakeTo, adderVars, writerVars, TypeInv, TypeOK, Holding,
                Entries, Reports
  <2> HIDE DEF e
  <2>2. /\ HeldNumber = <<held.n>> /\ held.n \in Nat /\ HeldNumber' = <<>>
        /\ w' = Append(w, held.n) /\ m' = m
    BY <1>0, <1>t, <2>1, NumbersAppend DEF w, m
  <2>3. Transit' = Transit
    BY <1>0, <1>t, <2>2, Moves
  <2> QED
    BY <2>1, <2>3 DEF Log!logVars
<1>7. CASE WriterSample
  <2>1. /\ writing # <<>> /\ sampled' = Head(writing).n
        /\ writing' = Tail(writing) /\ UNCHANGED <<held, msgs, accepted>>
    BY <1>7 DEF WriterSample, WriterTo, adderVars, intakeVars, heldVars
  <2>2. /\ w # <<>> /\ Head(w) = Head(writing).n /\ w' = Tail(w) /\ m' = m
        /\ HeldNumber' = HeldNumber
    BY <1>t, <2>1, NumbersTail DEF w, m, HeldNumber
  <2>3. /\ Transit # <<>> /\ Head(Transit) = Head(w)
        /\ Tail(Transit) = Tail(w) \o HeldNumber \o m
    BY <1>t, <2>2, FrontOf
  <2>4. Log!Sample
    BY <1>0, <2>1, <2>2, <2>3 DEF Log!Sample
  <2> QED
    BY <2>4 DEF Log!Next
<1>8. ASSUME NEW a \in Adders, AdderNext(a) PROVE [Log!Next]_(Log!logVars)
  BY <1>1, <1>3, <1>8 DEF AdderNext, AddTake, AddTimeout, AddRefuse, AddDone,
                          notAdder, intakeVars, heldVars, writerVars
<1>9. CASE IntakeNext
  BY <1>1, <1>2, <1>4, <1>5, <1>6, <1>9
  DEF IntakeNext, IntakeTake, IntakeTest, IntakePopTorn, IntakePopRace, IntakeGive,
      IntakeGiveAsserts, IntakeFind, IntakeAddTake, IntakeWake, IntakeTo, Halt,
      adderVars, heldVars, writerVars
<1>10. CASE WriterNext /\ ~WriterSample
  BY <1>1, <1>2, <1>10
  DEF WriterNext, WriterWake, ReadYear, ReadMonth, ReadDay, ReadDate, WriterTake,
      WriterTimeout, WriterSleep, WriterGive, WriterNothing, WriterOpen,
      WriterHalts, Halt, WriterWrite, WriterClose, WriterTo, adderVars,
      intakeVars, heldVars
<1>11. CASE Requests
  BY <1>1, <1>2, <1>11
  DEF Requests, Offer, OfferLong, notAdder, ConfigCrash, Halt, ConfigAsk, ConfigTo,
      Clock, adderVars, intakeVars, heldVars, writerVars
<1>12. CASE ConfigInsert \/ PowerCycle \/ UNCHANGED vars
  BY <1>1, <1>2, <1>12
  DEF ConfigInsert, ConfigTo, PowerCycle, vars, adderVars, intakeVars, heldVars,
      writerVars
<1> QED
  BY <1>7, <1>8, <1>9, <1>10, <1>11, <1>12 DEF Next

\* From their acceptance on, the buffers, the intake and the writer together
\* sample the reports in the order in which they were accepted, none twice and
\* none that was not accepted, whichever task added them and whatever is lost.
THEOREM PipelineImplementsLog == Spec => ImplementsLog
<1> DEFINE Inv == FreshInv /\ TypeInv /\ MsgInv
<1>1. Init => Inv /\ Log!Init
  BY FreshStart, TypeStart, MsgStart, LogStart
<1>2. Inv /\ [Next]_vars => Inv'
  BY FreshStep, TypeStep, MsgStep
<1>3. Inv /\ Inv' /\ [Next]_vars => [Log!Next]_(Log!logVars)
  BY LogStep
<1> QED
  BY <1>1, <1>2, <1>3, PTL DEF Spec, ImplementsLog, Log!Spec

=============================================================================
