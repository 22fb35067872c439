--------------------------- MODULE ReportPipeline ---------------------------
(***************************************************************************)
(* From a report of the sensor mesh to the SD card: report_handler.cpp,    *)
(* with the file it opens (sd_card_handler.cpp) and the configuration of a *)
(* device (report_direct_msg_handlers.cpp).  Five processes:               *)
(*   reader  read_report_in_serial_task, which gives the line back before  *)
(*           it adds the report it has read;                               *)
(*   holder  whoever adds a report while it keeps _uart_mutex:             *)
(*           _wait_for_ok and the receiver of an answer, one at a time     *)
(*           (LineExclusive of UartBridge);                                *)
(*   intake  report_entry_handler;                                         *)
(*   writer  writing_file_handler;                                         *)
(*   config  the web server task, in msg_handler_report_config.            *)
(* Nothing is assumed of their priorities.  A failed assertion of FreeRTOS *)
(* and an illegal memory access halt the gateway (sdkconfig,               *)
(* CONFIG_ESP_SYSTEM_PANIC_PRINT_HALT) until somebody cycles the power.    *)
(* Levels are left out: an entry is the number of its report and the time  *)
(* the intake has stamped on it.  The local clock is one variable, of      *)
(* which the date is a function (ClockDateAgrees of ClockModule).          *)
(***************************************************************************)
EXTENDS SdCard, Sequences, FiniteSets

CONSTANTS
  Devices,     \* MACs of the mesh
  Mesh,        \* bound: those of them that send reports
  NoMac,       \* the empty vector
  IdMod,       \* 256: an id has 8 bits
  MsgLimit,    \* 5: a report is refused when more wait
  DateAt,      \* the day of a time, as a record of year, month, day
  MaxTime,     \* bound: times of the clock
  MaxReports   \* bound: reports between two starts

Days == [year : Nat, month : Nat, day : Nat]

ASSUME PipelineAssumption ==
  /\ NoMac \notin Devices /\ Mesh \subseteq Devices
  /\ MaxTime \in Nat
  /\ DateAt \in [0 .. MaxTime -> Days]
  /\ NoFile \notin Days
  /\ IdMod \in Nat \ {0}
  /\ MsgLimit \in Nat
  /\ MaxReports \in Nat

Macs == Devices \cup {NoMac}
Times == 0 .. MaxTime
Reports == [mac : Devices, n : 1 .. MaxReports]
NoReport == [mac |-> NoMac, n |-> 0]
Nobody == "nobody"

Adders == {"reader", "holder"}

VARIABLES
  finished,    \* never changes.  FALSE: the code as it is.  TRUE: with its two
               \* loose ends tied, so that what follows them is exercised:
               \* msg_handler_report_config reads the MAC, as its TODO says, and
               \* the writer writes to the file that openFile has returned
  offered,     \* number of the last report
  adder,       \* of each adder: "idle", "take", "push"
  report,      \* what each adds
  accepted,    \* history: numbers of the reports accepted since the start
  msgMutex,    \* of _report_msg_queue_mutex: "free", an adder, "intake"
  msgs,        \* _report_msg_buffer
  intake,      \* "take", "test", "pop", "give", "find", "add", "push", "sleep"
  held,        \* the report intake works on
  heldId,      \* the id it has found for it,
  heldTime,    \* and the time it has stamped on it
  config,      \* "idle", "insert"
  newMac,      \* what config inserts
  known,       \* _mapa_de_info_de_devices: a function from MACs to ids
  writeMutex,  \* holder of _writing_queue_mutex: "free", "intake", "writer"
  writing,     \* _writing_buffer
  writer,      \* "sleep", "year", "month", "day", "take", "drain", "open",
               \* "write", "close"
  added,       \* new_entry_added
  name,        \* file_name
  params,      \* entradas: a function from ids to sampling windows
  card,        \* the object of CartaoSD
  now,         \* the local clock
  setBack,     \* history: it has been set back since the start
  turned,      \* history: the day has changed since the writer woke up
  sampled,     \* history: number of the last report sampled
  halted

adderVars == <<offered, adder, report, accepted>>
heldVars == <<held, heldId, heldTime>>
intakeVars == <<intake, heldVars>>
mapVars == <<config, newMac, known>>
writerVars == <<writer, added, name, params, card, sampled>>
clockVars == <<now, setBack, turned>>
vars == <<finished, adderVars, msgMutex, msgs, intakeVars, mapVars, writeMutex,
          writing, writerVars, clockVars, halted>>

Today == DateAt[now]

EmptyMap == [m \in {} |-> 0]

\* app_main does not look at the result of CartaoSD::begin.
Cards == {begin(NewCard, failed) : failed \in 0 .. MAX_CARD_MOUNT_ATTEMPTS}

\* The static members, begin, and the tasks it creates.
Init ==
  /\ finished \in BOOLEAN
  /\ offered = 0 /\ accepted = {}
  /\ adder = [a \in Adders |-> "idle"]
  /\ report = [a \in Adders |-> NoReport]
  /\ msgMutex = "free" /\ msgs = <<>>
  /\ intake = "take" /\ held = NoReport /\ heldId = 0 /\ heldTime = 0
  /\ config = "idle" /\ newMac = Nobody /\ known = EmptyMap
  /\ writeMutex = "free" /\ writing = <<>>
  /\ writer = "sleep" /\ added = FALSE /\ name = NoFile /\ params = EmptyMap
  /\ card \in Cards
  /\ now \in Times /\ setBack = FALSE /\ turned = FALSE
  /\ sampled = 0 /\ halted = FALSE

\* All memory is lost but the time, which the clock's battery keeps.
Restart ==
  /\ offered' = 0 /\ accepted' = {}
  /\ adder' = [a \in Adders |-> "idle"]
  /\ report' = [a \in Adders |-> NoReport]
  /\ msgMutex' = "free" /\ msgs' = <<>>
  /\ intake' = "take" /\ held' = NoReport /\ heldId' = 0 /\ heldTime' = 0
  /\ config' = "idle" /\ newMac' = Nobody /\ known' = EmptyMap
  /\ writeMutex' = "free" /\ writing' = <<>>
  /\ writer' = "sleep" /\ added' = FALSE /\ name' = NoFile
  /\ params' = EmptyMap
  /\ card' \in Cards /\ sampled' = 0
  /\ setBack' = FALSE /\ turned' = FALSE
  /\ UNCHANGED <<finished, now>>

\* Power fails and comes back.
PowerCycle == Restart /\ halted' = FALSE

\* Nobody sees the memory of a halted gateway again.
Halt == Restart /\ halted' = TRUE

-----------------------------------------------------------------------------
(* adders: add_entry_to_report_msg_buffer *)

notAdder == <<finished, intakeVars, mapVars, writeMutex, writing, writerVars,
              clockVars, halted>>

\* The line is read by one at a time: while the holder adds it keeps it, while
\* the reader adds it does not.
LineFree(a) == adder[a] = "idle" /\ adder["holder"] = "idle"

\* a reads a report from the line.
Offer(a, mac) ==
  /\ LineFree(a) /\ offered < MaxReports
  /\ offered' = offered + 1
  /\ report' = [report EXCEPT ![a] = [mac |-> mac, n |-> offered + 1]]
  /\ adder' = [adder EXCEPT ![a] = "take"]
  /\ UNCHANGED <<notAdder, accepted, msgMutex, msgs>>

\* One that is longer than its place on the stack of a.
OfferLong(a) == LineFree(a) /\ Halt

AddTake(a) ==
  /\ adder[a] = "take" /\ msgMutex = "free"
  /\ msgMutex' = a
  /\ adder' = [adder EXCEPT ![a] = "push"]
  /\ UNCHANGED <<notAdder, offered, report, accepted, msgs>>

AddDone(a) ==
  /\ adder' = [adder EXCEPT ![a] = "idle"]
  /\ report' = [report EXCEPT ![a] = NoReport]
  /\ UNCHANGED <<notAdder, offered>>

\* Mutant: the mutex is waited for without a limit.
AddTimeoutNever(a) == adder[a] = "take" /\ UNCHANGED vars

\* Mutant: the report is added without the mutex.
AddTimeoutPushes(a) ==
  /\ adder[a] = "take" /\ msgMutex # "free"
  /\ msgs' = Append(msgs, report[a])
  /\ AddDone(a) /\ UNCHANGED <<accepted, msgMutex>>

\* A second without the mutex.
AddTimeout(a) ==
  /\ adder[a] = "take" /\ msgMutex # "free"
  /\ AddDone(a) /\ UNCHANGED <<accepted, msgMutex, msgs>>

AddRefuse(a) ==
  /\ adder[a] = "push" /\ Len(msgs) > MsgLimit
  /\ msgMutex' = "free"
  /\ AddDone(a) /\ UNCHANGED <<accepted, msgs>>

AddPush(a) ==
  /\ adder[a] = "push" /\ Len(msgs) <= MsgLimit
  /\ msgs' = Append(msgs, report[a])
  /\ accepted' = accepted \cup {report[a].n}
  /\ msgMutex' = "free"
  /\ AddDone(a)

-----------------------------------------------------------------------------
(* intake: report_entry_handler.  The mutex is taken once for a visit of    *)
(* the inner loop and given after each report: from the second on the loop  *)
(* tests and pops without it, and a visit that finds nothing keeps it.      *)

IntakeTo(pc) ==
  /\ intake' = pc
  /\ UNCHANGED <<finished, adderVars, mapVars, writerVars, clockVars, halted>>

IntakeTake ==
  /\ intake = "take" /\ msgMutex = "free"
  /\ msgMutex' = "intake"
  /\ IntakeTo("test")
  /\ UNCHANGED <<msgs, heldVars, writeMutex, writing>>

IntakeTest ==
  /\ intake = "test"
  /\ IntakeTo(IF msgs = <<>> THEN "sleep" ELSE "pop")
  /\ UNCHANGED <<msgMutex, msgs, heldVars, writeMutex, writing>>

\* Mutant: the report stays in the buffer.
IntakePopKeeps ==
  /\ intake = "pop"
  /\ held' = Head(msgs)
  /\ IntakeTo("give")
  /\ UNCHANGED <<msgMutex, msgs, heldId, heldTime, writeMutex, writing>>

IntakePop ==
  /\ intake = "pop"
  /\ held' = Head(msgs)
  /\ msgs' = Tail(msgs)
  /\ IntakeTo("give")
  /\ UNCHANGED <<msgMutex, heldId, heldTime, writeMutex, writing>>

\* The message may lack its comma, and then there is no level: atoi(NULL).
IntakePopTorn == intake = "pop" /\ Halt

Pushing == \E a \in Adders : adder[a] = "push"

\* The pop comes into the middle of a push, with nothing to keep it out: it
\* goes well (IntakePop) or breaks the queue.
IntakePopRace == intake = "pop" /\ Pushing /\ Halt

\* A mutex that is free is given without effect.
IntakeGive ==
  /\ intake = "give" /\ msgMutex \notin Adders
  /\ msgMutex' = "free"
  /\ IntakeTo("find")
  /\ UNCHANGED <<msgs, heldVars, writeMutex, writing>>

\* FreeRTOS asserts that a mutex is given by its holder.
IntakeGiveAsserts == intake = "give" /\ msgMutex \in Adders /\ Halt

\* The map is read without _device_info_map_mutex.  Amid an insertion a
\* device may be missed, and the new one is seen before its id is assigned.
Found(mac) ==
  {known[m] : m \in {mac} \cap DOMAIN known}
    \cup (IF mac = newMac THEN {0} ELSE {})

IntakeFind ==
  /\ intake = "find"
  /\ heldId' \in Found(held.mac)
  /\ heldTime' = now
  /\ IntakeTo("add")
  /\ UNCHANGED <<msgMutex, msgs, held, writeMutex, writing>>

IntakeDrop ==
  /\ held' = NoReport /\ heldId' = 0 /\ heldTime' = 0
  /\ IntakeTo("test")
  /\ UNCHANGED <<msgMutex, msgs, writeMutex, writing>>

IntakeUnknown ==
  /\ intake = "find"
  /\ held.mac \notin DOMAIN known \/ config = "insert"
  /\ IntakeDrop

\* add_report_to_writing_buffer
IntakeAddTake ==
  /\ intake = "add" /\ writeMutex = "free"
  /\ writeMutex' = "intake"
  /\ IntakeTo("push")
  /\ UNCHANGED <<msgMutex, msgs, heldVars, writing>>

\* Its failure is not looked at: the report is lost.
IntakeAddTimeout == intake = "add" /\ writeMutex # "free" /\ IntakeDrop

IntakePush ==
  /\ intake = "push"
  /\ writing' = Append(writing, [id |-> heldId, n |-> held.n, t |-> heldTime])
  /\ writeMutex' = "free"
  /\ held' = NoReport /\ heldId' = 0 /\ heldTime' = 0
  /\ IntakeTo("test")
  /\ UNCHANGED <<msgMutex, msgs>>

IntakeWake ==
  /\ intake = "sleep"
  /\ IntakeTo("take")
  /\ UNCHANGED <<msgMutex, msgs, heldVars, writeMutex, writing>>

-----------------------------------------------------------------------------
(* config: msg_handler_report_config, add_device_to_report_info_map *)

ConfigTo(pc, mac) ==
  /\ config' = pc /\ newMac' = mac
  /\ UNCHANGED <<finished, adderVars, msgMutex, msgs, intakeVars, writeMutex,
                 writing, writerVars, clockVars, halted>>

\* The handler parses into the first elements of an empty vector: the first
\* digit it reads goes to address 0.  So does atoi(NULL) of a message that lacks
\* a field, in a finished handler too.
ConfigCrash == config = "idle" /\ Halt

\* With no digit to read the handler goes on with the empty vector.
Parsed == IF finished THEN Devices ELSE {NoMac}

\* Mutant: a device that is known is added again.
ConfigAskAgain(mac) ==
  /\ config = "idle" /\ mac \in Parsed
  /\ ConfigTo("insert", mac)
  /\ UNCHANGED known

\* A MAC that is known is refused and changes nothing.
ConfigAsk(mac) ==
  /\ config = "idle" /\ mac \in Parsed \ DOMAIN known
  /\ ConfigTo("insert", mac)
  /\ UNCHANGED known

ConfigInsert ==
  /\ config = "insert"
  /\ known' = [m \in DOMAIN known \cup {newMac} |->
                 IF m = newMac THEN Cardinality(DOMAIN known) % IdMod
                 ELSE known[m]]
  /\ ConfigTo("idle", Nobody)

-----------------------------------------------------------------------------
(* writer: writing_file_handler *)

WriterTo(pc) ==
  /\ writer' = pc
  /\ UNCHANGED <<finished, adderVars, msgMutex, msgs, intakeVars, mapVars,
                 now, setBack, halted>>

\* Mutant: the name is made once, before the loop.
WriterSleepNamed ==
  /\ added' = FALSE /\ name' = name /\ turned' = FALSE
  /\ WriterTo("take")

\* The variables of a turn of the loop end with it.
WriterSleep ==
  /\ added' = FALSE /\ name' = NoFile /\ turned' = FALSE
  /\ WriterTo("sleep")

\* createFileName: three calls of dateTime(), without the mutex of the clock.
ReadDate(from, to, date) ==
  /\ writer = from
  /\ name' = date
  /\ WriterTo(to)
  /\ UNCHANGED <<writeMutex, writing, added, params, card, sampled, turned>>

WriterWake == ReadDate("sleep", "year", NoFile)
ReadYear ==
  ReadDate("year", "month", [year |-> Today.year % 100, month |-> 0, day |-> 0])
ReadMonth == ReadDate("month", "day", [name EXCEPT !.month = Today.month])
ReadDay == ReadDate("day", "take", [name EXCEPT !.day = Today.day])

WriterTake ==
  /\ writer = "take" /\ writeMutex = "free"
  /\ writeMutex' = "writer"
  /\ WriterTo("drain")
  /\ UNCHANGED <<writing, added, name, params, card, sampled, turned>>

\* A tick without the mutex: the next minute will do.
WriterTimeout ==
  /\ writer = "take" /\ writeMutex # "free"
  /\ WriterSleep
  /\ UNCHANGED <<writeMutex, writing, params, card, sampled>>

FirstWindow(t) == [t0 |-> t, t1 |-> t, ti |-> t, new |-> TRUE]

\* Mutant: t_0 is taken after t_i is replaced.
WindowSwapped(p, t) ==
  [t0 |-> IF p.new THEN p.t0 ELSE t, t1 |-> p.ti, ti |-> t, new |-> TRUE]

\* The sampling window p of an id after a report of time t.
Window(p, t) ==
  [t0 |-> IF p.new THEN p.t0 ELSE p.ti, t1 |-> p.ti, ti |-> t, new |-> TRUE]

WriterSample ==
  /\ writer = "drain" /\ writing # <<>>
  /\ LET e == Head(writing)
     IN  /\ params' = [i \in DOMAIN params \cup {e.id} |->
                         IF i # e.id THEN params[i]
                         ELSE IF i \in DOMAIN params
                              THEN Window(params[i], e.t)
                              ELSE FirstWindow(e.t)]
         /\ sampled' = e.n
  /\ writing' = Tail(writing)
  /\ added' = TRUE
  /\ WriterTo("drain")
  /\ UNCHANGED <<writeMutex, name, card, turned>>

WriterGive ==
  /\ writer = "drain" /\ writing = <<>> /\ added
  /\ writeMutex' = "free"
  /\ WriterTo("open")
  /\ UNCHANGED <<writing, added, name, params, card, sampled, turned>>

WriterNothing ==
  /\ writer = "drain" /\ writing = <<>> /\ ~added
  /\ writeMutex' = "free"
  /\ WriterSleep
  /\ UNCHANGED <<writing, params, card, sampled>>

\* The result of openFile is not looked at.
WriterOpen ==
  /\ writer = "open"
  /\ card' \in openFile(card, name)
  /\ WriterTo("write")
  /\ UNCHANGED <<writeMutex, writing, added, name, params, sampled, turned>>

\* fwrite goes through ReportHandler::_writing_file, which nobody assigns, and
\* reads address 0.
WriterHalts ==
  /\ writer = "write" /\ (~finished \/ ~card.isOpen)
  /\ Halt

\* A record of each window with something new.
WriterWrite ==
  /\ writer = "write" /\ finished /\ card.isOpen
  /\ params' = [i \in DOMAIN params |-> [params[i] EXCEPT !.new = FALSE]]
  /\ WriterTo("close")
  /\ UNCHANGED <<writeMutex, writing, added, name, card, sampled, turned>>

WriterClose ==
  /\ writer = "close"
  /\ card' = closeFile(card)
  /\ WriterSleep
  /\ UNCHANGED <<writeMutex, writing, params, sampled>>

-----------------------------------------------------------------------------
\* A tick, or configureRtc, to any time.  Bound: once set back the clock stands
\* until the next start.
Clock(t) ==
  /\ t # now /\ ~setBack
  /\ now' = t
  /\ setBack' = (t < now)
  /\ turned' = (turned \/ (DateAt[t] # Today /\ writer # "sleep"))
  /\ UNCHANGED <<finished, adderVars, msgMutex, msgs, intakeVars, mapVars,
                 writeMutex, writing, writerVars, halted>>

AdderNext(a) ==
  ~halted /\ (AddTake(a) \/ AddTimeout(a) \/ AddRefuse(a) \/ AddPush(a))

IntakeNext ==
  /\ ~halted
  /\ \/ IntakeTake \/ IntakeTest \/ IntakePop \/ IntakePopTorn
     \/ IntakePopRace \/ IntakeGive \/ IntakeGiveAsserts \/ IntakeFind \/ IntakeUnknown
     \/ IntakeAddTake \/ IntakeAddTimeout \/ IntakePush \/ IntakeWake

WriterNext ==
  /\ ~halted
  /\ \/ WriterWake \/ ReadYear \/ ReadMonth \/ ReadDay
     \/ WriterTake \/ WriterTimeout \/ WriterSample \/ WriterGive
     \/ WriterNothing \/ WriterOpen \/ WriterHalts \/ WriterWrite \/ WriterClose

Requests ==
  /\ ~halted
  /\ \/ \E a \in Adders, mac \in Mesh : Offer(a, mac)
     \/ \E a \in Adders : OfferLong(a)
     \/ ConfigCrash
     \/ \E mac \in Macs : ConfigAsk(mac)
     \/ \E t \in Times : Clock(t)

Next ==
  \/ \E a \in Adders : AdderNext(a)
  \/ IntakeNext \/ WriterNext \/ Requests
  \/ ~halted /\ ConfigInsert
  \/ PowerCycle

\* The tasks run, and a task that waits for a mutex which is given again and
\* again gets it in the end.
Fairness ==
  /\ \A a \in Adders : WF_vars(AdderNext(a))
  /\ WF_vars(IntakeNext) /\ WF_vars(WriterNext)
  /\ WF_vars(~halted /\ ConfigInsert)
  /\ SF_vars(~halted /\ IntakeTake) /\ SF_vars(~halted /\ WriterTake)

Spec == Init /\ [][Next]_vars /\ Fairness

-----------------------------------------------------------------------------
Entries == [id : 0 .. IdMod - 1, n : 1 .. MaxReports, t : Times]

TypeOK ==
  /\ finished \in BOOLEAN /\ halted \in BOOLEAN
  /\ offered \in 0 .. MaxReports
  /\ adder \in [Adders -> {"idle", "take", "push"}]
  /\ report \in [Adders -> Reports \cup {NoReport}]
  /\ accepted \subseteq 1 .. MaxReports
  /\ msgMutex \in {"free", "intake"} \cup Adders
  /\ msgs \in Seq(Reports)
  /\ Len(msgs) <= MsgLimit + 1
  /\ intake \in {"take", "test", "pop", "give", "find", "add", "push", "sleep"}
  /\ held \in Reports \cup {NoReport}
  /\ heldId \in 0 .. IdMod - 1 /\ heldTime \in Times
  /\ config \in {"idle", "insert"} /\ newMac \in Macs \cup {Nobody}
  /\ DOMAIN known \subseteq Macs /\ IsFiniteSet(DOMAIN known)
  /\ known \in [DOMAIN known -> 0 .. IdMod - 1]
  /\ writeMutex \in {"free", "intake", "writer"}
  /\ writing \in Seq(Entries)
  /\ writer \in {"sleep", "year", "month", "day", "take", "drain", "open",
                 "write", "close"}
  /\ added \in BOOLEAN
  /\ now \in Times /\ setBack \in BOOLEAN /\ turned \in BOOLEAN
  /\ DOMAIN params \subseteq 0 .. IdMod - 1
  /\ sampled \in 0 .. MaxReports

\* The intake that waits for the mutex it has kept itself (a buffer found
\* empty) waits for ever, and so does what it has not taken: it never waits on
\* top of accepted reports, since nobody can add one without that mutex.
StuckStrandsNothing ==
  intake \in {"sleep", "take"} /\ msgMutex = "intake" => msgs = <<>>

\* Two devices have the same id only when there are more of them than ids.
IdsUnique ==
  Cardinality(DOMAIN known) <= IdMod =>
    \A a, b \in DOMAIN known : known[a] = known[b] => a = b

\* Unless the clock was set back, the times of a window lie in the order of its
\* reports and none in the future, whatever devices share its id, whoever added
\* the reports and whatever was lost.  And nothing that is new outlives the turn
\* of the writer it came in.
WindowOrdered ==
  \A i \in DOMAIN params :
    LET p == params[i]
    IN  /\ ~setBack => p.t0 <= p.t1 /\ p.t1 <= p.ti /\ p.ti <= now
        /\ p.new => writer \in {"drain", "open", "write"}

\* The file the records are for is today's, unless the day has turned since
\* the writer woke up: then its three reads may even name a day that is
\* neither.  It is open only while the writer writes, and closed again.
FileNameCurrent ==
  /\ card.isOpen /\ ~turned => card.file = [Today EXCEPT !.year = @ % 100]
  /\ card.isOpen <=> card.file # NoFile
  /\ card.isOpen => writer \in {"write", "close"}

NumbersOf(s) == [i \in DOMAIN s |-> s[i].n]
Transit ==
  NumbersOf(writing) \o (IF held = NoReport THEN <<>> ELSE <<held.n>>)
    \o NumbersOf(msgs)

\* Every report that was read from the line comes to an end, as a sample,
\* refused or lost, unless the gateway halts: again and again no task is kept
\* from its line by one, even when the intake waits for itself, and none is on
\* its way, the number of those that come between two starts being bounded.
ReportsEnd ==
  []<>(halted \/ (Transit = <<>> /\ \A a \in Adders : adder[a] = "idle"))

\* Two reports may change places between the line and the buffer, when the
\* reader is slow to add what it has read.  From there on the pipeline
\* implements the log of ReportLog.
Log == INSTANCE ReportLog WITH Numbers <- 1 .. MaxReports, transit <- Transit
ImplementsLog == Log!Spec

=============================================================================
