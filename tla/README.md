# TLA+ verification of wetzel-iiot-host

The firmware is a gateway on an ESP32 (FreeRTOS on one core, `sdkconfig`
`CONFIG_FREERTOS_UNICORE=y`, 1000 Hz tick).  A phone talks to it over HTTP; it
talks to a mesh of lighting sensors over UART 2; it keeps wifi settings in NVS,
a real time clock and reports on an SD card.  This directory holds TLA+ models
of its core, the TLC configurations that check them, and theorems that TLAPS
proves about them.

## 1. Inventory

Source files are under `src/main/src/` unless another directory is named.

| component | state | operations | hard behaviour |
|---|---|---|---|
| UART bridge, `async_server.cpp` | `_uart_mutex`, `_waiting_for_ans`, `_uart_response_is_complete`, `_uart_response_is_timeout`, `_queue_uart_msg`, the driver's RX buffer | `out_get_handler`, `ans_get_handler`, `_uart_receive_response_task`, `check_mesh_connection_task`, `read_report_in_serial_task`, `_wait_for_ok` | four kinds of task on one line, flags read and written outside the mutex, timeouts of 1, 4 and 10 s, replies without identity |
| Mesh status memory, `async_server.cpp` | `_last_status`, `_last_ssid`, `_last_password` | `_update_ssid` | the memory must follow the mesh; each difference may restart the wifi |
| Web server, `async_server.cpp` | `server`, LED | `begin`, `start_webserver`, `connect_handler`, `disconnect_handler`, `direct_msg_handler`, `echo_post_handler` | events that come while `begin` runs; `abort` when a second server is started; a stop that waits for the request in progress; messages without their fields |
| Wi-Fi manager, `wifi/wifi_wetzel_esp32.cpp`, `esp-interface.cpp` | `_wifi_mutex`, `_current_mode`, `_ap_config`, `_sta_config`, `is_running`, `is_restarting`, connection attempts, reconnect timer, NVS | `begin`, `start`, `restart`, `any_event_handler`, the setters, `rssi_check` | dropped events, a mutex kept on an error path, settings persisted before they are known to work |
| Wi-Fi direct messages, `wifi/wifi_direct_msg_handlers.cpp`, with the decoding in `server_html_utils.cpp` and `wifi/wifi_wetzel_utils.cpp` | none of its own | mode, AP and station change, info, credentials | acts on the Wi-Fi manager from the web server task; fields, escapes and addresses on the way; two saves for one message |
| Report pipeline, `relatorio/report_handler.cpp` | message buffer (6), writing buffer, device map, sampling map | `add_entry_to_report_msg_buffer`, `report_entry_handler`, `writing_file_handler`, `add_device_to_report_info_map` | loops that take and give a mutex on different paths, 8-bit ids, unsigned averages |
| SD card, `perifericos/sd_card_handler.cpp` | mounted card, writing and reading file | `begin`, `openFile`, `closeFile` | partial failure |
| Real time clock, `perifericos/real_time_clock.cpp` | `_unixSeconds`, `_dateTime`, `_unixDay`, `lost_track`, `_rtc_mutex` | 1 s interrupt and task, `begin`, `configureRtc` | interrupt against configuration; a module that does not answer |
| Clock module driver, `main/lib/RTC_lib` (`RTClib.cpp`, `RTC_DS3231.cpp`), on `main/lib/Adafruit_BusIO_lib` | the registers of the DS3231 | `adjust`, `now`, alarms, pin modes, dates and spans, dates as text | two forms of the time, leap years, 32-bit seconds, reads and writes that are lost unseen |
| Event listener, start-up, system info timer, other vendored code | | | logging, hardware set-up, third-party code |

Interactions.  `/out` and `/ans` run in the web server task; `/out` creates a
receiver task, which moves the answer from the line to the queue that `/ans`
empties.  The mesh task polls the line every 10 s and hands the status to
`_update_ssid`, which may restart the wifi (taking `_wifi_mutex` while it holds
`_uart_mutex`; nobody takes them in the other order).  The report reader, and
the other two readers when they meet a report, put reports in the message
buffer of the report pipeline, which stamps them with the clock and writes them
to the card.

A failed `ESP_ERROR_CHECK`, and a task that returns, call `abort()`, and the
gateway then halts until its power is cycled
(`sdkconfig`, `CONFIG_ESP_SYSTEM_PANIC_PRINT_HALT=y`): it does not reboot.

Task priorities (`configuration.h:49-64`): web server and receiver 5, clock 5,
report reader and report tasks 4, mesh task 3, software timers 1.

The properties that make each component correct:

* bridge: exclusive use of the line; an answer goes to the app whole, in order,
  to its own command, or the app learns that it did not; nothing of an exchange
  is left for the next; every handler returns, every receiver ends, the bridge
  becomes available again.
* mesh memory: it catches up with a stable mesh and is then quiet.
* Wi-Fi manager: the mutex is free when nobody works on the wifi; a
  disconnected station has a pending attempt or timer; a reboot finds settings
  that start.
* web server: one server at a time, and one while a phone with an address is
  there.
* direct messages: the settings are what was sent, and the app is told so; a halt
  has a message or rejected settings behind it.
* clock: the local time stays within a tick of the module, and its two forms are
  the same time.
* clock module driver: what is written reads back, on every day of the century.
* report pipeline: every accepted report is sampled once at most, in the order of
  acceptance; ids are unique; the file of a day holds the records of that day.

## 2. Modules

| module | what it is |
|---|---|
| `MeshStatus` | `_update_ssid`: state and operations, no next-state relation |
| `MeshPolls` | runs them on a sequence of status messages |
| `WebServer` | `begin`, the event task, the server's task and a phone |
| `Gateway` | `MeshPolls` and `WebServer` together: they meet in the wifi |
| `AppExchange` | abstract: what the bridge promises the app |
| `UartBridge` | the bridge; extends `MeshStatus`; implements `AppExchange` |
| `WifiManager` | boot, restart, settings, events, the two timers, power cycles |
| `DirectMessages` | the app's messages as text in front of `WifiManager` |
| `RealTimeClock` | the local clock, its interrupt and task, `begin` and `configureRtc` |
| `Calendar`, `DateText`, `DS3231` | operators: dates and spans; dates as text; the driver's functions on registers |
| `ClockModule` | `RealTimeClock` on those registers; implements it |
| `ReportLog` | abstract: what the pipeline promises of a report |
| `SdCard` | operators: the card's object |
| `ReportPipeline` | intake, device map, sampling, writer; implements `ReportLog` |
| `UartBridgeProofs`, `UartAnswerProofs` | theorems about the bridge: its mutex and the exchange; its answers |
| `CalendarProofs`, `ClockModuleProofs` | theorems about dates, texts and registers; about both clocks |
| `GatewayProofs`, `WifiManagerProofs`, `DirectMessagesProofs`, `ReportPipelineProofs` | theorems about the others |
| `MCUartBridge`, `MCMeshPolls`, `MCGateway`, `MCWifiManager`, `MCDirectMessages`, `MCClockModule`, `MCReportPipeline` | small instances for TLC |

### UartBridge

One action is what a task does between two points where another task may run,
that is between blocking calls (`xSemaphoreTake`, `vTaskDelay`, reads of the
line, `xQueueSend` on a full queue) or between two accesses to shared state
where another may come in between.  `pc[t]` is the place of task `t`:

| task | places and code |
|---|---|
| `Httpd` | `idle`; `/out`: `cleared` (485), `take` (488), `send` (493), `waitok` (495), `reply` (520); `/ans`: `ans` (741) |
| receiver | `take` (843), `loop` (849), `mark` (882), `check` (886), `give` (894), `dead` |
| `Mesh` | `sleep` (362), `take` (195), `send` (206), `waitok` (208), `status` (220), `give` (211, 226) |
| `Reader` | `take` (376), `read` (383), `add` (404, the mutex given back at 392), `nap` (409) |

Variables and code: `mutex` is `_uart_mutex` with its holder; `waiting`,
`complete`, `timeout`, `queue` are the static members; `done[v]` is the
receiver's local `request_is_complete`; `rx` is what the UART driver holds,
`line` what the sensor has still to send; `reports` is the length of the report
message buffer.  `lastChunk`, `dropped` and `statusFrom` are history variables:
what `/ans` passed on last, whether the full queue lost a chunk, and which kind
of message the status read took.

Data is reduced to what the properties tell apart: a message is its kind (`ok`,
a segment `008`, a final `009`/`007`, a status, a report `#`, anything else) and
whether it answers the command sent last.  Sending a command makes everything
still under way stale.  `disturbed` notes what may shift the replies against the
commands (a wait that ended before its reply, a cut, a loss, a report read as a
status) until a command next goes out on a silent line.  The sensor is the environment: to each command it
answers nothing, a refusal, or an `ok` and an answer that may stop short; its
messages arrive at any time, or not within the time the code waits; reports
arrive on their own; a full driver buffer loses messages.

Scheduling: the mutex is given to a task only if no task of a higher priority
is at its own take (`CanTake`).  This is what one core with fixed priorities
does, and `ReceiverOwnsLine` depends on it.

Environment assumptions are constants, so that every run names those it uses:

* `PromptSensor`: a reply comes before its timeout, or never.  With `FALSE` the
  timeouts may fire at any time.
* `FlushCuts`: `uart_flush_input` may cut a message that is arriving in two; the
  tail is then an unknown message.
* `PromptReceiver`: a receiver that has ended its work sees it within the 11 ms
  that `/ans` sleeps after its last chunk (lines 754-756; the receiver naps 1 ms,
  line 892, and has the web server's priority).  Nothing in the code waits for
  it: with `FALSE` every property of the exchange fails, except `LineExclusive`.

### MeshStatus and MeshPolls

One action per branch of `_update_ssid`, the outcome being "dismissed",
"noted", "initial" (returned without a restart) or "restart".  The comparison
with `_last_password` is modelled as it is: the variable is never assigned and
the wrong flag is cleared.  `MeshPolls` adds two history variables, the last
well-formed message and how often it came in a row.

### WebServer and Gateway

| task | places and code |
|---|---|
| main, in `begin` (`begun`) | `ip` (69), `wifi` (71), `start` and `assign` (75), `mutex` (79), `done` |
| event task (`dispatch`) | `idle`; `connect_handler`: `start`, `assign` (810); `disconnect_handler`: `stop` (797), `clear` (798) |
| server's task (`request`) | `none`; `/out` or `/ans` (`bridge`), `/echo`, `/direct` |

`handle` is whether `begin`'s static `server` is set, `live` whether a server
really has the port; they differ between the two halves of each assignment, and
that is where the events come in between.  `start_webserver` with a server alive
aborts.  `events` is the driver's queue, of 32 in the program and 3 in the run:
`ServesThePhone` depends on its order and not on its length, and the theorem is
for every length.  `httpd_stop` waits for the request in progress; `/out` and
`/ans` end (`HttpdReturns` of `UartBridge`), and so does `/direct`
(`RestartReturns` of `WifiManager`); `/echo` waits for its client.  The phone is
the environment; one is accepted at a time.  It may have a fixed address and
never ask for one: then it is `joined` and no handler hears of it, as in the code.

The handlers are registered before there is a server (69 against 75), and the
access point is up before either.  `early` notes that a handler had work before
`begin` had set the handle; the safety properties but the types are about the
other runs.

A direct message may halt the gateway (`DirectCrash`): a handler takes `strtok_r`'s
NULL for a field, a message without text leaves `param` as it was, and a restart
aborts on settings the driver rejects (`wifi_wetzel_esp32.cpp:257-272`).  The
restart may also be the mesh task's, which finds settings that a message has just
changed or whose own restart gave up (`MeshPollHalts`).  `message` is a history of
it, and `HaltsAtBootOrOnMessage` says that nothing else halts the gateway: a phone
that is early, or a message.  What a halted gateway owes its phone is nothing:
`ServesThePhone` and `StaysServed` are about one that runs.

`Gateway` lets a poll of the mesh task that restarts the wifi do to the phone
what a direct message that restarts it does (`WifiRestarts`).

### AppExchange

Phases `idle`, `asking`, `open`; an inbox of chunks; an answer that ends with
its final chunk or expires.  `UartBridge!Exchange` maps it: asking is `/out`
before its reply, the inbox is the queue without freshness, the answer has
ended when a flag is set or the final chunk is in the queue and its flag about
to be set.

### RealTimeClock

The module (`hw`) ticks; its interrupt notifies a task (`notified`), which
counts `_unixSeconds` (`seconds`) up under `_rtc_mutex`.  `begin` and
`configureRtc` read the module under the same mutex (`callPc`: `take` (113),
`read` (117), `write` (118-119), and `isr` (103), where `begin` installs the
interrupt handler); the two never run at once.  Times are small numbers and the
code compares nothing with the length of a day, so the drift is the same as for
real ones.  A power cycle may come at any step; the battery keeps the module.  The
interrupt of a second is put at the moment the module counts it; the code asks for
the rising edge of the pin, which comes half a second later, so that `Drift` is
about whole seconds.

`prompt` is a variable that never changes, so that one specification holds both
cases: with it a second is longer than the I2C traffic under the mutex and than
the end of `begin` (the interrupt finds the previous tick counted); without it
ticks merge, the task gives up after a second (45-47, and the gateway halts) and
configurations fail.  Two histories say whether a configuration has adjusted the
module and whether the last one failed; the bounds are stated for a clock whose
last configuration did not, and whose last reading was not lost.  `_unixDay` is left out: it is written when the clock
is configured, not at midnight, but `unixDay()` has no caller.

`begin` may find no module at its address.  It then returns before it has created
the mutex or installed the handler, and `app_main` goes on: the local clock
stands (`callPc` is `alone`), and the first configuration adjusts the module,
which may answer by then, and asserts on the missing mutex (`ConfigureAlone`).

Nobody looks at the result of a transfer on the bus, and any may be lost.  The write
of the pin's mode in `begin` (75): then the pin is as the module has kept it
(`pin`), and a module that no `begin` has ever told to give its pulses gives none,
so that the clock stands; `NeverBehind` is about one that does.  The read in
`now()` (`RTC_DS3231.cpp:72`): then the time is that of whatever its buffer held
(`UpdateMisread`, `Unread`), and a history (`misread`) keeps it out of the bounds
until the next reading.

### Calendar, DateText, DS3231 and ClockModule

`ClockModule` puts the module's registers (`mem`), its calendar and its battery
under `RealTimeClock`, and both forms of the local time on top: a time `n` there
is `n` seconds after `StartSecond` of the current day here.  The module counts in
its registers by its own rules (external: the chip); the driver computes with
days since 1970 or 2000, in 32 bits where the program does.  `Calendar` works on
pairs of a day and a second of the day, whose arithmetic TLC's integers can hold,
and wraps them where the program's word wraps.  The loops over the years and the
months of `DateTime(uint32_t)` are recursive functions of the loops' variables
(`YearOf`, `MonthOf`), so that they can be evaluated and proved about.

What may be lost on the bus is as in `RealTimeClock`, with the registers: `adjust` is
two writes with a read of the status between them, and each of the three may be lost
(`ModuleConfigure`, `Adjusted`); so may the read of the control register and the
write of it in `begin` (`Started`).  A read of a register that is lost leaves a byte
of the stack (`StrayBytes`), one of the time seven of which the first is 0
(`Unwritten`).  The theorems are for all bytes.  `ModuleKeepsTime` says that the pin
gives its pulses from the first `begin` whose write reached the module, and not
before.

`DS3231` has every function of the driver on registers but the thermometer, and
`DateText` both ways between dates and texts; they are evaluated on the states of
the run, that is on every day from 2000 to 2098, at the times it is switched on
around three midnights.  The alarms, the 32 kHz output and the texts are library code
that this firmware does not call.  The driver takes the years 2000 to 2099 as its leap rule
does (every fourth); dates after 2099, which it can form but the module cannot
hold, are in `DatesRoundTrip` as sums with a century.

### WifiManager

| task | places and code |
|---|---|
| `main` | `begin` (`esp-interface.cpp:55-56`), `done` |
| `httpd`, `mesh` | `idle`; `saveAp` (`wifi_wetzel_esp32.cpp:315`), `saveSta` (321), `saveIp` (366-453); `mode`: about to read `current_mode()` (`wifi_direct_msg_handlers.cpp:60, 114`); `take` (279), `stop` (283), `switch` (247), `config` (258), `start` (268); `crashed` |
| `daemon` | `idle`; `rssi_check`: `take` (`esp-interface.cpp:133`), `check` (140), `delay` (154) |

`conf` is what the program holds (`_current_mode`, `_ap_config`, `_sta_config`,
`_ipv4_info`) and `nvs` the same in flash; `running`, `restarting`, `attempts`
and `timer` are the code's flags, counter and reconnect timer; `driver` and
`link` are ESP-IDF's side: what it was configured with, whether it is started,
and the state of the station; `events` are those the event task has still to
handle.  `halted` is `abort()`; `PowerCycle` brings the gateway back from flash.

The handlers change the settings without `_wifi_mutex`: a setter assigns what the
program holds (`ApChange`, `StaChange`) and then saves it (`SaveAp`, `SaveSta`), and
a restart of the mesh task, a halt or a loss of power may come in between.  The
station's addresses follow in a write of their own (`SaveIp`).  So the gateway may
halt on settings that are not in flash yet, and `HaltsOnBadSettings` says that these
are the only others.  Every save is taken to succeed, and the copy of a struct is
one step.  A static address is given to the network interface when
it is configured; after a power cycle it is in `conf` but not in the interface,
because the call in `begin` is commented out (`wifi_wetzel_esp32.cpp:210`), so
that the driver's settings do not count it.

What is assumed of ESP-IDF, whose source is not here: `esp_wifi_set_config` or
`esp_wifi_connect` rejects settings outside `Accepted`; `esp_wifi_stop` of a
station that is connected or connecting posts a disconnect event;
`esp_wifi_restore` makes the driver forget its settings; `esp_wifi_connect` of a
stopped or busy station does nothing; commands to the timer take effect at once.
A restart, and the 5 s of `rssi_check`, are shorter than the 10 s that the other
tasks wait for the mutex, so a wait fails only when the mutex is never given
back (`Leaked`).  The event task waits 50 ms: an event is lost while a restart or
the 5 s have the mutex, and waits for shorter work.  Only `AP` and `APSTA` are
modes: no message asks for `STA`.

`faults`, another variable that never changes, says what may go wrong outside: a
phone with a weak signal (which makes `rssi_check` stop the wifi), driver calls
that fail.  Every property holds under every combination unless it names one.

### DirectMessages

A text is a sequence of symbols: words that nothing looks into, and the
characters that something does.  `Url` is the app's side (external): a code, the
fields, each ended by `,`, an empty one written `#`, a `;` at the end, URL-encoded
as a form.  `Parsed` is the gateway's: the eight replacements of
`convert_html_text_to_ascii` (none makes a text that another would take something
from, so they are one), `strtok_r`, the code cut to 8 bits.  A `+` becomes a space;
a `%20`, which a form does not write, would become a `;`.  A `,` that was typed
ends its field, and the messages with one are refused by their count of fields.  A
form escapes characters that the decoder does not know (`Percent`: `@` is sent as
`%40`, `&` as `%26`); these stay escaped, in flash and in what the app is shown.
Hence `StoredAsSent`: the settings are what the app has sent, which is what was
typed but for those escapes.

A name or a password is copied with `strcpy` into 32 and 64 bytes
(`wifi_direct_msg_handlers.cpp:54-55, 103-104`).  One that does not fit (`Fits`,
with `Width` the characters of a symbol) writes over what follows, and the settings
are then any of `ApOverruns`, `StaOverruns` (`ApOverrun`, `StaOverrun`): nothing is
promised of it but what `WifiManager` promises of any settings.  What else it may
write over is not followed.  Messages that the app does not write, without a
field, crash the handler (`MessageCrash` of `WifiManager`).

`Typeable`, `FieldsTyped` and `AppAssumption` say what the app may send.  They leave
out what the code would not give back: a character that the decoder takes for
itself (`+`, or `%2C` typed as such); a comma at an end of a password, which
`strtok_r` drops without a trace (one between other characters is refused); a `;`
at the beginning or behind a comma, which would end the message there; an empty name
or password of the access point, which would be stored as `#`.  So no network that
may be stored (`ApConfigs`) has a comma in its name or password.

The settings of the access point do not take `#` for an empty password, those of
the station do; the two DNS fields are read and dropped.  `sent` and `kept` are
histories: what the last messages that were not refused have sent, and which of it
is in flash, where a power cycle goes back to.

### ReportLog, SdCard and ReportPipeline

| task | places and code (`report_handler.cpp`) |
|---|---|
| `adder`: `reader` (`read_report_in_serial_task`), `holder` (`_wait_for_ok`, the receiver) | `idle`, `take` (264), `push` (268) |
| `intake` | `take` (50), `test` (54), `pop` (55), `give` (66), `find` (68), `add` (308), `push` (311), `sleep` (88) |
| `writer` | `sleep` (101), `year`, `month`, `day` (106), `take` (109), `drain` (112), `open` (166), `write` (168), `close` (193) |
| `config` (the web server task) | `idle`, `insert` (288) |

Two tasks may add a report at a time.  `_wait_for_ok` and the receiver hold
`_uart_mutex` while they add, and by `LineExclusive` there is one of them; the report
reader gives it back first (`async_server.cpp:392`) and adds after (404), and
meanwhile another may read a later report from the line and have it accepted first.
So the pipeline keeps the order in which reports were accepted, which need not be
that in which they were read, and `ReportLog` says so.  `msgMutex` and `writeMutex`
are the two mutexes with their holders, `msgs` and `writing` the two buffers,
`known` the device map, `params` the sampling windows.  An entry is the number of
its report and the time stamped on it by the intake; levels are left out.  The clock
(`now`) moves forward until it is set back, which ends its moves until the next start
(a bound): `WindowOrdered`
is about the windows until then, since the code compares no times, and a clock that
is set back gives a window that ends before it begins.

A pop in the middle of a push, a mutex given by a task that does not hold it, a
report without a comma (`atoi(NULL)`, `report_handler.cpp:63`), one longer than its
place, a configuration without its fields (`report_direct_msg_handlers.cpp:42-43`),
and a read or write of address 0 halt the gateway.

Two loose ends in the code would end every run before its more interesting part:
`msg_handler_report_config` parses a MAC into an empty vector (its TODO says that
it is to be read), and the writer writes through a file pointer that nobody
assigns.  `finished` is a variable that never changes: with `FALSE` both are as in
the code, with `TRUE` both are tied, so that the maps, the windows and the file
are exercised.  No property names it.

`StuckStrandsNothing` and `ReportsEnd` are what is left of progress in the intake,
which waits for itself once it has found its buffer empty (50-88): from then on
every report is refused after a second, and none is stranded.

## 3. Runs

| run | shows | distinct states |
|---|---|---|
| `bridge_safety` | types and capacities; exclusive use of the line; the receiver has the line to itself; one receiver; nothing is left over between exchanges; nothing follows the final chunk; a complete answer reaches the app whole; answers belong to their command unless something disturbed the line; `UartBridge` implements `AppExchange` | 3,723,548 |
| `bridge_liveness` | every handler returns, every receiver ends; with clients that fetch their answers the bridge becomes available again | 450,932 |
| `gateway` | types; the mesh memory catches up with a stable mesh and is then quiet; only a phone that is early and a message the code cannot take halt the gateway; a phone with an address is served, and one that stays is served for good | 619,923 |
| `clock` | the local clock is at most a second ahead of the module (two if the mutex may be held for seconds), and behind it by at most the second `begin` can lose; the module, the driver and the local date agree; dates, texts and alarms read back; with reads and writes that are lost on the bus | 331,642 |
| `wifi` | one task works on the driver at a time; a wifi nobody works on runs with the saved settings; these are what was sent; a halt means a message without its fields, or bad settings in flash or just set; a disconnected station has something that reconnects it, with near phones; every restart returns; a station goes on trying | 138,128 |
| `reports` | types; the stuck intake strands no report; ids are unique; windows are ordered unless the clock was set back; the file is today's; `ReportPipeline` implements `ReportLog`; reports end | 607,805 |
| `bridge_clean_start` | violated: input is cleared before a request starts (comment at 126) | |
| `bridge_timeout_error` | violated: a late answer gives an error message (comment at 738) | |
| `bridge_status_report` | violated: the status read never takes a report (TODO at 216) | |
| `bridge_abandoned` | violated: the bridge becomes available without the client's help (10 s limit declared at 838) | |
| `mesh_password` | violated: a dismissed message has the old password (log at 283) | |
| `wifi_reconnect` | violated: a disconnected station has an attempt or the periodic timer to come (`wifi_wetzel_esp32.cpp:91`): the 5 s of `rssi_check` lose the event | |

Bounds of the bridge.  Two receiver identities (`OneReceiver` shows that one is always free,
and with it that `OutOk` is never disabled for want of an identity); a driver
buffer of 1 to 3 messages, 2 to 4 replies under way, a queue of 1 or 2 chunks
(so that it fills; the code's 40 would not change what happens at the limit), a
report buffer of 0 or 1, an answer of up to 3 chunks, 0 to 2 reports at a time.
The bounds let old replies overlap a new command, the buffers overflow and the
queue drop its final chunk.  `LineCap` and `MaxReports` bound the environment;
`QueueCap`, `RxCap` and `ReportCap` are the code's limits, made small.  Receiver
identities are symmetric; the symmetry is used in safety runs only.

Bounds of the others.  Gateway: three statuses, three networks, one password (no
branch of `_update_ssid` tells two apart), a code of each kind (one that restarts
the wifi, one that does not, one without a handler, one that only the cut to 8
bits gives a handler), three events under way, enough for a phone to come back
before the event task has handled its leaving.  Clock: a module's time up to 5
with configurations to the past, the present and the future (0, 2, 4), so that
ticks fall into every step of several configurations in a row; the gateway is
switched on two seconds before the midnights that end February 28, 2000, the leap
year 2000 and the year 2098 (the last only with pulses and a prompt task,
`DaysOnce`, so that the 36,000 days before it are counted once).  A lost reading is
one of three buffers that no reading of the module
gives and whose date is not that of its seconds; a lost byte is 255.  Wi-Fi: one accepted and one rejected setting of each kind, one
immediate attempt (the limit is reached and passed; `MaxAttempts = 3` with four
events was run once, for safety) and two events under way (`EventCap`), enough
for a connection and a disconnection to be lost or handled in either order; names
of several words, a character that the decoder knows and one that it does not, a
password with a comma, a name of 32 characters, addresses and none.  Reports: two devices, one of which sends, and two ids, two adders with two
reports between two starts (a buffer that is full at one: `MsgLimit = 0`), two times
on the two sides of a new year; ids run
out only in the theorem, which is for every number of devices.  A power cycle may
come at any step of all of them.

`AnswersFresh` holds until the line is disturbed.  What disturbs it was found by
dropping its conditions one at a time.  A flush cuts the `ok` of a poll under
way, the poll gives up, its status is taken by `/out` as a refusal, and the retry
then meets the `ok` and the answer of the first command.  A report read as a
status leaves the status in the buffer, with the same result, and so do a late
sensor and a message lost in a full buffer.

Fairness.  Every task that can run does (`WF` on the work of each task; not on
the client's requests, nor on the sensor).  The receiver's loop gets two `SF`s:
the loop finds the buffer empty or forwards a message again and again, because
reports arrive over a serial line one at a time (`MaxReports = 1`); and the
timeout, tested again and again, fires.  With reports as fast as they are read
the receiver never gets to its time check (lines 861, 872) and `HttpdReturns`
fails: this is a limit of the code, stated here and not a property of a run.

The wifi runs under: `WF` on the start-up and on the daemon's work once it has
the mutex; `SF` on the event task, which has the highest priority and gets the
mutex whenever it is free when an event comes; `SF` on the daemon's take and its
reconnect timer, since one task serves both timers in turn; `SF` on each
restart, since the mutex is free between two restarts long enough for the one
that waits.  Nothing is asked of the messages, the network or the power.
`StationGoesOn` says that a station under no fault tries again and again, not
that it connects.

The gateway runs under `WF` on `begin`, on the event task and on the requests that
end, and on a phone that is away or without an address: it comes back and asks for
one.  `StaysServed` has its conditions in front of it: the mesh comes to rest,
nothing but the mesh takes the phone away, and a client of `/echo` sends its body
again and again (without that `httpd_stop` waits for ever).

The pipeline runs under `WF` on the adders, the intake, the writer and the
insertion, and `SF` on the two takes of a mutex that is given again and again.
Numbers of reports between two starts being bounded, "every accepted report ends"
is stated as: again and again none is on its way.

`DismissedMeansSame`, `WaitingEnds` and `ReconnectPending` are what the texts of
the repository promise; `ReconnectPendingNear` is the part of the last that
holds.

## 4. Proofs

All hold for all values of the constants:

| theorem | statement | assumptions |
|---|---|---|
| `MutualExclusion` | `Spec => []LineExclusive` | `BridgeAssumption` |
| `TypeCorrect` | `Spec => []TypeOK` | `BridgeAssumption`, `MeshAssumption` |
| `AnswerIsTheReceivers` | `Spec => []ReceiverOwnsLine` | and `PromptReceiver` |
| `SingleReceiver` | `Spec => []OneReceiver` | and `PromptReceiver` |
| `ExchangeLeavesNothing` | `Spec => []NothingLeftOver` | and `PromptReceiver` |
| `FinalChunkIsLast`, `AnswerIsComplete`, `AnswersAreFresh` | `Spec => []FinalChunkLast`, `[]AnswerComplete`, `[]AnswersFresh` | and `PromptReceiver` |
| `BridgeImplementsExchange` | `Spec => ImplementsExchange` | and `PromptReceiver` |
| `MeshTypeCorrect`, `MemoryFollowsMesh`, `StableMeshIsQuiet` | `Spec => []TypeOK`, `[]MemoryCatchesUp`, `QuietWhenStable` | `MeshAssumption` |
| `GatewayImplementsMesh` | `GatewaySpec => Spec` of `MeshPolls` | |
| `GatewayFollowsMesh`, `GatewayIsQuiet` | the last two for `GatewaySpec` | `MeshAssumption` |
| `GatewayTypeCorrect`, `GatewayHaltsForAReason`, `PhoneIsServed` | `GatewaySpec => []GatewayTypeOK`, `[]HaltsAtBootOrOnMessage`, `[]ServesThePhone` | `WebAssumption` |
| `ClockTypeCorrect`, `ClockNeverAhead`, `ClockNeverBehind` | `Spec => []TypeOK`, `[]NeverAhead`, `[]NeverBehind` | `ClockAssumption` |
| `ModuleImplementsClock` | `ModuleSpec => Spec` of `RealTimeClock` | |
| `ClockDateAgrees`, `RegistersKeepTime`, `AlarmsAreKept`, `DatesLeadBack` | `ModuleSpec => []DateAgrees`, `[]ModuleKeepsTime`, `[]AlarmsReadBack`, `[]DatesRoundTrip` | `ClockAssumption`, `ModuleAssumption`, `CenturyAssumption` |
| `SecondsReadBack` | `unixtime(DateTime(t)) = t` | `t` a `uint32_t` |
| `DatesReadBack` | `DateTime(unixtime(dt)) = dt` | a date of 2000 to 2099 |
| `SpansAddUp` | adding, comparing and subtracting a span | no wrap of the word |
| `TimeReadsBack` | `now()` reads what `adjust` wrote | fields in their ranges |
| `WifiTypeCorrect` | `Spec => []TypeOK` | `WifiAssumption` |
| `RestartIsExclusive` | `Spec => []RestartExclusive` | `WifiAssumption` |
| `SettingsAreInForce` | `Spec => []SettingsInForce` | `WifiAssumption` |
| `HaltsOnlyOnBadSettings` | `Spec => []HaltsOnBadSettings` | `WifiAssumption` |
| `StationReconnects` | `Spec => []ReconnectPendingNear` | `WifiAssumption` |
| `DirectImplementsWifi` | `DirectSpec => Spec` of `WifiManager` | `DirectAssumption` |
| `DirectIsSafe` | `DirectSpec => []`(the three safety properties of the wifi) | and `WifiAssumption` |
| `SettingsAreAsSent` | `DirectSpec => []StoredAsSent` | and `AppAssumption`, `SymbolAssumption` |
| `PipelineTypeCorrect`, `IntakeStrandsNothing`, `IdsAreUnique`, `WindowsAreOrdered`, `FileIsCurrent` | `Spec => []TypeOK`, `[]StuckStrandsNothing`, `[]IdsUnique`, `[]WindowOrdered`, `[]FileNameCurrent` | `PipelineAssumption` |
| `PipelineImplementsLog` | `Spec => ImplementsLog` | `PipelineAssumption` |

The bridge (`UartBridgeProofs`).  `MutexInv` (types of `pc` and `mutex`, and
`LineExclusive`) is inductive on its own.  `ReceiverOwnsLine`, `OneReceiver` and
`NothingLeftOver` are not: they rest on
`ExchangeInv`, which adds when a receiver may exist at all (only while an answer
is awaited and `/out` is past its `ok`, or about to end), that a live receiver
is the only one, and that the flags are clear while `/out` asks.  The proof has
one step per action, and the steps that leave the state in question alone are
discharged together.

The gateway (`GatewayProofs`).  `MeshInv` says what one message is enough for: the
memory knows its network, unless it is the initial one; a second identical
message brings the status.  `MeshPolls` takes no notice of the web
server, so that `GatewayImplementsMesh` is a matter of reading off the steps, and
what is proved of the mesh task alone holds in the composition.  `ServerInv` has
the handle and the server at each step of `begin` and of the event task; what
makes it inductive is `Awaited`: the last event in the queue of a phone with an
address is its address, or the server that it needs is there or is being started.

The answers (`UartAnswerProofs`).  `ChunkInv`, on top of `ExchangeInv`, is an
invariant of the queue: a final chunk is its last member, and nothing is left in it
when the app has taken one (`QueueOrder`); a receiver that has put one is done,
and an answer is marked complete only after its final chunk was put, unless that
chunk was dropped (`FinalEnds`); the flags of the receiver and of `/ans` are what
their steps say (`ReceiverFlags`, `AnswerFlags`).
With it the two properties of the answer are read off.  `BridgeImplementsExchange`
has one step per action: it is a step of `AppExchange` or leaves the exchange
alone, and the invariants rule out the states in which it would be neither (an
`/out` that forgets an answer somebody still writes, an `/ans` that takes a
chunk which is not of this exchange).  `FreshInv` says of an undisturbed
line which replies are on their way, in the driver's buffer or on the wire
(`Incoming`), for whatever the task on the line waits for (`Expecting`): the `ok`
and the answer of a command, the rest of an answer, the two replies of a poll, or
none.  Every step that could bring another one disturbs the line.

The assumption `PromptReceiver` is that a receiver's nap of 1 ms ends before the
11 ms that `/ans` sleeps after a chunk.  `MutualExclusion` and `TypeCorrect` do without it.

The clock (`ClockModuleProofs`).  The bounds on the drift
are stated for a steady clock and are lost in the middle of a configuration.
`DriftInv` adds what is known there: before the handler is installed nothing is
notified (`Starting`), a prompt task has one tick at most (`Ticks`), and what the
caller has read from the module is already within the bounds (`Written`,
`Begun`).  With `ModuleImplementsClock` the bounds are true of the clock with
registers as well.

The calendar (`CalendarProofs`).  What the loops of `DateTime(uint32_t)` compute
is proved for every number of days: among the days for which a loop would end in
the wrong year or month there would be a least one (`LeastNumber`), and one turn of
the loop leads from it to a lesser one.  `date2days` then gives back the day
(`SecondsOfDate`) and the loops give back the date (`DateOfSeconds`), the wrap
at 2^32 included.  Fields in order are dates in order (`LaterDates`), for spans and
for `operator<`.  The registers are bytes in BCD: an alarm is read as it was
set in each of its modes, and the texts of a date are read as the fields they were
written from, piece by piece.

The module (`ClockModuleProofs`).  `CalendarInv` says that the registers hold the
date of the module's time, the weekday once it has been set, that the control and
status registers are those that `begin` and `adjust` leave (`ModuleHolds`), and
that the date the caller has read and the local date go with their seconds
(`DatesHold`).  The interesting steps are the tick over the end of a minute, hour,
day, month or year, where the chip's own rules must meet the calendar of the
driver, and `adjust` and `begin`, whose writes and reads may each be lost.  `DatesHold`
says of a lost reading nothing but that it was one.
`CenturyAssumption` keeps the module's time before 2100, where its two digits of
the year and the leap rule of the library end.

The wifi (`WifiManagerProofs`).  Three invariants, each on top of the one before:
`WorkInv`, who is at which step while the mutex is held (in particular
`is_restarting` means that the holder has stopped the driver); `DriverInv`, flash
and memory agree but between a setter's assignment and its save (`Saved`), and the driver has the settings unless a
restart that will give them to it is still to come (`Settled`); `StationInv`, the
last event of a station that is down is its disconnection, and without a restart
under way such a station has the timer or an event.  The interesting step is
`sta_connected_handler`, which stops the timer: the queue still holds the
disconnection that followed, because it is the last event.

The direct messages (`DirectMessagesProofs`).  Every step is one of `WifiManager`:
the text decides which.  `KeptInv` says that memory holds what was sent last and
flash what was saved of it (which is all of it, unless the handler is still about to
save), which every step but a message, a save and a power cycle leaves alone.  That a
single message gives back what was sent (`MessagesDecode`) is about texts of any length, which `strtok_r`
takes apart: `Tokens` is written with the set of places where a piece begins, and
the i-th piece is the one with i - 1 before it, so that no recursion over the text
is needed.  Two texts put together have the pieces of the first and then those of the second
(`TokensJoin`, by counting places).  By the least number of fields for which it
would fail (`AllFieldsRead`), the text of a message has one piece for its code and
one for each field, more exactly when a field has a comma in it; then the `;` is
not where the handler looks for it, and the message is refused (`MessageRead`).
An address is four pieces between dots, and a number from 0 to 255 is not changed
by the cut to a byte (`AddressReadBack`).

The pipeline (`ReportPipelineProofs`).  `MsgInv`: the adder pushes with the mutex
only, the intake pops only what is there.  `IdInv`: while there are no more
devices than ids the ids given are the first ones, each once.  `NameInv`: the name
at each step of the three reads of the date.  `TimeInv`: until the clock is set back
the times on their way are in order from the clock to the windows; `WindowInv` puts
the windows on top of it.  `FreshInv`: no number is accepted twice, which
`PipelineImplementsLog` needs beside the order of what is on its way.

Only model-checked: what holds under fairness (`HttpdReturns`, `ReceiverEnds`,
`ClientsFreeBridge`, `StaysServed`, `RestartReturns`, `StationGoesOn`,
`ReportsEnd`), which the prover does not do.  Every invariant and every step property of the
passing runs is a theorem.

## 5. Plan

1. Done: the bridge and its abstract exchange, the mesh memory, the clock, the
   wifi; then the web server composed with the mesh task, the messages of the app
   in front of the wifi, the clock module's driver under the clock, the report
   pipeline and its abstract log; with the theorems of section 4.
2. Done: the answers of the bridge and the refinement of the exchange; the
   calendar, the registers and the texts of the clock module.
3. Done: what `strtok_r` makes of the text of a message, for every text, and with
   it the settings that are as they were sent.
4. To be modelled: the average of the levels, with the unsigned divisions, once
   the code has a file to write it to.

## 6. Not modelled

* `/upgrade` (empty, not registered), `begin_task`, `_device_response_string`,
  `get_ssid_list`, the reading buffer of the reports, `clear_file` and the reading
  of files, the MAC conversions: they do nothing, or nobody calls them.
* The levels in a report and their average: the writer has no file pointer, and
  the values have no effect on the control.
* The event listener, the LED, logging, the wording of messages, getters: no
  state that another part reads.
* The thermometer, and the three other clock chips of the library; SPI, generic
  registers and bus set-up of the bus library: the gateway does not use them.
* STA mode without an access point (no message asks for it), operations of NVS
  that fail, and the address of the network interface (`esp_netif_set_ip_info`).
* What a text that is too long for its place writes over, beyond the settings and
  the halts above; `_wait_for_ok` copies a reply into ten bytes
  (`async_server.cpp:158`).
* Stack and heap sizes, allocation failures.
* Partial messages on the line (a read that times out in the middle of one)
  appear only as the cut of the flush.  The one-core schedule appears as the order
  in which the mutex is handed over, not as a ban on other interleavings, which
  are a superset of what one core does.
