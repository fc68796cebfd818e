# A TLA+ verification of SprinklerD

SprinklerD (`src/`) is a daemon that waters a garden from a Raspberry Pi: it
opens irrigation valves over GPIO pins, one zone at a time, each for a number
of minutes, with a master valve or pump beside them. It is driven by HTTP, MQTT
and Domoticz requests, by a crontab it writes itself, by rain reports, and by
the clock. Its README calls it "small, efficient and fail safe". This directory
says what "fail safe" means for the code as it is written, checks it with TLC on
small instances, and proves the core of it with TLAPS for every instance.

Run in this directory: `tlc -workers 2 -config zones.cfg MCSprinkler` checks a
run, `tlapm SprinklerProofs.tla` checks proofs.

## 1. Inventory

### Components

| Component | Source | State it keeps | Operations |
|---|---|---|---|
| Zone controller | `zone_ctrl.c`, `zone_ctrl.h` | the pins; `currentZone` (type, zone, duration, started_time, timeleft) | `zc_zone`, `zc_check`, `start_next_zone`, `zc_update_runtime`, `zc_rain_delay_enabeled`, `zc_master`, `zc_start`, `zc_stop` |
| Rain delay and sensors | `sd_cron.c:14-127` | `delay24h`, `delay24h_time`, `calendar`, the three `precip*` limits, today's chance and total | `enable_calendar`, `enable_delay24h`, `reset_delay24h_time`, `check_delay24h`, `setTodayChanceOfRain`, `setTodayRainTotal` |
| Cache file | `config.c:28-129` | one file: calendar, delay, its end, limits, default runtimes; how the root is mounted | `write_cache`, `read_cache`, `remount_root_ro` |
| Calendar and crontab | `sd_cron.c:129-297`, `net_services.c:602-624` | `cron[7]` (hour, minute, runtime of each zone), `cron_update`, `/etc/cron.d/sprinklerd` | `calcfg` request, `check_cron`, `write_cron`, `read_cron` |
| Request dispatch | `net_services.c:428-840` | none of its own | `serve_web_request`, `action_mqtt_message`, `action_domoticz_mqtt_message` |
| Publishing | `net_services.c:81-127,197-426`, `config.h:139-152` | `updateEventMask`; the Domoticz value cache `dz_cache` | `setEvent*`, the `broadcast_*` functions, `check_dz_cache`, `update_dz_cache` |
| MQTT client | `net_services.c:855-1042` | `_mqtt_status`, the connection | `ev_handler`, `check_net_services`, `start_mqtt` |
| Main loop, start, end | `sprinkler.c` | the process | `main`, `main_loop`, `intHandler`, `event_trigger` |
| GPIO | `GPIO_Pi.c` | pin modes and levels; the list of registered input pins, a thread that polls them and a thread for each | `pinMode`, `digitalRead`, `digitalWrite`, `validGPIO`, `registerGPIOinterrupt`, `gpioShutdown`; the program `gpio_monitor` |
| Configuration | `config.c`, `release/sprinklerd.conf`, vendored `minIni/` | `_sdconfig_`, filled once | `readCfg` |
| JSON, Home Assistant | `json_messages.c`, `hassio.c` | none | they format what they read |
| Utilities | `utils.c` | the log | logging, daemonising, `str2int`, remounting the root file system |
| Vendored | `mongoose.c`, `minIni/` | sockets | `mg_mgr_poll` delivers one callback at a time |
| Web pages, samples | `web/`, `demo/`, `extras/`, `release/`, `tmp/`, `*.old` | none | clients and dead code |

### How they interact

One thread does everything that matters. `main_loop` (`sprinkler.c:302-333`)
calls `mg_mgr_poll(500)`, which runs the HTTP and MQTT handlers one after the
other; a handler calls straight into the zone controller and the rain delay.
Then the loop body runs `check_cron`, then `zc_check` and (only if that did
nothing) `check_delay24h`; any of the two, or a bit in `updateEventMask`, makes
it broadcast. So a handler or a loop body is atomic with respect to the other,
and interleavings are of whole handlers and loop bodies. Three things break in:
a signal, whose handler (`intHandler`) closes the pins and writes the cache
from wherever the main thread was; `kill -9` or a loss of power; and the threads
of the input pins (`GPIO_Pi.c`): one polls the levels and wakes the thread of a pin
that has changed, which calls the function registered for it. In the daemon that
function runs a command of the configuration file; in `gpio_monitor` it prints the
level.

Cron sends the schedule to the daemon as ordinary HTTP requests (`type=cron`),
and a reset of the rain sensors at midnight. The rain delay reaches into the
zone controller (`zc_rain_delay_enabeled`) and the controller reads the delay
(`zc_zone` refuses a scheduled start under it). Everybody raises event bits; the
broadcasts clear them, and some of them only when MQTT is connected.

### What is hard here

The hazards, each at its line, are listed in `PROJECT.json`. In groups:

* **Pins against bookkeeping.** A valve is closed by the timer only if it is the
  one `currentZone` names. Zones are switched on and off along many paths
  (single, cycle, scheduled, rain delay, a refused pin, zone 0), each of which
  writes both.
* **The master valve** is switched apart from the zones on every path.
* **The cycle** restarts the timer from three places: the loop, the request that
  turns one zone off, and the start of the cycle.
* **The delay** lives in two variables, in the cache, and in the scheduled run it
  must end; a signal can find it half-changed, and the cache reads its end back
  through a float.
* **Publishing.** A handler that forgets an event bit leaves the home automation
  hub with a state that is no longer true.
* **The hub.** Domoticz answers each message on the topic on which its users
  speak, and only the value in `dz_cache` tells an answer from a request.
* **The cache file** has no names, a separator that can also be a value, and is
  emptied before it is written, on a file system that is remounted around it.
* **The input pins.** The polling thread signals without a lock; a signal that
  finds nobody waiting is lost.
* **The end of the process.** Nothing closes the valves of a killed daemon but
  its next start.

### What makes each component correct

* Zone controller: at most one zone is open; an open zone is the one being timed;
  the master valve is on with a zone, and only then; a cycle visits the zones in
  order; every valve closes.
* Rain delay: no scheduled run waters during a delay; a delay has an end and ends,
  at the time it was set for whatever the daemon restarts in between;
  a manual run survives it; it lasts as long as was asked.
* Cache: at every instant it holds the delay that is in force; a start brings back
  what it was last closed with, a stop by signal keeps every value, and the root is
  left mounted as the machine mounts it.
* Publishing: a client is told every change, or an event bit is pending. Once all
  messages have arrived the Domoticz hub shows the daemon's switches, no echo of the
  last value is taken for a request, and what a user switches is done.
* Input pins: a change that can be noticed is shown, whatever was lost before it.
* Calendar and crontab: the file is written once edits stop, holds each scheduled
  zone once, starts a zone when the one before it is done, and reads back as the
  calendar it was written from; every zone waters as long as the calendar shows,
  unless something else changes its own run.
* MQTT client: at most one connection, and a lost one is always found out and
  opened again.

## 2. The modules

| Module | Models |
|---|---|
| `ZoneCtrl` | `zone_ctrl.c`: the pins, the run, its time |
| `RainDelay` (extends it) | `sd_cron.c:14-127` and the cache file of `config.c` |
| `Sprinkler` (extends that) | requests, the loop body, publishing, MQTT, signals, kills, restarts, time; `Spec` and `FairSpec` |
| `Garden` | the abstract specification: one valve, one pump, one delay, each switched in one step |
| `SprinklerRefines` | the refinement mapping from `Sprinkler` to `Garden`, and `ImplementsGarden` |
| `Schedule` | `sd_cron.c:129-297` and the `calcfg` request: the calendar, its crontab, the delayed write, the reading back |
| `WateringDay` (extends it, instantiates `ZoneCtrl`) | a day of the calendar, from its crontab by cron and the `type=cron` requests to the valves; `DaySpec` and `FairDaySpec` |
| `MqttClient` | `_mqtt_status` over all MQTT connections, the broker and the network: `ev_handler`, `check_net_services`, `start_mqtt`; `Spec` and `FairSpec` |
| `Domoticz` (extends `RainDelay`) | the daemon, a Domoticz hub and the two queues of messages between them: `check_dz_cache`, `update_dz_cache`, the Domoticz half of `broadcast_*`, `action_domoticz_mqtt_message` |
| `CacheFile` | `write_cache`, `read_cache` and the remount of the root, in the steps between which the process can end |
| `GpioInputs` | the input pins of `GPIO_Pi.c` with their threads, as the daemon and `gpio_monitor` use them; `Spec` and `FairSpec` |
| `MCSprinkler`, `MCWateringDay`, `MCMqttClient`, `MCDomoticz`, `MCCacheFile`, `MCGpioInputs` | values of the constants for TLC |
| `RainDelayProofs` (also of `ZoneCtrl`), `SprinklerProofs` (also of `SprinklerRefines`), `ScheduleProofs`, `WateringDayProofs`, `MqttClientProofs`, `DomoticzProofs`, `CacheFileProofs`, `GpioInputsProofs` | the proofs |

`ZoneCtrl` and `RainDelay` define operations as predicates on the step, one for
each C function that changes state, with the caller's own effects left to the
caller; `Sprinkler` composes them, one action for each kind of request, and one
for the loop body. The proofs follow the same layers. `Schedule` shares no
variable with them: what it produces, a line of the crontab, reaches the daemon as
a `type=cron` request. `Sprinkler` allows these at any time, for any zone; `WateringDay`
composes `Schedule` and `ZoneCtrl` and has cron send the lines that are there, when
they are due. `MqttClient` looks into
what `Sprinkler` has as one bit, `mqtt`; `CacheFile` into what it has as one step, the
write of `cache`. `Domoticz` composes the same operations of `ZoneCtrl` and
`RainDelay` as `Sprinkler` does, with a hub that answers.

### State

| Variable of `Sprinkler` | Code |
|---|---|
| `open` | the zones (0 is the master valve) whose pin reads `on_state` |
| `cur` | `currentZone.type`, `.zone`, `.duration` |
| `elapsed` | now - `currentZone.started_time`; 0 without a run. `timeleft` is recomputed before each use and is not state |
| `runtime` | `zonecfg[z].default_runtime` |
| `calendar`, `delay24h`, `limits`, `rainTotal` | the fields of `_sdconfig_` |
| `delayLeft` | `delay24h_time` - now; -1 once past, -2 (`NoEnd`) for the value 0 |
| `asFloat` | whether `delay24h_time` came from `read_cache`, which reads it with `%f` and so rounds it once |
| `cache` | the cache file |
| `events` | `updateEventMask` as a set of bits |
| `mqtt` | an MQTT connection that the broker has accepted |
| `proc` | the process is up, stopped by a signal, or killed |
| `stale` | history: the MQTT topics whose last message is not the state any more |
| `asked` | history: the end the delay was last given, kept as `delayLeft` is; no action depends on it |

| Variable of `Schedule` | Code |
|---|---|
| `cron` | `_sdconfig_.cron[7]` |
| `pending` | seconds since `cron_update`; `NoUpdate` when that is 0 |
| `crontab` | `/etc/cron.d/sprinklerd`, as the set of its lines for each day: the whole lines of zones (`runs`), the piece of a line that `read_cron` takes all the same (`tail`), the commands (`before`) |
| `whole` | whether that file ends with the end of a line |
| `proc` | up or down |
| `lost` | history: the last write met a file that could not be opened |

| Variable of `WateringDay` beside those of `Schedule` and `ZoneCtrl` | Code |
|---|---|
| `today`, `minute` | the day of the week and the minute of the day, or `Night` |
| `due` | the requests that cron has sent and the daemon has not handled |
| `watered` | history: the minutes each zone has watered for a line of the crontab |
| `spoiled`, `troubles` | history: the zones whose scheduled run something else has disturbed; how often anything could |

| Variable of `MqttClient` | Code |
|---|---|
| `status` | `_mqtt_status` |
| `conn` | how far each `struct mg_connection` has come through the events of `ev_handler` |
| `cut` | connections that broker or network have ended, before `MG_EV_CLOSE` |
| `session` | the connection the broker serves under the client ID |
| `refused` | history: a CONNECT was refused |

| Variable of `Domoticz` beside those of `RainDelay` | Code |
|---|---|
| `dzCache` | `dz_cache`, the last value sent of each switch that has a slot |
| `hub` | what the hub shows of each switch |
| `toHub`, `toDaemon` | the messages on `domoticz/in` and `domoticz/out` |
| `up` | the MQTT connection, from `MG_EV_CONNECT` on, from when on the daemon publishes |
| `heard` | whether `MG_EV_MQTT_PUBLISH` would handle a message ("yes"), ignore it, or not get it before the CONNACK ("no"): `_mqtt_connected_time`, and the `message_id` that mongoose has in its `struct mg_mqtt_message` |
| `missed`, `crowded` | history: a message was lost with a connection, or one of a user was ignored; two handlers changed a switch before the loop body published |

| Variable of `CacheFile` | Code |
|---|---|
| `mem` | the cached fields of `_sdconfig_`: six values and a runtime for each zone |
| `file` | the cache file, the sequence of its numbers |
| `pc`, `writing` | how far `write_cache` or `write_cron` has come |
| `state` | the local variable `state` of `write_cache`: the root was read-only |
| `root`, `boot` | how the root is mounted, and how the machine mounts it |
| `saved`, `trouble` | history: the values the file was closed with; what has gone wrong since the boot |

| Variable of `GpioInputs` | Code |
|---|---|
| `main`, `next` | how far `main_loop` or `gpio_monitor` is in registering its pins |
| `list`, `lastValue` | `_GPIOinterupts` |
| `ever` | `_ever`: the threads are to go on |
| `poll`, `at` | where the polling thread is, and at which pin |
| `handler` | where the thread of each pin is |
| `level`, `shown` | the level of the pin, and the one its function has last read |
| `hasty` | history: the last change of the pin came when it could not be noticed |

Time is relative, so that TLC's state space is finite. A tick is a second of the
model; `SEC2MIN`, 60 in the code, is 1 or 2 in the runs. `elapsed` stops counting
at `MaxElapsed`, which is past the end of every run (`ElapsedAssumption`), so
nothing can tell it from a larger value; `pending` stops when the write is due.
Event bits are a set. Rain totals and limits are in hundredths of an inch; the
cache prints a limit with one decimal, and `Tenths` does what that does to it.

### Actions of `Sprinkler`

`Request` is any HTTP, MQTT or Domoticz request that changes state, with the
parameters the dispatcher lets through, and `RefusedRequest` for those it
answers with an error but still raises an event bit. `LoopPass` is the body
of the main loop in its four outcomes (a zone is done; the delay is over; an
event is pending; idle, with its occasional refresh). `MqttUp` and `MqttDown` are
the connection, the first with the broadcast of `MG_EV_MQTT_CONNACK`. `Tick` is
the clock. `Stop` and `StopInDelayHandler` are `intHandler` between two steps
and inside the delay functions; `Crash` is a kill or a loss of power; `Restart`
is `main` with `read_cache` and the pin setup of `main_loop`. `Init` is the first
start with a configuration file and no cache.

### Actions of `Schedule`

`Edit` is a `calcfg` request: a runtime of a zone, a start time of a day, a day
removed, or one that is refused; all of them, the refused one too, set
`cron_update` and so put off the write. `CheckCron` is `check_cron` when the write
is due: `write_cron` replaces the file, or cannot open it, and the update is
forgotten either way. `Tick` is the clock. `End` is a signal or a kill between two
steps (`intHandler` saves the cache, not the calendar), `EndInWrite` one in the
middle of `write_cron`, which leaves the beginning of the new file, cut between two
lines or anywhere in one (`Cuts`, `Torn`): what `fprintf` has written reaches the file
in buffers, and at `exit`. `Start` is
`read_cron`. The arithmetic of `write_cron` (start times, carry, midnight, the
run-before lines) and the two-digit pattern of `read_cron` are operators.

### Actions of `WateringDay`

`ByNight` is a step of `Schedule`. `Dawn` begins a day with its first line. `Minute`
is the clock, which goes on when the daemon has done what there was to do: the
loop body comes twice a second. `CronRequest` is a request of cron, heard or not;
`LoopPass` the loop body; `OtherRequest` any other request, which may change or end the
scheduled run; `EndByDay` and `StartByDay` a signal or a kill and the next start.
`Dusk` is the end, when nothing is left to happen on this day. Of a file that does not
end with a whole line cron may run the whole lines or, as Debian's cron does, nothing.

### Actions of `MqttClient`

`StartMqtt` is `check_net_services` finding `mqttstopped` and `start_mqtt` opening a
connection. `Connect`, `Connack` and `Close` are the events of `ev_handler`, and
`ConnectFailed` is a connect event with an error, which the handler does not look
at, with the close that follows it. `Accept`, `Refuse` and `Drop` are the broker and
the network. A broker that accepts a second connection under the same client ID
ends the first, which MQTT requires of it; the end reaches the client later.

### Actions of `Domoticz`

`LocalRequest` is any request that does not come from the hub. `Receive` is
`MG_EV_MQTT_PUBLISH` of `ev_handler`: a message is ignored in the first second after the
CONNACK and when it has a message id (`net_services.c:953-965`), or goes to
`action_domoticz_mqtt_message` (`Handle`). `ReadAck` is a PUBACK at the front of a read,
whose id the messages behind it inherit; `ReadOn` the next read, or the end of the first
second. `LoopPass` is the loop body with its broadcast, `MqttConnect` is `MG_EV_CONNECT`,
after which the loop body publishes already, `MqttUp` the CONNACK with its subscription
and its broadcast, `Tick` the clock of a run. `HubReceive` is the hub taking a message
and answering it, `UserSwitch` a user of the hub, and `MqttDown` the loss of the
connection with everything on its way.

### Actions of `CacheFile`

`Change` is whatever changes the values. `BeginWrite` (the remount), `OpenFile` or
`OpenFailure`, `CloseFile` and `EndWrite` are the steps of `write_cache`, and of
`write_cron` around the same file system. `Stop` is `intHandler` at any of them,
which writes the file once more, from within; `StopUnsaved` is the same when it cannot
or is killed over it; `Kill` and `PowerLoss` speak for themselves; `Start` is
`readCfg` and `read_cache`, with the same zones or more of them.

### Actions of `GpioInputs`

`PrintLevel`, `RegisterGPIOinterrupt` and `SetupDone` are the main thread;
`GpioShutdown` and `Exit` a signal and what follows. `Poll` is a step of the polling
thread (`interruptHandler`): the next round, the thread of a new pin, the comparison,
the signal. `Handle(p)` is a step of the thread of pin p (`GPIOinterruptHandler`):
the test of its loop, the wait, the waking up, the call. `Unasked(p)` is a spurious
return of `pthread_cond_wait`, which POSIX allows, and `Change(p)` is the world.

### Abstractions

* A GPIO pin is on or off. A pin number `validGPIO` refuses (`ValidPin`) cannot
  be switched; a valid one always obeys, which is what the memory-mapped
  back end does.
* Requests are already parsed: types, zones and lengths are drawn from constants.
  A flip is one of on or off. In `Sprinkler` a Domoticz message is an MQTT one;
  which of them are echoes is the matter of `Domoticz`.
* Texts, remaining times and names of topics are left out; of the MQTT topics
  the model knows whether they tell the truth about the open pins, runtimes,
  switches and the run.
* Between the connect event and the CONNACK the code already publishes on the
  connection; `Sprinkler` has it publish from the CONNACK on, which publishes all
  topics again but the active zone.
* The clock does not jump. On a machine without a real-time clock it does, when
  NTP first answers, and a run then ends early or late.
* Without a master valve `zonecfg[0]` is not initialised; no request in the
  model names zone 0 then (`RequestAssumption`).
* `reset` requests carry an end in the future or none. The code takes any number:
  an end in the past is a delay that ends at the next pass, and a negative one, which
  `reset_delay24h_time` takes as an `unsigned long` (`sd_cron.c:114`), or one in the far
  future is a delay that never ends.
* In `Sprinkler` the cache file is written in one step; `CacheFile` has the steps.
  There the file is empty or complete: the numbers of one configuration are far
  shorter than the buffer of `fprintf`, so they reach the file at `fclose`. A missing
  file reads like an empty one. Rain amounts are whole inches, and read back exactly.
* A day of `WateringDay` is not edited, and what it leads to ends with it. Its clock has
  minutes: a request of cron is handled in the minute in which it is sent, which is as
  exact as the crontab itself. `spoiled` sets apart, by their causes, the zones that
  something other than the schedule has kept from their time.
* In `Domoticz` the subscription is in force from the CONNACK on: what the hub says
  between the CONNACK and the SUBSCRIBE that answers it would be ignored in any case, as
  it falls in the first second, unless the network takes longer than that. A rain delay
  does not end there, and `crowded` sets apart what two handlers
  between two loop bodies do; the other switches of the hub are zones, and behave
  alike.
* `GpioInputs` registers pins for both edges. The function it calls is that of
  `gpio_monitor`: the daemon's `event_trigger`, with its wait of a second
  (`sprinkler.c:405`), is never reached, as the daemon exits before (finding 4).

## 3. The runs

Each property is a definition of the module it is about (those of `Sprinkler` in
`Sprinkler.tla` and `SprinklerRefines.tla`), with the reason beside it.

| Run | Instance | What it asks |
|---|---|---|
| `zones` | 3 zones and master, the second zone on a refused pin; runtimes 0 and 1, minutes of 2 ticks; MQTT up and down | `TypeOK`, `OneZone`, `ValveIsTimed`, `MasterDuringRun`, `MasterWithZone`, `PublishedOrPending`, `CycleInOrder` |
| `rain` | 2 zones, all rain requests, two sets of limits, totals below, between and above them, kills and restarts | `DelayStopsSchedule`, `DelayHasEnd`, `DelaySparesManualRuns`, `ImplementsGarden` |
| `live` | 2 zones, signals everywhere, kills, power losses, restarts; ends of delays rounded by up to a tick; fairness | `ValveIsTimed`, `DelayIsSaved`, `EndIsKept`, `ValvesClose`, `CyclesEnd`, `ChangesArePublished`, `DelaysEnd` |
| `calendar` | one day, 3 zones, runtimes of 10 minutes, cut to 1 or not, a start whose runs fill the hour and one whose runs cross midnight, a command 50 minutes before; writes that fail or are cut short anywhere, restarts, fairness; then the day, with one other request or restart | `TypeOK`, `CrontabIsCalendar`, `ZonesFollowOneAnother`, `CommandsRunBeforeStart`, `WateredAsPlanned`, `EditsAreWritten` |
| `mqtt` | four connections, a broker that may refuse, connects that fail, drops with and without the CONNACK, fairness | `TypeOK`, `NeverDeaf`, `OneConnection`, `ComesBack`, `Settles` |
| `domoticz` | a zone, the master valve and the cycle, with a slot for two of them; up to 3 messages on their way; lost connections | `TypeOK`, `HubAgrees`, `LastEchoIsIgnored`, `UserIsObeyed` |
| `cache` | up to 3 zones, two sets of values, one with a limit of -1; read-only and writable roots, every failure | `TypeOK`, `RestartRestores`, `StopKeepsValues`, `RootAsBooted` |
| `inputs` | `gpio_monitor` with 2 pins, fairness | `TypeOK`, `ShownWhenSettled`, `EveryChangeIsShown` |
| `zone0`, `signal`, `midnight`, `input_start` | | the findings below |

Why the bounds are enough: three zones are the first number at which a cycle has
a first, a middle and a last zone and at which a zone can be skipped between two
others, and two zones are enough for one run to replace another. A minute of one
tick separates "not yet over" from "over"; two ticks are used where a run must be
caught half way. A delay of two ticks separates a delay that has just begun, one
about to end, and one over. The days of the calendar do not interact, except
that a write cut short ends on one of them. From 7:50 and 23:48 runs of 10 minutes, and
of the 1 minute that is left of a runtime cut in two, end in the hour, at 60 minutes and
past it, and before and after midnight; 50 minutes before, the hour is borrowed from
23:48 and not from 7:50. One disturbance of the day comes at every point of it. Four MQTT connections are one the
client believes in, one on its way out and two refused; a client that needs a fifth
waits in the model until one of them is closed. In `live` every run is one minute
of one tick and a delay is one tick: what its properties say of ends and restarts is
the same for longer ones, and liveness over longer ones is out of TLC's reach. There an
end read back moves by a tick at most, so two errors that add up are seen after
two starts (`EndIsKept`). That a kill leaves at most one zone open is a part of
`ImplementsGarden` in `rain`, and of `OneZoneHolds`; `zones` has no kills. In
`domoticz` the code's three slots beside the zones are one, so that one of three
switches finds none, as one of a full configuration's four does; three messages are
an echo, a request that crosses it and the answer to that. In `cache` three zones can be
one, two or three at the last write and more at the start, and the two sets of values
differ in every place. In `inputs` two pins are the first number at which the polling
thread is busy with one pin while another changes. The proofs drop these bounds for the
safety properties they cover.

In `zones` a run can be left without a valve: a start that fails on the refused
pin has closed the other zones first and leaves the old run in `currentZone`. The
master is then on with no zone open until the run's time is up
(`MasterDuringRun` holds, "only with a zone" would not); with good pins
`ImplementsGarden` excludes it.

Fairness of the daemon (`Fairness` in `Sprinkler.tla`): the loop body is reached
at least every 500 ms and after every batch of messages, so it is weakly fair. It
is also taken infinitely often at instants at which no run has just ended,
because runs last minutes: without `SF_vars(LoopPass /\ ~Expired)` a model with
minutes of one or two ticks could have every pass fall on the end of a run, and
the rain delay, which is checked only in the other passes, could be put off for
ever. The clock ticks. systemd restarts a killed daemon
(`release/sprinklerd.service` says `Restart=on-failure`), so `Restart` is fair
after a kill only; a daemon stopped by a signal exits with success, is not
restarted, and nothing about it is assumed to be live. `WateringDay` needs the loop
body (`CheckCron`) and the clock by night, and its liveness is about a process that at
some point is left up. `MqttClient` needs `mg_mgr_poll` to deliver the events, the
main loop to call `check_net_services`, and a broker that answers; its liveness is
about a network and a broker that from some point on make no more trouble (`Peace`).
`GpioInputs` needs the scheduler of the machine to run each of the threads; nothing
is assumed of the main thread, of spurious wake-ups or of the pins.

### Findings

Four runs refute something the repository says of the code:

1. `zone0`: an HTTP request that turns zone 0 off closes the master valve and
   forgets the run, but leaves the zone open, and untimed. The comment at
   `net_services.c:814` says such a request turns off any running zone, which the
   MQTT branch does and the HTTP branch does not.
2. `signal`: a SIGTERM inside `enable_delay24h`, between the flag and the end,
   saves a delay that has no end; after the restart nothing lifts it.
3. `midnight`: the daily report "chance of rain 0" that the crontab itself sends
   turns off a 48 h delay set by a rain total, however long it had to run. In TLC's
   trace a total of 60 sets a delay of two days, and the report lifts it.
4. `input_start`: with any input pin configured the daemon exits at its start,
   because `main_loop` (`sprinkler.c:283`) takes an answer other than `true` for an
   error, and `registerGPIOinterrupt` answers `GPIO_OK`, which is 0
   (`GPIO_Pi.h:131`). `gpio_monitor` compares with `GPIO_OK` (`GPIO_Pi.c:1430`).

Met while modelling and not kept as runs, because nothing in the repository
promises otherwise, or a run would add nothing, or it is outside the models:

* `zc_update_runtime` compares with `<` where `<=` is meant (`zone_ctrl.c:76`): a new
  default runtime of the last zone does not reach its run.
* `write_cron` writes the run-before commands of a day outside the test whether the
  day is scheduled: a day without a schedule gets a line with an hour of -1 or -2. A
  start shortly after midnight gives an hour of -1 as well; `Starts` has none. A cron
  that drops a file with a line it cannot read, as Debian's does, then waters nothing.
* The Domoticz hub: the code has three slots beside those of the zones for four idx
  (`net_services.c:99`), and a switch without a slot is published every time. A value
  lost with a connection is not sent again, as `dz_cache` has it already (`missed`). Two
  handlers that change a switch to and fro before one loop body send nothing, so a user's
  request that is refused, or undone at once, leaves the hub with what the user set
  (`crowded`). The echo of an older value is acted on: a switch may flap.
* What a user of the hub switches in the first second of a connection is ignored, and
  the hub is not told (`net_services.c:957`). The other guard, against "my own message"
  (`net_services.c:962`), is for the daemon's echo of itself, which comes back with QoS 0
  and so without an id. What has one is a message that was read together with the SUBACK
  or with a PUBACK in front of it: mongoose sets `message_id` once for a read
  (`mongoose.c:10786`), and a message without an id leaves the one that is there. A user's
  switch that arrives so is ignored as well. Both are `heard`, and `missed` sets apart
  what follows.
* A crontab that an end of the process cuts inside a line is read back with that line,
  if a digit of its runtime is there, perhaps with a shorter runtime; cron does not run
  it, and Debian's does not take such a file at all. The calendar then shows more than is
  watered, until the next edit (`whole`).
* A chance limit of -1 is accepted from HTTP and reads back as the separator of the
  cache file; `RestartRestores` says what survives it.
* When `fopen` fails, `write_cache` makes the root read-only though it was writable,
  and a signal or a kill in the middle of a write leaves a read-only root writable.
  Nothing is synced: a loss of power can take the last write with it.
* More runtimes in the cache file than zones in the configuration are written past
  the end of `zonecfg` (`config.c:112`); `Start` never has fewer zones. A chance limit of
  -1 has the two rain limits behind it taken for the runtimes of zones 1 and 2, so with
  one zone the second is written past the end as well (`config.c:100`); `ReadRuntime`
  leaves out what falls behind the last zone. A file that
  holds something other than numbers keeps `fscanf` in its loop for ever.
* `intHandler` calls `fopen`, `printf` and `malloc` from a signal.
* At a shutdown each input thread frees its node of the list (`GPIO_Pi.c:911`) while
  the polling thread may still walk it. An `INPUT` whose pin is not valid leaves
  an entry that is not filled, which `main_loop` registers all the same.
* `is_value_ON` answers -1 for a value it does not know, which `enable_calendar` and the
  cycle take for on (`net_services.c:428`).
* The topics at `README.md:178-185` differ from those that `net_services.c` matches.
* A runtime above 60 minutes gives the next zone a minute of 60 or more, as the
  carry is done once (`sd_cron.c:170-175`): `ZonesFollowOneAnother` fails with
  `Runtimes = {0, 70}`. A runtime of three digits is read back as its first two
  (`sd_cron.c:228`): `CrontabIsCalendar` fails with a runtime of 120. The web page
  offers neither, a `calcfg` request is not checked.
* `README.md:209` describes the default runtimes of a new day; `calcfg` leaves
  whatever runtimes the day had (`net_services.c:615`).
* A crontab that cannot be opened is not tried again: `check_cron` resets
  `cron_update` whatever `write_cron` did. `lost` sets these states apart.
* After one refused CONNACK the MQTT client may never settle again. The refused
  connection is not closed; a second one is opened and accepted; the close of the
  first then sets `mqttstopped` (`net_services.c:933`) while the second is up, a third
  is opened under the same client ID, the broker ends the second for it, and that
  end sets `mqttstopped` again. `Settles` fails without its premise `[]~refused`;
  `ComesBack` holds with refusals, as each of these connections is up for a while.
* The test `time > 0` at `net_services.c:609` compares the address of the C function.

## 4. The proofs

The first table has theorems about `Spec` of `Sprinkler`, for every number of zones,
every set of runtimes, lengths, delays, limits and valid pins, with or without a
master valve, and is proved in `SprinklerProofs`:

| Theorem | States | Besides the assumptions of the modules |
|---|---|---|
| `TypeCorrect` | `[]TypeOK` | |
| `OneZoneHolds` | `[]OneZone` | |
| `MasterDuringRunHolds` | `[]MasterDuringRun` | |
| `DelayStopsScheduleHolds` | `[]DelayStopsSchedule` | |
| `DelayIsSavedHolds` | `[]DelayIsSaved` | |
| `EndIsKeptHolds` | `[]EndIsKept` | |
| `ValveIsTimedHolds`, `MasterWithZoneHolds` | `[]ValveIsTimed`, `[]MasterWithZone` | no request names zone 0 (`0 \notin RequestZones`): finding 1 is the counterexample otherwise |
| `DelayHasEndHolds` | `[]DelayHasEnd` | no signal inside a delay handler (`~Interrupts`): finding 2 |
| `CycleInOrderHolds` | `CycleInOrder` | |
| `PublishedOrPendingHolds` | `[]PublishedOrPending` | a master valve on a valid pin |
| `DelaySparesManualRunsHolds` | `DelaySparesManualRuns` | |
| `ImplementsGardenHolds` | `ImplementsGarden` | `0 \notin RequestZones`, `~Interrupts`, a master valve and valid pins (`GoodPins`) |

The calendar, for any number of zones, any start times, any commands to run before,
writes that fail or are cut short, and restarts, in `ScheduleProofs` about `Spec` of
`Schedule` and in `WateringDayProofs` about `DaySpec` of `WateringDay`:

| Theorem | States | Besides the assumptions of the modules |
|---|---|---|
| `TypesHold` | `[]TypeOK` | |
| `CrontabHolds` | `[]CrontabIsCalendar`: the calendar is what the lines of the file say, and what cron runs if the file ends with a whole line | runtimes of 99 minutes at most: `read_cron` takes two digits of a runtime (`sd_cron.c:228`) |
| `ZonesHold` | `[]ZonesFollowOneAnother` | runtimes of 60 minutes at most: `write_cron` carries one hour (`sd_cron.c:170`) |
| `CommandsHold` | `[]CommandsRunBeforeStart` | every start time leaves room for the commands in its day, and no command goes back past the hour before the hour of the start: the code borrows one hour (`sd_cron.c:185`) |
| `WateredHolds` | `[]WateredAsPlanned`, of a file that ends with a whole line | runtimes of 60 minutes at most, every zone on a valid pin |
| `DayIsSchedule` | `DaySpec => Spec`: the four theorems above hold with the days in between | |

None of these bounds is enforced by the code: `calcfg` takes any `int`. They are what
the code needs, and the theorems say that nothing else is.

`DomoticzProofs` has, about `Spec` of `Domoticz` for any number of zones, slots and
messages on their way:

| Theorem | States | Besides the assumptions of the modules |
|---|---|---|
| `DomoticzTypesHold` | `[]TypeOK`, and with it that `dz_cache` never has more devices than slots | |
| `LastEchoIsIgnoredHolds` | `LastEchoIsIgnored` | |
| `UserIsObeyedHolds` | `UserIsObeyed` | `GoodGarden`: a master valve, a valid pin for every zone and runtimes above 0 |
| `HubAgreesHolds` | `[]HubAgrees` | `GoodGarden` |

With a bad pin or a runtime of 0 the daemon refuses what a user of the hub switches, and
without a master valve a cycle that ends with nothing to close raises no bit: the hub is
not told in either case.

`MqttClientProofs` has, about `Spec` of `MqttClient` for any number of
connections: `TypesHold` (`[]TypeOK`), `NeverDeafHolds` (`[]NeverDeaf`) and
`OneConnectionHolds` (`[]OneConnection`).

`CacheFileProofs` has, about `Spec` of `CacheFile` for any number of zones, any values
and any failures: `TypesHold` (`[]TypeOK`), `RestartRestoresHolds` (`RestartRestores`),
`StopKeepsValuesHolds` (`StopKeepsValues`) and `RootAsBootedHolds` (`[]RootAsBooted`).

`GpioInputsProofs` has, about `Spec` of `GpioInputs` for any number of pins, valid or
not, and both programs: `TypesHold` (`[]TypeOK`) and `ShownWhenSettledHolds`
(`[]ShownWhenSettled`).

The invariant that those of `SprinklerProofs` rest on, `Inv`, adds to the promises what they silently need:
that the master pin is only ever on when there is a configured master with a
valid pin (`MasterIsDriven`; without it a restart would not close it), and that
while the process is up the run and the pins agree (`RunInv`), no scheduled run
waters in a delay, and the cache holds the delay. None of the promises is
inductive alone: `OneZoneOpen`, say, survives `zc_check` only because
the zone it closes is the one that is open. `Timed` and `EndInv` strengthen it for
the theorems with an extra assumption.

The proof is layered as the modules are. `RainDelayProofs` shows of each operation
of the controller that it keeps `RunInv` and `TimedInv` (`StartNextZoneKeeps`,
`ZoneDoneKeeps`, ..., joined in `ZcZoneKeeps`), and of each
operation of the delay that it either leaves the run alone or ends a scheduled
one and that it saves what it changes (`Kept`); `SprinklerProofs` has one lemma for
each action (`RequestKeeps`, `LoopPassKeeps`, `TickKeeps`, ...), joined in
`NextKeeps`. `CycleInOrderHolds` is an action property: `StartNextZone` picks the
least runnable zone above its argument, and its callers pass the current zone.

`EndIsKept` compares the end of the delay with the one it was given, with any number
of stops, kills and starts in between. What the daemon has read is not what was written,
and a stop writes it again, to be read again. The errors do not add up because an end
that was read is a float and comes back unchanged (`asFloat`). The inductive invariant,
`KeepInv`, says of the end in memory and of the one in the file that each is within one
reading of the one that was given, and exactly that one until it has been read; with
`DelayIsSaved` in its place a stop and a start could add an error each time. It rests on
`StepSaves`: whatever changes the delay writes the file in the same step.

The refinement sees the pins only: every operation on the run opens exactly one
zone with the master, closes everything, or leaves both the pins and the type of
the run (`RunMoves`), and every operation on the delay leaves the run or, when it
sets the delay, ends a scheduled one (`DelayMoves`). That the pins always are
`{}` or `{0, z}` (`OneWithMaster`) is the invariant it adds to `Inv`. Through a
kill and a restart the abstract delay is the one in the cache file, which is where
`Saved`, a part of `Inv`, is needed.

`PublishedOrPending` needs to know that whatever changes a topic raises a bit of it.
The bits are raised by the pins (`zc_start`, `zc_stop`), so a run that ends without
switching one would be kept from the clients. `RunHasMaster`, the master is on
during every run, is what the proof adds to `Inv`: with it every end of a
run switches the master at least. Without a master valve, and with a refused pin,
the property is false: turning off a cycle that is on none of its zones any more
switches no pin and raises no bit.

The start times of a day are a recursive function over the zones. Induction as the
library states it takes an operator as its parameter, so `ScheduleProofs` has it for
sets: a set of naturals with no least element is empty (`LeastOf`), from which a set with
1 and the successor of each of its zones holds every zone (`ZoneInduction`), and a
recursion over the zones has a solution (`ZoneRecursion`). The inductive invariant,
`Inv(limit)` for runtimes up to a limit, says of the file that it is always the beginning
of what `write_cron` makes of some calendar (`Written`), the last whole write or one cut
short, and that a clean process has that calendar. A line cut in two is one that
`write_cron` would have made of a shorter runtime (`TornIsALine`), so that a file cut
inside a line is the beginning of another calendar's. The key lemma is `RoundTrip`: what
`read_cron` makes of the first lines of a day has these lines and no others for its
calendar. Read back, the start is that of the first line, the zones without a line get no
time, and the start of each zone that has one comes out the same, by induction.

`WateredAsPlanned` looks at the end of a day. Its invariant, `DayInv`, says at each moment
what the day has done so far (`OnTime`): a zone whose line has not been sent has not
watered; one whose line has been sent waters for it, with as many minutes behind it as the
clock says (`IsRunning`), or has watered as long as the line says (`HasRun`). A line
that begins its run ends the one before it whether or not `zc_check` has passed since
that one's time was up; that nothing is lost then is `Orderly`, each line of a day is over
when the next begins, which comes from `BeginIsStart`: hours and minutes with one
carry are the sum of the runtimes before. What disturbs the day keeps `OnTime` of every
zone that it does not spoil (`TroubleKeeps`).

In `Domoticz` the order of a broadcast is a sequence made of a set, by the number of
smaller members (`Before`, `InOrder`). `LastEchoIsIgnored` needs that the newest message about a
device with a slot, on its way to the hub or back, says what `dz_cache` has for it
(`NewestIsCached`). `UserIsObeyed` needs in addition that after a CONNACK `dz_cache` is up to
date when no event waits (`Fresh`), and that nothing is handled before one (`HeardWhenUp`). `HubAgrees` says nothing of the states in which messages cross; what
holds in all of them is that the hub will come to show what `dz_cache` has, or the
daemon is yet to hear of a user's switch that makes up for it, or has changed and is yet
to publish (`CachedAgree`, `UncachedAgree`).

`OneConnection` is not inductive: nothing in it says that the client looks for a
connection only when it has none. `NeverForgets`, the converse of `NeverDeaf`, says
that, and is true until the first refusal, so the invariant also has that nothing
is left of a refusal before there was one (`RefusalsAreSeen`), and that a
connection that is cut had been made (`CutIsMade`), for which the session of the
broker must be on one that is not cut (`SessionIsServed`).

`RestartRestores` and `StopKeepsValues` come from one lemma on the format,
`RoundTrip`: what `ReadCache` makes of `Contents(m)` restores m. A value comes back
when no separator stands before it (`ValueComesBack`). The runtime of a zone comes
back whatever the values are (`RuntimeComesBack`): the separator at place 7 is the
last one, because no runtime is negative, so only it leads to that runtime, and a
place behind an earlier -1 has another one in between, or is smaller, where the last
assignment wins (`MaxIsIn`). The invariant adds to `TypeOK` that the file is what
`saved` says, and that a stopped daemon has saved its memory. For `RootAsBooted` it
adds what the local variable `state` knows during a write: without trouble, that the
machine mounts the root read-only.

`ShownWhenSettled` looks at a moment at which a thread waits; its invariant
(`ChangeOnItsWay`) says where a change is at every other moment: not yet seen by
the polling thread, seen and about to be signalled, or signalled and on its way
through the thread of the pin to the call that reads the level. It also needs that
the thread of a pin outside the list does not exist (`Unlisted`), that what the polling
thread is at is in the list (in `TypeOK`), and that a listed pin was read before it
was listed (`ListIsShown`), unless the program is the daemon, which has given up then
(`GivesUpAtOnce`).

Only model-checked:

* The liveness properties: TLAPS has no means for fairness and `ENABLED`.
* That what `WateringDay` needs of the days before holds again the next day: the model ends
  with the day.

## 5. Not modelled

* `GPIO_Pi.c`: the memory-mapped registers, with the read-modify-write of a register
  that pins share; the sysfs back end, which the default build leaves out;
  `unregisterGPIOinterrupt`, which nothing calls. Of the threads, the memory that they
  free.
* `event_trigger` of `sprinkler.c`: it runs a command of the configuration file, and
  is not reached (finding 4).
* Parsing: `readCfg`, the query strings, MQTT topics, JSON. It has no state of its
  own; what it lets through is what the requests of the models draw from, and the
  configuration is the constants.
* `json_messages.c`, `hassio.c`, `utils.c`: they format what they read, and log.
* `mongoose.c`, `mongoose.h`, `minIni/`: vendored. They are more than 23,000 of the
  repository's 28,900 lines of C, so the share of the lines that the models stand for
  stays small; it is most of what `zone_ctrl.c`, `sd_cron.c` and `net_services.c` do
  to the state, and of `config.c` the cache.
* `web/`, `extras/`, `release/`, `demo/`: not the daemon. `sd_GPIO.c.old`: dead.

## 6. Plan

Done: `ZoneCtrl`, `RainDelay`, `Sprinkler`, `Schedule`, `WateringDay`, `MqttClient`,
`Garden`, `Domoticz`, `CacheFile`, `GpioInputs`, their runs, and the proofs of section 4.
Left, in order:

1. An abstract MQTT client of one bit that `MqttClient` implements until a refusal, as
   `mqtt` of `Sprinkler`, and a cache that is written in one step, which `CacheFile`
   implements while no write fails, as `cache` of `Sprinkler`.
2. `readCfg`: which configurations leave the zones, their numbers and the master valve
   as `ZoneCtrl` assumes them.
3. Days of `WateringDay` that follow one another, with a rain delay and the reports of
   midnight between them.
