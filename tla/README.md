# YOS in TLA+

YOS is a small real-time kernel for one Cortex-M3 core (STM32F103), with the
drivers and the demonstration program of its repository: a command line on a
USART, an OLED display and a temperature sensor on one I2C bus. This directory
models its kernel, mutex, ring buffer, serial port, command line, user timers,
I2C bus and the tasks that share it in TLA+, checks the models with TLC on small
instances and proves all of their safety properties with TLAPS for every
size. `PROJECT.json` lists the components, the runs, the
theorems, the hazards each property is for, the deliberate mistakes that show
that each property can fail, and for every definition the lines it stands for.

## 1. The system

| component | state | operations | talks to |
|---|---|---|---|
| task scheduler (`yos.c`) | the task table `_all_tasks` (status, countdown, stack pointer), `_CURRENT_TASK(_ID)`, `next_task(_id)`, `is_systick_trigger_by_int`, `task_id_for_next`; PRIMASK and the pending bits of SysTick and PendSV | `yos_init`, `yos_create_task`, `yos_start`, `schedule`, `yos_task_delay`, `yos_task_msleep`, `sys_tick_handler`, `pend_sv_handler` | every task calls it; SysTick and PendSV interrupt them all |
| mutex (`yos.c`, `ymutex.h`) | `owner` | `ymutex_init/lock/try_lock/unlock/deinit` | masks the interrupts, calls `schedule()` |
| ring buffer (`yringbuffer.c`) | the bytes, `start`, `end`, `current_len` | Init, Destory, Clear, PutData, GetData, GetSize, GetCurrentLen | the USART's interrupt and its readers |
| USART port (`yusart.c`) | the receive ring buffer, the peripheral's RXNE, ORE, TXE and data registers | `usart1_isr`; read, write, can_read, can_write | tasks through basic I/O |
| basic I/O (`basic_io.c`) | `_bipo`, the port | readline, write, printf | a port, byte by byte |
| command line (`cmdline.c`) | the line `_cmdline`, its arguments `_ARGV`, `_last_cmd_ret` | `do_cmdline`, `_make_args`, `_do_cmds`, the commands | basic I/O, the scheduler |
| user timers (`ytimer.c`) | `_user_timer_list`, TIM4's enable bits and flag | init, deinit, create, pause, restore, reset, destroy, remaining; `tim4_isr` | callbacks, in the interrupt, which call the same functions |
| I2C master (`yiic.c`) | the mutex, the direction of the transaction | start, select, transmit, receive, stop | the mutex; both drivers below |
| AHT20, SSD1306 | the last reading; the screen position | measure, read; draw | I2C master |
| application (`main.c`) | three tasks, the last temperature and humidity | main | all of the above |

What is hard here is not in any one function. One handler serves two masters:
`sys_tick_handler` is an interrupt and also what `schedule()` calls, and a flag
tells the two apart. The switch is requested in one exception and carried out
in another. PRIMASK is not part of a task's context. The serial port's ring
buffer is written by an interrupt and read by tasks. A mutex is four lines
whose correctness is that of the masking. The timers' interrupt walks a list
that its own callbacks change, and stands for milliseconds that may have begun
before the timer did. The command line cuts its arguments in place, in a buffer
that still holds the lines before. There are no tests in the repository, and
little of this would show in one.

For each component, what makes it correct:

* scheduler: a switch always finds a live task with a context to resume; masks
  stay with their task; a delay of n ticks ends with the n-th tick; nobody is
  starved and nobody is served twice while another waits; what must not return
  does not;
* mutex: one task inside at a time, the owner tells which, a free mutex that
  somebody waits for is taken;
* ring buffer: first in first out, only the oldest bytes are displaced, counts
  are exact, whatever the indices have wrapped to;
* USART: every byte that came in is handed out once and in order or is
  accounted for, every byte accepted is sent, calls do not block;
* I2C master: a transaction is of one task, to its device and in its direction,
  with its own bytes, and it ends;
* sensor and display: what is shown was measured, and the humidity is never
  more than one measurement older than the temperature beside it;
* sensor frames: one with bits turned over on the bus is noticed and dropped;
* user timers: a timer calls back with the interrupt after the `timeout_ms` that
  count it down, whatever else happens in the list; a call meets the timer it is
  meant for; none is passed over for good;
* command line: a line, and each argument of it, is what was typed, whatever the
  lines before have left in the buffer, and the prompt comes back.

## 2. The modules

```
YosTasks ---- the task table, the scan, the countdown        (operators)
  YosKernel ---- the kernel and the core                     (refines YosScheduler)
    YosHistory ---- with what was asked for and what was got
    YosSleep ---- with a clock of milliseconds
    YosMutex ---- with one mutex                             (refines Mutex)
  YosScheduler ---- what the kernel promises
Mutex ---- what the mutex promises
  YIic ---- transactions on the bus, with a mutex as Mutex promises
    YosApplication ---- the sensor's task and the display's on one bus
YAht20 ---- the sensor's frame: CRC, temperature, humidity   (operators)
YRing ---- struct YRingBuffer, one byte put or taken         (operators)
  YRingBuffer ---- calls of PutData and GetData              (refines BoundedFifo)
  YUsart ---- the serial port, its interrupt and its callers
BoundedFifo ---- what the ring buffer promises
YBasicIo ---- a line read and a message written, byte by byte
  YCmdline ---- the command line's task
YTimer ---- the user timers, their interrupt and its callbacks
MC... ---- instances for TLC        ...Proofs ---- theorems for TLAPS
```

**YosTasks.** `Tasks` are the slots of `_all_tasks`. `Ahead(t, u)` is the
number of steps the scan `(id + 1) % N` needs from t to u, and `FindNext` the
first candidate in that order; `Reap` is the scan's side effect, `CountDown`
and `Wake` are `_update_task_block_ticks_irq`. The loops are given as what they
compute on the whole table, because they run where nothing interrupts them.

**YosKernel.** The grain is that of the interrupts. A step of a task is a
stretch of code between two points at which an exception can be taken.
`CreateTask` and `Start` are what main does; `ShellEnter` and `ExitTask` are
`_yos_task_shell` around the task function; `Schedule` and `Delay` mask the
interrupts and are followed by `CallHandler` (`_schedule_irq`) and
`EnableInterrupts`; `EnterCritical` and `LeaveCritical` are any other masked
section of a task. `RaiseTick` is the counter, `TakeSysTick` and `TakePendSV`
are the exceptions; both keep their reset priority, so neither preempts the
other, and PendSV goes first. A pending exception goes before the next
instruction of a task (`OnCpu`). `pc[t]` is where t's context, on the core or
saved on its stack, resumes. Once the tasks run, each does anything a task may:
sleep for any number of ticks, yield, mask, exit.

**YosScheduler** knows none of this: tasks are ready, sleeping or absent, one
of them is running, and whenever the core passes on it goes to the next ready
one in the circle. The refinement puts the moment of passing on at the request
of the switch, not at the switch.

**YosHistory** adds the ticks a task asked for and those taken since, and the
tasks switched to since a runnable task last had the core. They read the
kernel's steps and do not constrain them.

**YosSleep** adds a clock: `Millisecond` steps, every
`TASK_SWITCH_INTERVAL_MS`-th of which is a tick. Steps of tasks take no time.

**YosMutex** puts the ymutex functions on the kernel. The read of the owner and
its write are separate steps inside a masked section of the kernel, so the
mutual exclusion is a consequence of the masking and not of the grain. A task
may call try, lock and deinit when it does not have the mutex, and unlock
always; it may sleep or exit while it has it. It does not lock a mutex it has:
it would wait for itself (nor does the program).

**YRing, YRingBuffer.** `PutByte` and `DropByte` are one turn of the two loops.
`YRingBuffer` has one step per byte and one for the return, between steps that
set the ring up, empty it and detach it.

**YUsart.** The peripheral (`Arrive`, `Shift`) is external. The interrupt reads
the status register, reads the data register and puts the byte, each in a step
of its own. The tasks' functions are masked sections; taking a byte out is two
steps, because `current_len` is loaded and stored by tasks and by the
interrupt. What it takes from the kernel is proved there: while the interrupts
are masked only the task that masked them runs. Bytes are named by their place
in the arrivals so that a lost, repeated or misplaced one can be told.

**YIic** stands on `Mutex`, which `YosMutex` is proved to implement, and not on
the kernel. A step of a task is one access to the peripheral or to
`current_tran_type`; the loops that wait for a flag are guards, and `Spin` is a
turn of one. The peripheral and the devices are external: requests for START
and STOP are carried out later, in that the STOP before comes first; flags are
cleared as the code clears them, SB and a left-over RxNE by writing the address,
ADDR by reading SR2. A device goes on sending as long as it is acknowledged, one byte
into the data register and one more into the shift register before the clock is
stretched. That a byte left over in the shift register gives way to the next address,
which goes out through it, is an assumption about the peripheral.

**YosApplication** is the script of `_aht20_task` (initialise, trigger, read the
state, read, call back) and of `_oled_task` (anything, the temperature, the
humidity). Sleeps have no length, so nothing rests on the tasks' periods. The
calibration bit is either. A frame read from the sensor is that of its last
measurement with the bits of one member of `Noises` turned over, and what the
driver makes of it is computed by **YAht20**: the CRC over the bytes, the raw
values of 20 bits that share a byte, the scaling and the casts to `int8_t` and
`uint8_t`. `arrivals` holds these results, which TLC would otherwise compute
anew in every state. The flag `triggered` is left out: `aht20_event` is only
ever called after the trigger. A value is in the driver's buffer until the two
stores, and nobody else uses that buffer.

**YTimer** has the interrupt look at one timer per step, so that a compare event
may fall between any two of them; callbacks make any number of the same calls,
on any slot, and the slot is looked at again when they have returned, as in
`tim4_isr`. A function is three steps of the task (mask, body, unmask), because
the interrupt of the timer is masked and nothing else; a callback's call, which
nothing interrupts, is one, and ends by unmasking. `armed` counts, for each
timer since it was created, reset or restarted, the compare events that found it
running and the interrupt free to take them (`ms`), those of before that count
for it because they were pending when it was armed or restored (`extra`), and
those that a pause may have kept from counting (`missed`). It reads the other
variables and constrains none: that the countdown keeps to these events is what
`FiresOnTime` says. The task keeps what `create` returned, with the number of
timers the slot had held.

**YBasicIo, YCmdline.** The port may have no byte or no room for any time; a
call that fails is made again and changes nothing. `_cmdline_task` reads a byte
per step, cuts its arguments with one step per turn of `_make_args`'s loop, in
the buffer, and runs the command, whose output is a number of messages. The texts
are left out, and a character is one of
a set in which blanks, quotes, the end mark and NUL are told apart.

## 3. The runs

| run | instance | what it shows |
|---|---|---|
| `kernel` | 4 slots (idle and one to three tasks), delays of 0-2 ticks | the safety properties of the kernel with its histories, that it implements YosScheduler, that every runnable task gets the core and every delay ends |
| `mutex` | idle and two tasks, delays of 0-1 | mutual exclusion, a truthful owner, progress |
| `ring` | 3 slots, two byte values, calls of up to 4 | FIFO order, displacement, counts, refinement |
| `usart` | 2 tasks, 2 slots, 3 arrivals, 2 writes, overruns | bytes are accounted for in both directions, arrivals are served, and calls return unless an overrun is left standing |
| `usart_can_read` | the same | **fails**: can_read without data (finding 1) |
| `usart_overrun` | the same | **fails**: an endless interrupt (finding 2) |
| `sleep` | idle and two tasks, ticks of 2 ms, sleeps of 0-5 ms | sleeps are short by less than two ticks and long by less than one |
| `sleep_at_least` | the same | **fails**: sleeps are short (finding 3) |
| `application` | the two tasks, three measurements, any one or two of a frame's 56 bits turned over, 2 bytes per drawing; devices that answer | whole transactions, that they end, and honest readings |
| `timers` | 2 timers, timeouts of 0-1 ms, 4 calls of the task and the callbacks | a timer calls back with event `timeout_ms` + 1, calls meet their timer, none passed over |
| `timer_period` | the same | **fails**: periods are a millisecond too long (finding 4) |
| `cmdline` | a buffer of 6, two letters, a blank, two kinds of quotes, end mark and NUL, two arguments | lines and arguments as typed, the prompt comes back |

*Why the bounds are enough.* Four slots let a task wait while two others
alternate, which three do not, and leave a slot that was never used. Two ticks
of delay let another task's delay end in between. In the mutex, the third task
is idle, two compete. Calls of four bytes on a ring of three go once around and
overwrite in one call, from any position of the indices. Three arrivals on a
buffer of two fill it, displace and overrun. Sleeps of 0 to 5 ms in ticks of 2
ms are below a tick, whole ticks and not. The sensor's transactions have their
real lengths, from one byte, where the acknowledgement of the first is that of
the last, to seven; three measurements let the display lag behind by two, and
noise of up to two bits meets every byte of a frame and every pair of bytes. The
first of them is below zero; that none is of 0 degrees or 0 percent serves to tell
what has been measured from what the display starts with. Of
two timers either may be the one that calls back, before or after the other, four
calls let a callback free its slot and take it again while the task is in a call, and a
timeout of 0 and one of 1 are the two sides of the test for the end. Lines of
six leave room for a quoted word, a blank and a word, for the buffer to fill in
the middle of a word or of a quote, and for three words where two are kept. What
the proofs cover holds for every bound.

*Fairness.* `kernel`: the counter keeps counting, a pending exception that can
be taken is taken, and masked sections, none of which loops, end. Nothing is
assumed of task functions; they may never yield. `mutex` adds strong fairness
for the steps inside a ymutex function, because a task is preempted again and
again but a tick is thousands of instructions long, and `TimeSlice`, that a task
which gets the core again and again also executes: handlers and a switch take
microseconds of the 10 ms. `usart` assumes that the interrupt and the
transmitter go on and, by the result of `kernel`, that each task gets its turns.
Nothing is assumed to arrive. `application` assumes that the peripheral goes on,
that the devices answer and that a task in a transaction gets its turns; nothing
is assumed of who gets the mutex or of the sensor. `timers` assumes that the
counter counts, that its interrupt is taken when it may be and goes on, which
implies that callbacks return, and that a task in a call gets to the end of it:
strongly, because the interrupt disables its steps again and again. `cmdline`
assumes that the port accepts a byte sooner or later, that the task gets its
turns, that its sleeps end and that somebody goes on typing: the endless loop of
`readline` on a port that only fails is assumed away, not excluded.

*Deadlock* is checked in every run but `timers` and `timer_period`, where
`user_timer_deinit` stops all there is once the calls are used up. In `application` a task that waits in a
loop is not one, and that no such wait is for ever is `BusIsFreed`.

### Findings

1. `yusart_can_receive` (`yusart.c:140`) tests the size of the buffer instead
   of its length, and always answers yes (`basic_io.h:41`).
2. If a byte is completed between the interrupt's reads of the status and of
   the data register (`yusart.c:81-83`), ORE is left set with RXNE clear. The
   handler then does nothing, the branch that would clear ORE being compiled
   out, and is entered again at once, until another byte arrives. No task
   executes meanwhile.
3. `yos_task_msleep` sleeps for less than it is asked to, by up to two ticks
   (`yos.c:467`), where `yos.h:176` says "at least". `AlmostEnough` is what
   does hold, and also bounds how long a sleep may be.
4. A timer that restarts itself has a period of `timeout_ms` + 1 milliseconds: it
   is reloaded with `init_ms` (`ytimer.c:47`) and calls back not with the interrupt
   that counts it down to 0 but with the next. The error adds up from one period to
   the next, while `yos.h:181` sends users to the timers "for an accurate timing".
   `FiresOnTime` is what does hold: `timeout_ms` + 1 events, no more and no fewer.

### Observations

Behaviour that a caller of these functions should know of, and that no run of
its own is about.

* `yos_start` returns when only the idle task exists: the `schedule()` that ends
  it (`yos.c:437`) finds nobody else, and main goes on with a stack that has been
  replaced. The comments (`yos.h:158`, `yos.c:440`) say it does not return. With a
  task of its own, as in this program, it does not (`NeverReturns`, which fails for
  `MinTasks = 0` only).
* The first of the `timeout_ms` + 1 events comes less than a millisecond after a
  timer has been created or reset, so that the first callback is normally late by up
  to one. It comes earlier by an event that was pending: one that the interrupt had
  not yet taken when the timer was armed; at a restore, one that passed while it was
  paused; when a callback arms a timer, the one whose walk has yet to reach it. Each
  such event makes it a millisecond earlier, which may be before its time. It comes
  later by an event that was pending when the timer was paused, and by those that came while the
  interrupt had not yet taken the one before. `FiresOnTime` allows exactly these.
* A callback that destroys its own timer and creates another may be given the
  same slot, which the handler then frees or restarts (`ytimer.c:49`). For the
  same reason `CallsMeetTheirTimer` holds only while callbacks neither create
  nor destroy: a slot the task believes to be its own may be another's.
* The display may show a temperature beside the humidity of a later measurement.
  `HumidityNotFarBehind` excludes the opposite, an old humidity beside a new
  temperature; how much newer a humidity can be depends on the two tasks' periods.
* The tests of `timer_id` let `USER_TIMER_MAX_COUNT` through (`ytimer.c:153`,
  180, 198, 216), which is one past the list. `create` never returns it.
* Every function of the timers ends by unmasking their interrupt. A task that
  calls one while another task is inside one unmasks it for both, and two tasks
  may be given the same slot. The program has no such tasks; the model has one.
* `basic_io_readline` promises a negative value on error (`basic_io.h:137`), but
  takes every error for "no data yet" and tries again (`basic_io.c:104`), so that
  without a port it never returns.
* The last byte of a line of exactly `buf_len` bytes gives way to the terminator
  and is lost, and what follows is a line of its own (`basic_io.c:108`).

## 4. What is proved

All theorems hold for every value of the constants. Those about the kernel
assume `MinTasks # 0`, that the program creates a task before `yos_start`:
with idle alone `yos_start` returns.

* **Kernel** (`YosKernelProofs`): `Spec => []Inv` (`Invariance`), and from it
  `TypeOK`, `SwitchTargetValid`, `MaskStaysWithItsTask`, `OnlyLiveTasksExecute`,
  `NeverReturns` and `Lifecycle`. None of these is inductive alone: that a
  switch finds a context to resume depends on where the task lost the core, and
  that on what it was doing then. `Inv` therefore says for every task which
  contexts go with which status, apart for the task on the core
  (`ContextOnCpu`: fit to go on, or with a switch pending, or masked on its way
  to requesting one) and those off it (`ContextOffCpu`); that a pending switch
  has a target (`SwitchPending`); and that the flag is cleared only between
  `_schedule_irq`'s two statements (`FlagFollowsHandler`). One lemma per action
  shows that it is kept.
* **Time and turns** (`YosServicesProofs`): `HInv` adds that the countdown and
  the ticks taken make up what was asked (`Timing`), that a pending switch goes
  to the first runnable task (`NextIsFirst`) and that the tasks served since t
  had its turn lie between t and the current one on the circle (`Turns`). From
  it, `WakesOnTime` and `BoundedBypass`.
* **Sleeping** (`YosServicesProofs`): `TInv` relates the countdown of a sleeper to
  the clock: the ticks counted down, with the one that is pending, and the part
  of a tick since the last are the milliseconds since the call, but for the part
  of a tick that had passed then (`Slept`). From it both sides of `AlmostEnough`,
  for every tick interval and any number of sleepers: what of "at least" the code
  does keep, and that no sleep lasts a whole tick too long, given that a tick is
  taken before the next (masked sections and handlers are far shorter). How long a
  task that is runnable again waits for the core is a matter of `BoundedBypass`.
* **Refinement** (`YosKernelProofs`): every step of the kernel is one of
  YosScheduler or a stutter.
* **Mutex** (`YosServicesProofs`): every step is one of the kernel's or leaves it
  alone, so `Inv` holds; `MInv` adds that masked stages of the mutex functions
  are masked sections of the kernel, that what a section has read still holds
  when it writes, and what the owner field means at every stage. From it,
  `MutexTypeOK`, `OwnerIsInside` and the refinement of `Mutex`.
* **Ring buffer** (`YRingProofs`, `YRingBufferProofs`): `YRingProofs` has the lemmas
  about places on a circle and about what `PutByte` and `DropByte` do to the
  contents (append, displace, take the head), which the port needs too. Then `RInv`, which adds to the properties how far a call has got,
  and from it `RTypeOK`, `GetTakesTheOldest`, `PutKeepsTheNewest`,
  `ReturnsWhatItMoved` and the refinement of `BoundedFifo`.
* **USART** (`YUsartProofs`): masking alone lets any number of tasks share the
  ring buffer with the interrupt, and the transmitter with each other. `UInv`
  adds to the types that whoever is between masking and unmasking is the only
  one and PRIMASK is set (`MaskedAlone`); that indices and length agree except
  between a reader's two updates, when the length it loaded is still the one in
  memory (`RingAgrees`); and that a writer about to send still finds TXE set
  (`Sending`). From it, `UTypeOK`, `RingSharedSafely` and `AcceptedBytesLeave`.
  For `NothingElseIsLost`, `Accounted` follows every byte from the receiver through
  the interrupt's hands and the ring buffer to the tasks, also while a reader is
  between its two updates, when the property itself says nothing: what the tasks
  have got and what is on its way, in this order, rises and is all that came in
  but for what overrun and displacement took.
* **User timers** (`YTimerProofs`): `TimerInv` relates what is left of a timer to
  the events since it was armed, on both sides: what has been counted down, with the
  looks of a walk under way, is at least the events that found it running less
  those that a pause took away (`NotLate`), and at most those events and the ones
  that were pending (`NotEarly`). Beside it, that calls bound the counters of the
  histories (`Bounded`), and what the task knows of its timers as long as callbacks
  neither create nor destroy (`TaskKnows`). One lemma says what a function's
  body may do to a slot, for the task's calls and the callbacks' alike. From it,
  `TimerTypeOK`, `CallsMeetTheirTimer` and both bounds of `FiresOnTime`.
* **I2C** (`YosApplicationProofs`): `IicInv` says that who is inside the mutex is
  in a transaction and nobody else is, and, for each place of it, what the
  peripheral and the frame on the bus are (`Phase`). The delicate part is what a
  transaction may leave to the next: a stop not yet carried out and, before it,
  up to two more bytes received (`Leftover`), which the address phase sweeps away. From
  it, `TransactionIsWhole`, for every length of the transactions and whatever
  the sensor measures. `AnswerInv` adds what the loops of the driver rely on, which
  have no timeout: whenever a task finds a flag clear that it waits for, the
  peripheral has been asked for what sets it (`NoWaitIsInVain`), in particular,
  while bytes are received, the acknowledgement that keeps the device sending has not
  been withdrawn too early (`Sends`). It is of devices that answer, as the model is.
* **The sensor's frames** (`YosApplicationProofs`): `WrongBitsAreNoticed` says of
  the CRC, computed bit by bit as `aht20.c` does, that it fails for every frame, of
  whatever measurement, with up to three wrong bits anywhere, any odd number of
  them, or any within one byte. A turn of the inner loop is linear in the bits
  (`CrcBitLinear`), so eight turns, a byte and six bytes are, and the driver takes a
  disturbed frame exactly if the noise is its own CRC (`UnnoticedNoise`): the
  measurement no longer matters. A turn keeps the parity of the bits, so an odd
  number of them is noticed (`OddNoiseNoticed`). A lone bit travels along the
  cycle of the shift register, whose first 56 places, eight to a byte, are distinct
  (`CrcBitsTrace`), so a second bit in a later byte does not meet it there
  (`PairOfBytesNoticed`). `FourWrongBitsPass` shows that no more can be promised.
  `PartsTogether` and `Conversions` say that the driver puts
  the two raw values of 20 bits together again and scales them to what the sensor
  means, up to 127 degrees, where the cast to `int8_t` would turn the sign.
* **Readings** (`YosApplicationProofs`): `AppInv` follows a value from the frame
  to the display: what was read is of the last measurement until the next
  trigger (`SensorRests`, `GotIsLast`), every value on the way is of a good
  measurement (`FromGood`), and no good measurement but the one being stored
  is newer than the humidity that is stored (`HumidityKeepsUp`), so that the
  humidity loaded after a temperature is at most one older. From it, `FrameIsTold`,
  `ShownWasMeasured` and `HumidityNotFarBehind` for any number of measurements, under
  two hypotheses. `NoiseIsNoticed`, that the CRC fails for all that noise does to
  a frame, is what `WrongBitsAreNoticed` proves of the noise it names, the run's
  included; of all noise it cannot hold, with eight bits of CRC. `InRange`, that no temperature exceeds 127 degrees,
  is so of a sensor that measures up to 85. `AppTypeOK` needs neither.
* **Command line** (`YCmdlineProofs`): while a line is read, the front of the buffer
  is that line with its terminators put in (`LineInBuffer`), whatever earlier lines
  have left behind it; while it is cut, the terminator at its end stays in place
  and the scan does not pass it (`LineEnds`); and every argument found ends at a
  terminator (`ArgumentsEnd`), which cutting the rest in place only moves nearer.
  From it, for every size of the buffer and limit on parameters, `CmdTypeOK`,
  `LineIsAsTyped`, and that every argument a command is given ends inside the buffer
  (`ArgumentsStayInside`). `ArgsInv` adds what is cut: behind the scan the buffer is
  still as typed (`RestAsTyped`), before it are the line's first words in order, and
  nothing but blanks between them (`WordsSoFar`), each with its terminator where its
  blank or quote was (`LineIsCut`). From it `ArgsAsTyped`: a command is given the
  first `MaxParaCnt` words of its line (`ArgumentsAreTheWords`). The words of a line
  are described, not computed: `AreTheWords` says of places in the line that plain
  or quoted words start there, with blanks between them. `WordsAreUnique` shows
  that it means one sequence of words for each line, so that nothing but the right
  arguments satisfies it. `StepsLeadToThePrompt` is a variant: every step of the task
  away from the prompt brings it to a later place, or moves the scan or the
  end of the line on, neither past the end of the buffer, or sends a part of a message.

The theorems about the port assume that bytes are named by their place in the
arrivals (`Bytes = Numbers`), which is how the runs choose them too.

Only model-checked: liveness (`EveryRunnableRuns`, `EverySleeperRuns`,
`FreeMutexIsTaken`, `CallsReturnUnlessOverrun`, `ArrivalsAreServed`, `BusIsFreed`,
`RunningTimersFire`, `PromptComesBack`), which the prover does not reach: it has no
rules for fairness and ENABLED. Of `PromptComesBack` and `BusIsFreed` it proves the
part that is safety, `StepsLeadToThePrompt` and `NoWaitIsInVain`: which steps there
are, and that they lead on; that they are taken is what fairness is for. Every
other property of a passing run, whether invariant, action property or refinement,
is a theorem.

## 5. What is not modelled, and what is left

Not modelled:

* kernel: tasks created by tasks (the program creates all of them before
  `yos_start`); stack contents and depth; the tick counter running during the
  first lines of `yos_start`;
* ring buffer: the versions on the heap, which nothing calls;
* USART: `yusart_deinit`, which nothing calls; noise, framing and parity errors,
  which the handler ignores;
* I2C: `yiic_master_deinit`, which nothing calls; a device that does not answer,
  for which the driver waits for ever; a device that holds the bus after a
  transaction it was not told the end of (a tick can fall between the reception
  of the last byte and `yiic.c:161`). `BusIsFreed` and `NoWaitIsInVain` are about
  devices that answer, and say nothing of one that is silent;
* basic I/O: `basic_io_read`, `basic_io_has_data_to_read`, `basic_io_deinit` and
  non-blocking writes, which nothing calls; the print buffer's limit;
* command line: the texts of its answers, `atoi`, the stepper motor's command,
  which is not built, and two helpers for hexadecimal digits that nothing calls;
* user timers: calls of several tasks at once, against which the functions have
  no guard, and identifiers that `create` never gave;
* sensor and display: the bits of the state byte other than busy and calibrated,
  the lengths of delays, the clock on the display, fonts, pixels and positions.
  The third-party display library is seen through the brackets of its
  transactions only.

What is left, in the order in which it would add most:

1. The command line on the model of the port instead of one that answers at any
   time, which needs the two tasks that print and a bound on the buffer.
2. Timer calls of several tasks, as a run that is expected to fail, if the
   functions are ever to be used so.

Not planned: the display library's drawing, the board set-up, the library's
demonstrations and libopencm3.

## 6. Running

    tlc -config MCYosHistory.cfg MCYosHistory        # and likewise the others
    tlapm YosKernelProofs.tla
