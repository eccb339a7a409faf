# BattMITM in TLA+

BattMITM is a Raspberry Pi Pico between a laptop and its battery. It passes
SMBus messages on, replaces the replies to some commands, and reads the battery
on its own account to show it on a small display. These modules model the parts
of it in which order, loss and concurrency matter. TLC checks them on small
instances, and TLAPS proves the central properties for every size.

All paths below are relative to the repository (`src/` in `PROJECT.json`).

## The system

| part | state | operations | talks to |
|---|---|---|---|
| event queue (`static_queue.c`) | a ring: two indices, slots, a counter of refusals | add, pop, peek, size | interrupt handler (producer), main loop (consumer) |
| man in the middle (`mitm.c`, `main.c`) | queue, overflow flag, `previous_event`, command and reply buffer with an index each, `reply_override` | interrupt handler, `mitm_loop`, `mitm_reinit_i2c`, reads for the display | both I2C peripherals, overrides, battery cache |
| SMBus reads (`smbus.c`) | none; a checksum | read, read block, read text, checksum | the battery |
| overrides (`config_override.h`, `override.c`) | `mitm_reply_buffer` | one function per overridden command | the battery, `mitm.c` |
| battery cache (`battery.c`) | per statistic: result, length, valid, time, requested; one flag; one spin lock | request an update, update the cache, test validity | core 0 writes it, core 1 reads it |
| stat pages and always-on display (`defused/stat_page`, `defused/aod.c`) | pointers to statistics and text boxes | init, update | battery cache, graphics |
| GUI loop and bindings (`defused/gui.c`, `stat_browser.c`, `main_menu.c`) | current binding, inactive mode, select machine, contrast | button callback, bind, loop | buttons, pages, display |
| menu list (`defused/menu_list.c`) | selection, scroll, back stack | navigate, select, update | GUI loop |
| buttons (`button.c`) | per button: two timestamps and a state | edge interrupt, debounce alarm, repeat alarm | GUI loop |
| graphics (`graphics.c`) | pools, object list, marquees | allocate, add, reset, update, render | display |
| display (`display.c`) | frame buffer, burn-in offsets and limits | draw, shift, refresh | SPI |
| status lights, font, configuration | - | - | - |

Who runs where:

- **core 0, thread**: `while (true) { mitm_loop(); battery_update_cache(); }`
- **core 0, interrupts**: the I2C handler of the laptop's bus, which only fills
  the queue; the alarms of the default pool, and with them the button callbacks,
  which bind pages and request updates.
- **core 1, thread**: the GUI loop, which prints pages and requests updates.
- **core 1, interrupts**: the edges of the buttons.

What is hard, and what each part must guarantee:

- The queue's slot is published before it is filled, and the consumer works on a
  slot in place. *It is a FIFO, and nobody works on another's slot.*
- The handler sees a set of raised conditions, not a sequence. The queue may
  overflow, the battery may refuse any byte, the loop is left in the middle of a
  message after an overflow, and the display's reads use the same bus and
  buffers. *What is forwarded is what was said; what is answered belongs to the
  question; a laptop held on the clock is let go; the display gets its turn.*
- The cache is shared by two cores and an interrupt; asking takes no lock. *A
  page prints whole, checked replies; no request is forgotten; everybody gets
  the lock.*
- Reads fail at any transfer, lengths come from the wire, and buffers keep what
  an earlier read left. *A valid result is the reply; nothing is overrun; the bus
  is released.*
- A pin bounces, each edge leaves an alarm, and the alarms of core 0 read
  timestamps that an interrupt of core 1 writes. *Presses, repeats and releases
  come in order and paced; the settled state is the pin's.*
- Pages are bound by button callbacks on core 0 while the loop of core 1 draws
  them or binds another. *What was changed is drawn; mode, binding and object
  list fit together; the pools suffice; the display falls asleep.*
- A list is navigated on core 0 and drawn on core 1, which tests an index and
  uses it later. *The user is somewhere in the tree; the selected item is one of
  the list's and, in the end, on the screen.*
- The picture wanders against burn-in. Core 1 moves it, and both cores change how
  far it may go. *It stays within its limit, and the panel shows all of it.*

`PROJECT.json` lists the hazards at their lines, with the properties that cover
them.

## Modules

### StaticQueue, BoundedFifo

`StaticQueue` is `static_queue.c` with one producer and one consumer. `add` takes
three steps: `AddClaim` (the test, and the pointer), `AddPublish` (the index) and
the caller's `Fill`. The consumer's `Peek` keeps a slot `held` until `Pop`. With
`Preempts` the producer is an interrupt of the consumer's core, as in `mitm.c`:
once it has begun, the consumer stands still. Without, they are two cores.

`BoundedFifo` is what the users rely on. `ImplementsFifo` maps the ring to it: a
slot that is published and not filled does not count yet.

### Mitm, PassThrough

`Mitm` is `mitm.c` between a laptop and a battery. The laptop (`LaptopStart`,
`LaptopWrite`, `LaptopRead`, `LaptopStop`, `SlaveAborts`) is the environment: it
raises conditions in the peripheral (`flags`, `rx`). A condition that is already
raised leaves no second trace. `IrqEnter` takes a snapshot of them, and `Service`
serves it in the order of the handler's text. The thread runs only when no
interrupt is pending (`Running`). `ProcessWrite`, `ProcessRead`, `ProcessStop` and
`ProcessStart` are the cases of the loop's switch, whole; `Pop` is what follows
the switch. `LoopExit` and `LoopBreak` leave the loop, `GuiRead` is a read for
the display, and `DropOff` and `ComeBack` are the recovery, before and after its
second of sleep.

Bytes of replies are abstracted to where they came from: the battery, an
override, a reply of an earlier message (`"old"`), one the display asked for
(`"gui"`), or zero. Bytes of writes keep their value. An override function may
read from the battery or not, succeed or fail. One that succeeds writes as many of
the first bytes of the reply buffer as it likes (`Over`), and leaves what stood in
the others; `extent` remembers how many. So does an override run for the display,
in the same buffer. One that fails has all of the buffer set to zero.

The constant `Assumed` holds what a run assumes of the environment:

| | meaning | justified by |
|---|---|---|
| `"prompt"` | the handler is done before the bus moves on | a bus event takes at least a bit time, 31 us at 32 kHz, the handler about one; button callbacks and other interrupts of the core can break it |
| `"paced"` | the queue does not overflow | the battery's bus runs as fast as the laptop's, and the queue has 99 elements |
| `"healthy"` | the battery acknowledges everything | an assumption about the battery |
| `"smbus"` | messages of SMBus's shape, to the battery only | an assumption about the laptop |
| `"fits"` | messages that fit the two buffers | no SMBus block is longer than 32 bytes; the buffers hold 64 |

`PassThrough` is what the project's README promises: symbols come out once and in
order (`Hear`), unless a command is intercepted. The symbols are starts, stops,
bytes written and bytes asked for. An intercepted command comes out with the reads
its override makes (`Consult`, mitm.c:309 with `mitm_read_batt_reply`); the laptop's
reads that follow it do not come out (`Intercept`). At the stop of a read one more
byte is asked for, which nobody has said (`EndRead`): `i2c_stop_read_blocking` cannot
stop without (`smbus.c:84-86`). After an override that has read nothing this byte is
the only one the battery is asked for, and begins a read of its own.
`ForwardsEverything` shows that `Mitm` implements this under all five assumptions. The variables `owed`, `got` and
`turn` are history for it, which no code reads.

### BatteryCache

Core 0's pass (`CheckNeed`, `Lock0`, `Clear`, `Skip`, `BeginRead`,
`ReadSucceeds`, `ReadFails`, `Unlock0`), core 1's pages (`BeginPage`, `Ask`,
`AskNeed`, `Asked`, `Lock1`, `Show`, `Derive`, `Unlock1`) and the init of a page
from a button callback (`CallbackAsks`, `CallbackNeeds`). The two stores of
`battery_stat_request_update` are two steps on either side. A cell is `"torn"`
while a read into it is under way. Core 0 has at most one callback at a time; it
interrupts the thread of core 0, which the model lets go on: that only adds
behaviours.

### SmbusCrc

A byte is the set of its bits that are one. `GenerateCrc` is the loop of
`generate_crc`, `GenerateSmbusCrc` puts the pieces together. The reference is
independent of both: the remainder of the frame as it is on the wire, as a
polynomial over the two-element field, by long division (`Remainder`). A reply is
sent, up to two bits flip, and it is validated. The parts of its specification are
`CrcInit`, `CrcNext` and `CrcSpec`, since `SmbusProofs` extends `SmbusRead` as well.

### SmbusRead

One update of a statistic after another (`battery_update_stat`), transfer by
transfer: `smbus_read`, `smbus_read_block`, `smbus_read_text`, or one of the
examples of `config_override.h` run through `mitm_smbus_read_with_override`,
which does not begin on a statistic with more room than its buffer has (`TurnedDown`,
`mitm.c:346`): with the program's own sizes, or the run's, there is no such statistic,
and the proofs allow for it. The battery may refuse any transfer, and some bytes may have arrived before it does;
the wire may corrupt any byte, lengths included. `updated` are the statistics a
behaviour is about, `Sharing` at a time. What an example override
computes is modelled byte by byte, with three values of bytes (`NUL`, `A`, `O`).
The checksum is one without collisions here. `override` is chosen at the start
for each statistic: the switch of `config_override.h` as shipped, with its
examples commented out, and with each of them in.

### Button, ButtonEvents

One button of `button.c`. The environment moves the pin (`Edge`), at most
`Bounces` times within a debounce. `IrqHandler` is core 1's interrupt; `Decide`
and `Report` are the two halves of `button_state_handler`, between which the
interrupt may write the timestamps again; `Repeat` is `button_repeat_handler`.
Alarms run when they are due or up to `Late` later, and share a pool that can be
full (`HasRoom`), in which case the alarm is lost. Time goes by in ticks; a
timestamp is kept as its age, no further than the code compares it. `ButtonEvents`
is what the callback is promised: a press, any number of repeats, a release. The
pin is assumed to be high at boot, and a 64-bit timestamp to be read whole.

### Gui

The loop of `gui.c` on core 1 and the button callback on core 0, with the three
bindings (stat browser, main menu as a list, always-on display), and the pools
and the object list of `graphics.c`. What a core has begun is a sequence of
steps in `todo`: each step reads or writes what the cores share once, a call puts
its steps in its place, and the two cores' steps interleave freely. `Point`,
`Open` and `Fill` are `defused_bind`, which reads the binding again after it has
written it (`gui.c:133-135`); `Loop`, `Redraw`, `Update` and `Draw` are the loop.
Text is abstracted to what was drawn last (`shown`). An init function is the
number of text boxes, rectangles and lines it takes.

Time: the inactivity timeout elapses only between callbacks. At most one callback
begins while the loop is binding, which takes less than a debounce. When one does,
`raced` is set, until inactive mode is next entered or left by one core alone.

### MenuList, MC_MenuList

`menu_list.c` for any tree of lists, where `Gui` has the one list the program
opens, of two callbacks. The handlers run on core 0: `Select` and then what the
item does (`Leave`, `Stay`, `Descend`, `Ascend`), the binding (`Open`, `Point`)
and the init in the steps the other core can see (`First`, `Reset`, `Ask`). The
update runs on core 1, each index read where the code reads it: `Below`, `Raise`,
`Above` and `Lower` are `menu_list_scroll_selection_onscreen`, `HasBar` and
`Thumb` the scroll bar, `HasItem`, `HasNone` and `PrintRow` the rows, with
`item_index` kept in a local between test and use, and `Render` what
`graphics_render` then puts on the screen, here or for a marquee. Indices wrap as
a `size_t` does. The model begins when the menu has been opened once, and
inactive mode is entered while no handler runs: how handlers meet *that* is in
`Gui`. An item past the end of its list is printed as the list and the index.

`MC_MenuList` has the two lists of the run: one longer than the screen and one
shorter, which lead to each other.

### BurnShift

`display_set_burn_limits`, `display_refresh` and `display_burn_update` of
`display.c`, along one axis; the axes share nothing but the code, and a behaviour
is about either. `SetLimit`, `Test` and `Clamp` are the limits on either core;
`Pick`, `AtZero`, `AtLimit`, `Load` and `Store` the decision, which reads limit and
offset again for every condition; `Move` is the copy and the strip that is cleared
behind it. The panel is what each of its cells shows of the frame buffer, which
`RefreshCell` sends cell by cell. `race` is history: `"now"` from when both cores
were in the limits or the decision until one sets limits alone, and `"past"` until
what that left on the panel has been drawn over.

## Runs

| run | bounds | shows |
|---|---|---|
| `StaticQueue_Interrupt` | 4 slots, 2 values, 2 refusals | the ring is a FIFO, whatever the wrap; nobody works on another's slot |
| `Mitm_Latency` | queue 3, a command buffer of 2, a reply buffer of 3, one command, overridden; only `healthy` and `smbus` are assumed | both indices in range, a READ is awaited, an overflow is noticed, no answer is an old byte within an override's reply, nor any byte of a failed override's |
| `Mitm_Forward` | queue 4, buffers 3, two commands, one of them overridden; all five assumed | forwarding implements `PassThrough`; the case that "should never happen" does not; a byte from the middle of a write stays one; the laptop never gets the battery's own reply to an overridden command; the loop hands over a free bus |
| `Mitm_Live` | queue 3; `prompt`, `paced`, so any master and a battery that fails | a read is answered; the display gets its turn |
| `BatteryCache_Requests` | 2 statistics, one that is always answered and one whose reads may fail, ages up to 2 | requests are noticed, and served where the battery answers; pages print whole replies; derived values were read; the lock is served |
| `SmbusCrc_Read` | 3 commands, 4 bytes, replies up to 3 bytes, 2 flips | the checksum is CRC-8 of the frame, and finds the flips |
| `SmbusRead_Updates` | two at a time of three statistics of three types; reply buffer of 5, room for 2, lengths 1, 3, 4 | no overrun, the bus is released, a valid result is the reply |
| `Button_Bounce` | thresholds 3, 5, 8 ticks, alarms up to 2 late, a pool of 6, 4 edges within a debounce | the settled state is the pin's and is reported; presses, repeats and releases alternate; repeats are paced |
| `Gui_TwoCores` | the real sizes of the pools; 2 of the 3 pages | the pools suffice; what a callback changed is drawn; mode, binding and objects fit together; a release selects what is shown as selected; the display falls asleep |
| `BurnShift_TwoCores` | a panel of 4 cells, limits 0, 1 and 2, offsets modulo 8 | the offset is within its limit, and comes back when two cores have met; the panel shows the drawing |
| `MenuList_Tree` | lists of 4 and of 1 on a screen of 2 rows, 3 levels, indices modulo 6 | the back stack is a way through the tree; the selection is in the list, and in the end on the screen for good |

Why the bounds are enough: a ring of four slots wraps, is full and is empty with
the indices in every relation. In `Mitm` the buffers' limits, the overflow, a
handler run that leaves conditions behind and two messages in the queue at once
all occur. In `SmbusRead` lengths fit both buffers, only the reply buffer, or
only with no checksum behind; shorter replies follow longer ones. In
`BatteryCache` two statistics are the least for which one can be looked at before
and one after a request. `SmbusRead!Contents` is a bound too: the bytes of a block
that fits no result are all equal. In `Button` the thresholds keep the order they
have in `button.h` (1 ms, 50 ms, 1 s), and alarms late by nearly a debounce let
an alarm of one bounce run after those of the next. In `Gui` two pages have a first and a last one, and every
binding can follow every other. In `BurnShift` a limit can be zero, above, at or
below the offset, as by the x margins (0 and 2) and the y margins (1 and 2); a
panel of four cells has cells outside the limits. In `MenuList` one list scrolls
by two, the other leaves a row empty, and an index into the one is past the end of
the other; three levels fill the back stack with a way that comes by the same
list twice.

Deadlock is checked except in `SmbusCrc`, where a validated reply is the end.

### Disagreements

This run finds its one property violated, the statement of two comments. The
trace is in the run; `PROJECT.json` quotes the text.

| run | what happens |
|---|---|
| `Mitm_Storm` | after an overflow the handler returns with its conditions raised: it is entered again for ever, and the recovery never runs. It needs one condition more to be raised between the overflow and the recovery, which a laptop in the middle of a message provides |

The properties of the passing runs hold under what those runs assume. Without it
they show more of the code; each line is one change of a configuration.

| configuration | change | what TLC then finds |
|---|---|---|
| `Mitm_Forward` | no `"prompt"` | `NeverHappens`: the handler, late, queues START or STOP before the byte that came first (`mitm.c:93`), and the case of which `mitm.c:220` and `mitm.c:244` say "this should never happen" does |
| `Mitm_Forward` | no `"prompt"` | `ForwardsEverything`: the late handler makes the bytes of two messages one |
| `Mitm_Forward` | no `"paced"`, `Capacity = 2`, no `Track` | `WholeMessages`: after the recovery the loop goes on with `previous_event` and the index of the lost message (`mitm.c:149`) |
| `Mitm_Forward` | no `"healthy"`, `CmdSize = 4`, no `Track` | `WholeMessages`: the battery refuses a byte of a write, and the next one goes out as a command (`mitm.c:234`) |
| `Mitm_Latency` | no `"healthy"` | `NoStaleAnswer`: the battery refuses a read, and an old byte goes out (`mitm.c:266`) |
| `Mitm_Forward` | no `"prompt"`, no `Track` | `OverrideNotBypassed`: a late handler hides the start that would have looked the override up |
| `Mitm_Forward` | no `"healthy"`, no `Track` | `OverrideNotBypassed`: the battery refuses the command byte and answers later: the laptop gets the battery's own reply to an overridden command (`mitm.c:303`), where README.md:36 has "return a custom response instead of forwarding them" |
| `Mitm_Live` | no `"prompt"` | `DisplayIsServed`: a STOP served before the last byte leaves WRITE as the last event, and the loop spinning (`mitm.c:336`) |
| `Button_Bounce` | `Prompt = FALSE` | `SettledIsPin`: both edges latched at once count as a release, also when the press came last (`button.c:102`) |
| `Button_Bounce` | `Pool = 3` | `SettledIsPin`: the alarm that would have decided was not added, and nobody looks (`button.c:110`) |
| `Button_Bounce` | `Debounce = 1`, `Interval = 3`, `Delay = 6`, `Late = 1` | `RepeatsArePaced`: when an alarm may be as late as a debounce is long, a release and a press fit between a press and its repeat alarm, and two chains of repeats run (`button.c:60`) |

`NoStaleAnswer` goes as far as the reply of an override does. A laptop that reads on
gets what the buffer held before, bytes of earlier replies or of the display's
(`mitm.c:261`): without `within` in the property TLC finds the old byte. The code
cannot tell, as `config_override.h:60` says of the number of bytes a laptop reads,
and an override does not tell `mitm_loop` how many it has written.

`BatteryReleased` excepts overflows because of `LoopBreak`: after one the display
reads the battery with the bus still held for the laptop's message
(`mitm.c:213`). `SmbusCrc` models reads only; for a write `smbus.c:57` would begin
the checksum with the read bit, which nothing in the code asks for. A short glitch during a hold sets `down_timestamp` and ends the
repeats (`button.c:61`); no property says otherwise.

`PoolsSuffice` and `BindingIsWhole` in `Gui` except the time after a callback has
met the loop binding (`raced`): at boot, and when a press comes just as the
inactivity timeout does. Without the exception TLC finds

- both cores in the init of the stat browser at once, because `defused_bind`
  calls the init of what is bound *by then* (`gui.c:135`): the text boxes run out
  (`graphics.c:306`), though `graphics.h:30` calls their number excessive, or the
  objects are on the list twice;
- the always-on display bound outside inactive mode: it captures every button
  until the timeout comes round again (`gui.c:142-144` against `148-153`).

`FallsAsleep` has no exception: whatever happened, the timeout repairs it.

`WithinLimit` in `BurnShift` excepts the time after two cores have met (`race`):
core 0 binds a page, from a button, while core 1 moves the picture or binds the
always-on display. Without the exception TLC finds an offset beyond its limit, because `display.c:301` adds to
what was read before the clamp of `display.c:311`, and an offset that has gone
below zero and is 255 on the Pico, because the clamp sets it to zero between
`display.c:293` and `display.c:301`. `DriftsBack` says that either comes back by
itself, a step at a time, unless the limit is zero: then `display.c:292` lets
nothing move until another page is bound.

`PanelShowsFrame` excepts one row (`RowLost`): after a step back along y from the
limit, the last row of the picture is black until it is drawn again. The strip
that a shift by -1 leaves is one row high, and `display.c:191` clears two
(`63 - y_start`; on the x axis `display.c:189` has `96 - x_start`), against
`display.c:285`: "the display framebuffer will automatically be moved to the new
offset".

`SelectionIsShown` in `MenuList` is about the time when the loop has nothing to
draw. Before that TLC finds, in the states on the way:

- a selection that is reset to 0 between `menu_list.c:127` and `128`, with the
  store of `128` after the reset of the scroll index, makes the scroll index wrap:
  the rows above the first item are empty, and the scroll bar is out of place. An
  update with the first item selected repairs it (`menu_list.c:129`). If the user
  has moved on by then, `128` wraps once more, and so on until the selection is
  back at the first item or has reached the last row;
- an index that was tested against the longer list and is used in the shorter one
  (`menu_list.c:165` and `168`) takes its text from behind the items;
- a list that shrinks to the size of the screen between `menu_list.c:142` and
  `146` makes the divisor of `menu_list.c:148` zero, which the Pico's divider
  survives.

`StaysShown` has no need of a handler's request, only of the update interval, for
one case: `on_select` ends the pre-selection without asking for an update
(`menu_list.c:90`), so that after a callback which binds nothing, or with a full
stack, the item looks as if still held for up to a second.

## Fairness

`Mitm`: weak fairness of the handler and of the main loop, nothing of the laptop
or of the display's requests. A pending interrupt is taken, and a thread that may
run does; what it may not do is run past a pending interrupt, which is in the
guard (`Running`) and not in the fairness.

`BatteryCache`: the reads of the statistics in `Failing` may fail for ever, those of
the others never do. Weak fairness of both cores, of the second store of a callback
and of the clock. `Lock0` has strong fairness: the spin lock is not fair by
itself, but a page is printed once in a while (`display_update_interval`, a
second for the pages) and the lock is free between two of them, many times for
longer than core 0 needs to try. `Lock1` has none: `LockIsServed` follows because
core 0 takes the lock only when asked to, and the asking is core 1's own while no
button is pressed.

`Button`: weak fairness of the interrupt, of both alarm handlers and of time;
nothing of the pin. `Gui`: weak fairness of each core's step and of the timeout;
nothing of the buttons. Each core runs its own code to the end, and neither waits
for the other. `MenuList`: the same, and weak fairness of `Redraw` by itself,
because the update interval of a second passes whether anybody asks or not.
`BurnShift`: weak fairness of each core's steps, and strong fairness of a
random number that is not zero: the interval of the shifts passes, and
`get_rand_32` does not give the same for ever.

For `Mitm` and `BatteryCache`, that transfers end at all is assumed: the burst transfers of
the SDK have no timeout.

## Proofs

Everything below holds for every value of the constants that satisfies the
modules' assumptions: sizes of rings, buffers and FIFOs, sets of bytes, numbers of
statistics and pages, periods, every subset of `Assumed`, thresholds, lateness of alarms and
size of their pool. Where a theorem needs more, it says so in its statement
(`"healthy" \in Assumed => ...`), and so does this text.

**StaticQueueProofs.** The invariant adds to the types what each side knows:
between test and publication the producer's slot is the end of a ring that is not
full; the consumer's slot is the start of one that is not empty; an interrupt in
the middle has published a slot that is still there and is not the consumer's.
From it: `TypeCorrect`, `NoRace`, `ClaimIsFree`, `HeldStable`, and `Refinement`,
step by step: `Fill` is the FIFO's put, `Pop` its take, `AddRefused` its refusal,
the rest stutters. `Refinement` assumes `Preempts`, as `mitm.c` uses the ring.

**MitmProofs.** `TypeCorrect` needs little more than the types. The other three
need `IInv`, five groups of conjuncts. `Peripheral` ties the handler's snapshot
to the raised conditions and the laptop's position. `Windows` is about what
stands in the queue: the index must be positive after each WRITE, so a WRITE must
not be *dropped* unless another one is behind it. A WRITE is dropped only after a
READ. `PairsSafe` says that a READ with a WRITE right behind it has another WRITE
right before it; `NextSafe`, `StartComes` and `WriteBeforeRead` say the same of
the WRITE the handler is about to queue, which holds because the handler serves
START before RX_FULL and RX_FULL before RD_REQ. `Noticed` says that an overflow
leaves something in the queue. `Awaited` says that there is at most one READ in
the queue, and then the laptop is held. None of it assumes that the handler is
prompt, which is why it takes an invariant to know that `mitm.c:278` and
`mitm.c:300` stay inside the buffer.

The other properties need some of the five assumptions, and an invariant each on
top of `IInv`:

| theorem | assumes | inductive with |
|---|---|---|
| `NoStaleAnswerHolds` | `healthy` | `Clean` |
| `NeverHappensHolds`, `BatteryReleasedHolds` | `prompt`, `smbus` | `InStep` |
| `WholeMessagesHolds`, `OverrideNotBypassedHolds` | `InTime`: all but `fits` | `Lossless` |
| `ForwardsEverythingHolds` | all five, and that the history is kept (`Track`) | `Owes`, with `Sequel` and `Fits` |

- `Clean`: bytes that are neither the override's nor zero may stand in its part of
  the reply buffer while it is set (`Tainted`), after an overflow and a read for the
  display. They never get
  out because the START that clears them is handled before the next READ
  (`Order`, `Renews`), and a READ is never seen without the START that came before
  it (`Snapshot`): the handler serves START first, which is all it takes; it need
  not be prompt, nor the queue long enough.
- `InStep`: two neighbours in the queue, the last of them and what is raised
  follow one another as SMBus has it (`Follows`), and the battery's bus is where
  the event at the front needs it. Once the queue has overflowed only its order is
  claimed: what is lost is lost from the end, and the recovery empties it. So the
  case of `mitm.c:220` and `mitm.c:244` cannot happen under `prompt` and `smbus`
  even when the loop does not keep up.
- `Lossless`: with room in the queue (`Room`), a command that is overridden and
  the only byte of its message is followed from the byte to the answer (`Kept`):
  it is in the queue, or in the command buffer with the restart to come, or the
  override is set and stays set (`GoesOn`), and then no byte of the battery's is in
  the buffer (`NoneOfIts`), not even where the override has not written.
- `Owes`: what the laptop has said and the battery has not heard (`owed`) is the
  byte held back, then what stands in the queue, then what is raised. `Held`
  is the first, a sequence of positions in `owed` the second, `Waiting` the third.
  Every case of the loop takes the first symbols of `owed`, none, one or two, and
  the battery hears them (`Hear`), hears more than them (`Consult`, `EndRead`) or,
  for reads of an overridden command, nothing (`Intercept`). Which of these it is
  depends on the last thing the battery has heard: `Listening` ties that to the
  event at the front of the queue and to the state of the battery's bus. `Sequel` says that a transaction ends with a
  stop and begins with one start; `Fits` numbers the bytes of each message in the
  queue, so that neither buffer is full when a byte comes to it.

**BatteryCacheProofs.** `Locked` ties the lock to the two program counters,
`CellsWhole` says that a result that counts as valid is one reply unless it is
being read, and `PrintedWhenValid` that what is still valid under the lock was
valid when it was printed: time only goes forward, and core 0 is locked out.

**SmbusProofs.** Of `SmbusRead`: `NoOverrun` is not inductive: a burst is as long as a length
received two transfers before. `ReadFits` says which reads can be at which transfer
and that an accepted length fits what is being read into; `ReplyFits` the same of the
reply buffer, the checksum included, for the override that asks the battery; and
`CacheFits` that no entry has outgrown its room. Each store is then one use of
`PutWithin`. That a text is no longer than its block (`TextLengthIs`) takes a least
element, from the well-foundedness of the naturals. `BusReleased` is inductive by
itself. Nothing is assumed of the values that arrive but that they are bytes.

`ValidMeansReply` takes `Underway`, which follows the bytes from the wire: a command
is routed by its override (`Routed`); before the checksum is read the statistic's
cells are what was heard since the length (`Copied`); and when an override that
succeeded is about to be read back the reply buffer holds its reply, and what it
asked the battery for came as it was sent (`Replied`, `Holds`). What earlier
updates left behind those bytes in either buffer is then never looked at. Of the checksum
the proof uses one thing only, `GoodIsNotBroken`: a good one differs from one that the
wire has broken. It is recursive over the bytes: that there is such a function is
`Recursion`, which iterates maps of a set to itself and is proved, as all
inductions here, up to a bound (`UpTo`, from a least counterexample).

Of `SmbusCrc` only `CrcAssumption` is used, that the address has seven bits and all
else is bytes.
`ChecksumIsSmbusHolds` compares the loop of `generate_crc` with the long division
bit by bit. After `j` bytes and `b` bits, what is left of the polynomial is
`Over` of the register: the degrees that are not yet covered, with the register
added under the highest eight of them. `CancelStep` is one round of both, `BitDivides`
places it in the frame, and `CrcDivides` goes through the bits of a byte within
the bytes of the frame. In the end nothing but the register is left.

`NoiseIsNoticed` says that an intact reply is accepted and a broken one refused, for
replies of any length and two kinds of noise. The first is confined to one byte of
the reply, or to the checksum (`InOneByte`), and may flip any of its bits. No round
makes two different registers equal (`BitKeeps`, `GenerateKeeps`), and the bits of a
byte can as well be added to the register beforehand (`GenerateFolds`), so two
different bytes make two different registers (`GenerateDiffers`), which stay
different to the end (`CrcDiffers`). The second is two bits, anywhere, less than 127
bits apart on the wire (`TwoNear`). Exclusive-or goes through the loop
(`GenerateLinear`, `RegistersDiffer`), so behind the first of them the two registers
differ by a power of x modulo the generator (`Powers`, `OneBitBehind`), and the second
would undo that only if two such powers were equal. They are not (`PowersDiffer`): the
squares of squares show that the power 127 is one (`SquareShifts`, `PowersDouble`,
`PowersReturn`), and as 127 is a prime no power before it is (`NoReturn`). `Wire` and
`Arrived` take this from two sequences of bytes to the reply, the checksum and the
verdict.

`AcceptedIffIntactHolds` is the property itself, for two flips at most and replies of
at most 14 bytes, whose bits are all near enough (`FewAreNear`); that there are at
most two is `Few`, an invariant. The bound on the reply is exact: the code does accept
one of 15 bytes with two flips 127 bits apart. TLC finds that with `MaxReply = 15`
(one command, one byte), and nothing with 14.

**ButtonProofs.** `InStep` says what the two handlers know of each other: an event
about to be reported differs from the state, and the last event told was a release
exactly if the state is up. From it `HandlersInStep` and `Refinement`: `Report`
tells a press or a release, `Repeat` a repeat while the state is down, nothing
else tells anything. It needs no assumption on time. `TypeCorrect` adds that no
alarm is ever later than `Late` and that the pool is never overfull; it rests on
`InStep` and on three lemmas about the sequences of pending alarms.

`RepeatsAreInTime` takes `Paced`. Of the chains of repeats that are pending at most
one is the last press's (`Live`); the others have seen a release, and run and end
before the next press is old enough for a repeat (`Dead`); `Chains` says that there
are no third ones, `Ages` how the timestamps stand to the event decided on. It
assumes `OnTime`, that alarms are late by less than a debounce: with 1, 50 and
1000 ms in `button.h` that is an alarm less than 1 ms late. When they may be later, two
chains are possible (see *Disagreements*).

`SettledIsPin` is about the last edge: its alarm is the youngest, and when it runs
the timestamps are still those it was added for (`Follows`). It takes `Prompt`, and
that this alarm exists. That is one theorem, `SettledUnlessRefused`, about every
behaviour in which the pool refuses no alarm (`NoAlarmRefused`). It says nothing of the others, and there are such: the Pico's
default pool holds 16 alarms, which three buttons share, and a chain of repeats that
has seen its release stays in it for up to a second. With a pool that refuses an
alarm TLC finds a settled state that is not the pin's (`Pool = 3` in
*Disagreements*). `Button_Bounce` has a pool of 6, in which none is refused.

**BurnShiftProofs.** `WithinLimit` follows from `Bounded`, which says for each point
of core 1's decision where the step it has chosen may lead, and for each of the
limits' that they are the ones it clamps to, unless the cores have met.
`PanelShowsFrame` needs four more: `Leads` (before the offset the panel is black, which
is why a meeting is remembered as `"past"`), `Drawn` (the cells refreshed so far show the
frame), `Within` (a step begins and ends within the limit) and `Complete` (a fresh
picture is whole wherever core 1 is after the drawing, and once it has moved whole
but for the lost row). The proof goes through the strip at either end of either
axis, so that the row is the exact exception.

**MenuListProofs.** `SomewhereInTree` follows from `Placed`, `OnPath` and `OnItem`: the
stack is a path, and the selection is in the list except between a change of the
list and the first step of the init. `SelectionIsShown` needs to know what the update
has done so far *and that it is still true*: `Calm` says that no handler has asked for
an update since this one began, nor is about to, and `Begun` says what then holds at
each of its steps, up to `RowsDone(n)` for the rows before the n-th. A handler
that changes anything leaves `Calm`, and `Redraw` alone enters it.

**GuiProofs.** What either core has left to do is a sequence of steps; `LoopShape`
and `ButtonsShape` say which sequences there are. On top of them: `Boot` (what has not been bound
yet), `Seen` (when both cores bind, `raced` remembers), `Fresh` (what is shown is
the binding's screen, or the flag is up, or a step is left that will raise it or
draw), and `Flags`, about the two flags of the select button: gui.c's and the
list's agree (`Agrees`) except where a callback is between the two, or has just
opened the list or left it (`Opened`, `LoopOpens`, `Forsaken`). From these
`ChangesAreShownHolds` and `SelectsWhatIsShownHolds` follow without any
assumption. `PoolsSufficeHolds` and `BindingIsWholeHolds` also need `Fits`: unless
`raced`, one core alone binds, and the objects on the list are those of the
layers it has filled so far. They assume that the pools hold the largest page (`Ample`:
12 text boxes, 3 rectangles, 1 line and 13 objects; `graphics.h` has 18, 8, 8 and
34), however many pages there are.

Not proved, only model-checked: liveness (`ReadIsAnswered` and the like), which is out of
reach of the provers under fairness. Every other property of the runs is a theorem,
`SettledIsPin` about the behaviours in which no alarm is refused.

## Not modelled

- In the GUI: the fading of the contrast; the marquee and the layout of text. One
  thing about the marquee is known from reading: its index is not reset when a
  text is printed, so a shorter text is not drawn until the marquee's next step
  (`graphics.c:162`, `173`, `459`).
- The texts on the heap, which are freed and printed by both cores
  (`graphics.c:67`, `274`), and the objects of a page that a late update of the page
  before still writes to: a title is printed in the init only
  (`menu_list.c:216`), and `general_info.c` prints to the same box of the pool.
- The first opening of the menu, where an update between `gui.c:133` and
  `menu_list.c:203` finds no objects yet.
- The cell voltage page, which `config.h` leaves out.
- A torn read of a button's 64-bit timestamps by the other core.
- Status lights, fonts, drawing, SPI traffic, logging: nothing depends on them.
- The verdict on the battery's health (`health_info.c`): arithmetic on values
  that were read.
- The USB UART of the project's README: there is no code for it but a predicate
  nobody calls.
- Transfers that never end, and a battery that is not an SMBus device.

## Plan

1. `StaticQueue`, `Mitm`, `BatteryCache`, `SmbusCrc`, `SmbusRead`, `Button`, `Gui`,
   `MenuList`, `BurnShift`: done.
2. `TextLayout`: `render_g_text_box` and the marquee against a reference that
   breaks and cuts lines by definition.
3. Composition: `Gui` with `Button`, so that the interleavings a callback can
   meet come from the debounce and not from a bound; `Gui` with `BatteryCache`, in
   place of its free callbacks.
4. Proofs: every safety property of the runs, done.
