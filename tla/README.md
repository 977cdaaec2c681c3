# Formal models of the CrossPoint reader firmware (lock-screen fork)

TLA+ models of the firmware under `src/`, checked by TLC on small instances and,
where it matters most, proved by TLAPS for every value of the constants. Paths
below are relative to `src/`; `main.cpp` is `src/src/main.cpp`.

## 1. The system

The program is the firmware of an ESP32-C3 e-paper reader: one process, two
FreeRTOS tasks of equal priority, an SD card, a flash with two application
partitions, and a panel that keeps its picture without power. There is no
process to outlive: the device spends nearly all its life in deep sleep, and
every deep sleep, every "silent restart" and every power loss discards the whole
of RAM. What survives is the SD card, the flash and a few words of RTC memory.

| Component | State | Operations | Talks to |
|---|---|---|---|
| Activity manager (`src/activities/ActivityManager.cpp`) | current activity, stack of suspended ones, one pending navigation, `requestedUpdate`, rendering mutex, task notifications | push / pop / replace, `loop()`, `requestUpdate()`, `requestUpdateAndWait()`, `goToSleep()`; the render task's loop | every activity, `main.cpp` |
| Boot, main loop, sleep (`main.cpp`) | RTC flags of a silent restart, `activeDashboardMode`, inactivity timer, sleep flags | `setup()` routing, `loop()`, deep sleep, timed (dashboard) sleep, power-off | activity manager, HAL, CrossPointState |
| Lock-screen dashboards (`src/activities/{github,weather,tempest}`) | Connecting / Fetching / Showing / Failed, `autoRefresh` | connect, fetch, show, sleep and poll | WiFi, HTTP or UDP, battery policy, `main.cpp` |
| Battery policy (`src/activities/dashboard/DashboardPower.cpp`) | RTC: last reading, drain rate, minutes since | assess, adjust the poll interval | dashboards |
| Persistent state (`src/CrossPointState.cpp`, `lib/Serialization/PersistableStore.*`) | JSON files on the card | load, save | `main.cpp`, reader, sleep screen |
| Firmware update (`src/network/{FirmwareFlasher,OtaBootSwitch,OtaUpdater}.cpp`, SD and OTA activities) | two application partitions, two boot-selection slots | validate, erase, write, switch | flash, bootloader |
| CPU power lock (`lib/hal/HalPowerManager.*`) | `currentLockMode`, `isLowPower` | lock, unlock, `setPowerSaving()` | render task, `main.cpp`, WiFi |
| Readers (`src/activities/reader`) | position, section cache, bookmarks | page turn, build a section, save progress | Epub engine, progress files |
| Epub / Txt / Xtc engines (`lib/Epub`, `lib/Txt`, `lib/Xtc`) | cached sections on the card | index, lay out, deserialize | ZIP, XML, fonts |
| KOReader sync | remote and local position | authenticate, fetch, map, push | HTTP, progress mapper |
| Web server, WebDAV, Calibre, USB drive | upload in progress, card ownership | receive, rename, delete, mount | card, network |
| WiFi selection, credentials | scan results, saved networks | scan, connect, save | WiFi stack |
| Settings, home, file browser, OPDS, keyboard, dictionary | list cursors, queries | select, edit | stores, network |
| Graphics, fonts, text (`lib/GfxRenderer`, `lib/EpdFont`, `lib/MiniBidi`, ...) | frame buffer, glyph caches | draw | panel |

### Which behaviours are hard

* **Two tasks, one current activity.** The main task destroys, suspends and
  replaces activities; the render task calls `render()` on whatever is current.
  One mutex stands between them, and activity callbacks run outside it.
* **Deferred navigation.** A push, pop or replace is only recorded; `loop()`
  carries it out later, in several steps, and runs code of the activities
  (`onExit`, result handlers, `onEnter`) in between, which may navigate again.
* **Blocking on the other task.** `requestUpdateAndWait()` sleeps until the
  render task has drawn; it can be woken by a render that began too early.
* **Sleeping is a crash on purpose.** `goToSleep()` runs one iteration of the
  loop and then powers the device down; what that iteration did not do never
  happens.
* **Storage owned by a host.** While the USB drive activity runs, no code may
  touch the card: not even a deep sleep.
* **Half-done persistence.** Files are truncated and rewritten in place, a
  firmware image is written over minutes, the boot selection is erased and
  then written.
* **Uploads that interleave.** A WebSocket upload spans hundreds of calls of the
  server's loop; whole requests of other clients, about the same names, come
  between its messages.
* **A page number without a layout.** What the reader keeps are page numbers,
  which mean something only in the layout they were counted in; the layout may
  change, be rebuilt or be half built when the number is used.
* **State read without its mutex.** `setPowerSaving()` reads the lock, then
  changes the clock and then the flag, in either task.
* **Whole percents.** The battery policy predicts from a fuel gauge that moves
  in steps, over polls that may be minutes or hours apart.

### What makes each component correct

| Component | Properties |
|---|---|
| Activity manager | the drawn activity is alive; `onEnter`/`onExit` are paired; a result reaches the handler registered for it; updates, wake-ups and navigations are not lost; the swap looks atomic |
| Boot and sleep | every sleep resumes where it should; a dashboard is disarmed when the user leaves it; no boot loop |
| Dashboards, battery policy | an unattended dashboard always goes back to sleep; a poll never repeats faster than configured; the rate estimate ignores charging and noise |
| Persistent state | a save interrupted anywhere leaves a loadable file or the defaults |
| Firmware update | after any interruption the bootloader starts a complete image |
| CPU power lock | the flag is the clock's; the radio never meets the low clock; a slow CPU under a lock is brief |
| Uploads | a file holds one client's bytes; what a client was told is stored stays; a complete file goes only when a request says so |
| Reader, section cache | the next page drawn is where the reader was sent, whatever was re-laid out; pages already laid out are not lost; rendering ends |

## 2. Modules

| Module | What it is |
|---|---|
| `ActivityManager` | the activity manager, its render task, and what `main.cpp` and activity code ask of it |
| `NavStack` | abstract specification: an atomic stack of activities and a renderer of the top one; `ActivityManager` implements it |
| `OtaBootSwitch` | operators: the two boot-selection slots, which one counts, what `switchTo()` writes |
| `FirmwareUpdate` | both update paths over the two partitions, with a power failure between any two steps (extends `OtaBootSwitch`) |
| `AtomicUpdate` | abstract specification: what would start changes in one step, to the image on offer; `FirmwareUpdate` implements it |
| `BootCycle` | wake-up, routing, reader, dashboards, the ways to sleep, and the persistent state that links one life of the RAM to the next |
| `Uploads` | WebSocket and form uploads, WebDAV PUT, MOVE, COPY and DELETE, rename and delete, on one card, with the caches of the books |
| `BookShelf` | abstract specification: a whole book appears, moves and goes in one step, and a client is told of a book that is there, except under a stray name, from which a file was taken while it was being uploaded; `Uploads` implements it |
| `SectionCache` | the laid-out pages of a spine item on the card: whole, partial, being built |
| `EpubReader` | the reader's main and render task over it, the progress file included (extends `SectionCache`) |
| `PowerLock` | the CPU clock, its flag and its lock, with each caller of `setPowerSaving()` |
| `DashboardPower` | the discharge history in RTC memory, the prediction from it, and a pack that really drains |
| `MC...` | model values for TLC, one per component |
| `..._proofs` | the TLAPS proofs, one per component |

The components touch at few points, each modelled once on either side:
`goToSleep()` (the activity manager decides whether the sleep screen is reached;
`BootCycle` takes both outcomes under `GoToSleepDispatches`), and a recovery boot
(`BootCycle` routes to it, `FirmwareUpdate` starts from it). `PowerLock` has the
main loop and the render task of `ActivityManager` and the ways to sleep of
`BootCycle` as far as they touch the clock; `BootCycle` takes every verdict
`DashboardPower` computes.

### 2.1 ActivityManager

`mpc` and `rpc` say where the main and the render task are; a step of either is
the code between two points at which the other may run or take the mutex. `ctx`
names the activity callback the main task is in (`onEnter`, `loop`, a result
handler, the loop of an exclusive-storage activity, or `setup()`): the code of
an activity is outside the manager, so in `mpc = "run"` it may make any sequence
of the calls `Activity.h` offers. Activities are identities of four kinds (home,
light panel, exclusive storage, other); what the panel shows of one is the bit
`stale`. `render(RenderLock&&)` receives a reference, so the mutex is held until
the iteration of `renderTaskLoop()` ends (`RenderKeepsMutex`).

| Actions | Code |
|---|---|
| `SetupLaunch`, `TakeScreenshot`, `UsbStateChanged`, `LockScreenHandOff`, `GoToSleep`, `Reboot` | `main.cpp`: `setup()`, `loop()`, `enterLockScreenSleep()`, `enterDeepSleep()`, `silentRestart()` |
| `SuppressedRelease`, `HomeGesture`, `HomeGestureHandled`, `LightPanelGesture`, `RunActivityLoop` | first half of `ActivityManager::loop()` |
| `StartActivityForResult`, `Finish`, `ReplaceActivity`, `RequestUpdate...`, `LockState`/`WriteState`, `WriteStateUnlocked`, `CallbackReturns` | what activities call |
| `DispatchLocks`, `Pop...`, `LaunchHome`, `Replace...`, `PushSuspends`, `InstallPending`, `DispatchDone`, `FlushUpdate` | second half of `loop()` |
| `RenderWakes`, `RenderBegins`, `RenderRequestsUpdate`, `RenderEnds`, `RenderNotifiesWaiter`, `RenderUnlocks` | `renderTaskLoop()` |

`LockedWrites` separates the two disciplines found in the code: state written
under a `RenderLock`, as `docs/activity-manager.md` asks, or without, as the
dashboards do. `RequestUpdateAndWait` is not taken by home activities, which
never call it.

### 2.2 FirmwareUpdate

Images are model values: complete ones of this board, complete ones with the tag
of another board, damaged ones, and one too big. A partition holds one piece of
an image per place; sizes count pieces (`CHUNK`), `EraseBlock` is `BLK`. A piece
whose write is cut short is left unwritten or garbage, a boot-selection slot whose write
is cut short is erased or torn. What the card holds is chosen afresh each time it is
read, so it can be exchanged between validation and write. The bootloader is
external: it starts the partition named by the eligible slot with the highest
sequence number, or the other one if that does not verify, and knows no board
tags. After a failed download the device restarts, or, on boards with touch, goes on
(`OtaFailureDismissed`, `OtaFailureLeft`). `Init` contains every boot selection a device can have, those of a
fallback boot included. `esp_ota_begin()`'s erase of the partition is one step;
the connection and version screens of the over-the-air path are not modelled;
chip or header mismatches and errors of the flash are `InstallFails`. Exchanging
the card between the close of the validation and the reopening inside
`flashFromSdPath()` itself is left out.

### 2.3 BootCycle

`pc` follows `setup()` (`setup`, `wake`, `present`, `frame`, `route`), `loop`
and the four ways down (`sleep`, `halting`, `timed`, `powerOff`). `saveToFile()`
is two steps, truncation and completion, with a loss of power possible in
between; an unreadable file loads as the defaults. `rtc` is the RTC word of a
silent restart, `frame` the file `sleep_frame.bin`, `panel` what is visible.
`reading`, `selfOpened` and `crashes` are history variables for the properties.
`"quick"` in `SleepScreens` also stands for quick resume after a timeout. The
radio is switched off when a dashboard is entered, so `wifi` stands for the
dashboards' `wifiUsed` as well. `ColdBootImpliesPowerButton` is the board's answer
to that question (`HalGPIO.cpp:281`; section 5, item 15). Left out: a card that is missing or fails to write, the USB drive
(see `StorageOwnerStays` in `ActivityManager`), the questions a dashboard asks
when it is not configured, and how a battery level is computed.

### 2.4 Uploads

One task serves HTTP and WebSocket in turn, so an HTTP request is a sequence of
steps that only a loss of power interrupts, while a WebSocket upload (`ws`) stays
open across requests. A file is the body it was created for and the pieces
in it; `ws.path` is the name an upload was started for, `ws.at` follows the open file
through a rename, and what is written through
the handle of a removed file is lost. An upload that is given up removes whatever is
called `ws.path` by then, and one that has received all its bytes is answered `DONE`
whatever became of the file, as in the code. `promised` is a history of all
answers (`DONE`, 200, 201, 204), the wrong ones included, up to the next request about
the name. `strayed` is a history of the names whose WebSocket upload lost its file to a
request while it was open; a name leaves it when an upload of it is answered whose file
is there. The code keeps no promise about such a name (section 5, items 4 and
5); all other names are what the properties speak of. A client sends the bytes of its last START; the data of
a START that was refused is taken from nobody. Leaving the screen is
`StopServer` on boards with touch and a restart, that is `PowerLoss`, on the
others. Clearing a cache and removing a file are assumed to succeed, a left-over
`.davtmp` is dropped, and there is no claim that the slot of a client that
vanished silently is freed: the library's heartbeat is off.

`BookShelf` is what all these ways promise together. Its `book` is `Books`: the
files that are whole and that neither an upload nor a request has open, so what is half written
is no book, nor is the copy that a COPY still writes; its `told` is `promised`, and its
`stray` is `strayed`. Only under a stray name may a client hear of a book that is not
there (`Says`) and may a book go without a request (`Lose`, the abort by name). The one
other step that is not a client's is `Restart`: a file that was open when the power went may turn out whole, and nothing else may change. That no book disappears then,
and that no rename or PUT takes a book's name while it is there, is the content
of the refinement: a PUT over a book is two steps, a removal and a move, and
a reader of the card between them finds no book under that name.

Not modelled: POST
without a file part, folders, and the endpoints for settings, OPDS, WiFi and
fonts.

### 2.5 SectionCache and EpubReader

Text is counted in units and a layout is the number of units on a page, which is
all the reader's position arithmetic uses. `bin` is what is on the card, `section` the
`Section` object; a build writes a temporary file that replaces `bin` when it is
complete or suspended, and pages are drawn from whichever has them. `rpc` follows
`renderBook()` (`open`, `plan`, `reach`, `place`, `extend`, `load`) and
`saveProgress()` (`save`, `replace`); `mpc` the main task, which changes
`currentPage` without the mutex and takes it before it resets the section.
Every allocation, build or save may fail, and power may go between any two
steps. A turn that races with a reset of the section dereferences null: that is
a `PowerLoss`.

`place` is a history: where in the text the next page drawn has to be. It is
set where the reader is *sent* (link, bookmark, chapter, turn) and checked where
a page is *drawn*, so `KeepsPlace` spans the tasks, the re-layout, the progress
file and restarts. A turn sets it also while a render is under way, whose next page has to be
that of the turn: `pageTurn()` takes the mutex and gives it back before it changes the page. What has to be kept across a change of settings is the start
of the page that was read: that is all the code remembers (`StillThere`). A jump to
a percentage sets none: it is proportional by design. The
history makes no promise (a tag of its own, or `NoPlace`) in the situations where
the code does not keep the place, each found by TLC or by the proof: a turn or a skip back while
the render task opens the section again (`Reopening`, after a page that could not be loaded or a
change of layout), which then overwrites the page number and loses the turn; a skip back while a
section is extended with a reposition still deferred, which moves the page once more; a turn past
the last page of a partial file, which passes over the rest of the chapter; a jump that
was pending when another one arrived (`leftover`), an offset kept from a page
that was never drawn (`origin`), a save during which the main task turned the page
(`unsaved`), power lost while a page is being drawn, clearing the cache, which
saves a page number without its offset, a page moved in proportion to the number of
pages because no offset was known (`Reposition`), and a return from the end of the
book with a reposition still deferred (`Deferred`). `PageCountAssumption` says what
`Section::pageCount`, a `uint16_t`, can hold: a jump to the last page asks for page
65535. A link is two actions: `NavigateToHref`, and `HrefUnresolved`, where the address leads
nowhere and a position is taken off the stack whether or not one was put there. Not modelled: the jump to a text reference on
opening, automatic page turns, scrubbing, KOReader sync, bookmarks without an
offset. `EstimatedTotalPages` is taken to be right.

### 2.6 PowerLock

Each read and each write of `setPowerSaving()` is a step of the task in it;
`setCpuFrequencyMhz()` may refuse (`refused`). `mpc` is one iteration of
`loop()`: input, the checks for sleep, the activity, the delay that ends it.
Time is counted in ticks since the last activity. Activities are what `main.cpp`
sees of them: `busy` (`preventAutoSleep()`), `usb` or plain. That the radio is
started only after input, by a dashboard that was just handed over, or while
the activity prevents sleep is read off the activities under `src/activities`.
A sleep that finds the render task's lock in place goes on without one of its own
(`HalPowerManager.cpp:212`); the device then prepares to sleep at either clock, which
no property forbids.

### 2.7 DashboardPower

Time is in hundredths of an hour and charge in hundredths of a percent, so a
pack that loses *d* %/h loses *d* units per tick and every quantity is an
integer; rates are rounded down to a thousandth, where the code has floats. The
epoch of the baseline is replaced by its age. The pack drains at a constant rate;
the user may have a dashboard poll early, the clock may be set back, a charger
may come and go, seen by a poll (`PluggedIn`, `Unplugged`) or by none (`ChargedUnseen`), and a
reading may be off by an element of `Noise`. Left out: the smoothing of readings on the X4, a clock
that jumps forward, and a charger no poll saw that raised the reading by no more than `RISE_NOISE`
(three percent). The code takes that for noise: it goes on with a baseline from before the charge,
and TLC shows that the prediction is then too optimistic for `PredictionIsNear`.

## 3. What is checked

Each property below is broken by at least one plausible fault in the
code, written next to the definition it would replace (`...Unguarded`,
`...Uncounted`, `faulty:`).

| Run | What it shows | States |
|---|---|---|
| `am_core` | Five activities of all four kinds, two suspended: the drawn activity is alive; `onEnter`/`onExit` are paired; a result meets its own handler; storage lent to a USB host stays lent; navigation is atomic (`NavStack`) | 1.3 million |
| `am_live` | Under fair scheduling, with locked writes: `requestUpdateAndWait()` returns with the caller's state on the panel and does return; no update and no navigation is lost | 11,000 |
| `fw_core` | Both update paths, any boot selection, every kind of image, a power failure anywhere: the device always starts an image of its own, a reported success is one, the switch is atomic (`AtomicUpdate`) | 700,000 |
| `bc_core` | A board that tells a cold boot from the power button; every sleep screen, two dashboards: crashing books are opened at most twice; the splash is left out only over a sleep frame; an armed timer finds its dashboard on the card; a committed sleep is not undone by a restart; the book of the last sleep gesture comes back | 476,000 |
| `bc_live` | A touch board whose cold boots count as presses and which sleeps again on USB power; `goToSleep()` may return early. Under fairness unattended dashboards power down whatever the network does, and a committed sleep ends | 86,000 |
| `bc_ghost_wake` | *violated*: a press that is not held ends the polling while the frame stays | |
| `up_core` | Two WebSocket clients, form uploads, PUT and every request about files, on two names: no file mixes two uploads; what a client was told is stored stays so; a complete file goes only when a request says so; together the ways to store a file are one shelf (`BookShelf`); all this but for an upload whose own file a request took away | 469,000 |
| `up_stale_cache` | *violated*: a WebDAV MOVE over a book leaves its cache to the one that takes its name | |
| `rd_core` | A book of two chapters, two layouts, three requests of the user at any point of a render, any failure and loss of power: the page drawn is where the reader was sent; pages are drawn from a file of the current layout; laid-out pages are not lost; rendering ends | 824,000 |
| `pl_core` | Both tasks inside `setPowerSaving()`: the flag follows the clock; the radio is on at full speed only; a stale read of the lock does no lasting harm | 21,000 |
| `db_core` | Packs of three rates, three poll intervals, from a charge until paused, with charging seen and unseen, early polls and a clock set back: a predicted pack that was not paused has most of what the longest sleep takes (`PredictionIsNear`), and a predicted dashboard that polls often does not die without a warning on its frame (`NoUnannouncedDeath`) | 5.6 million |
| `db_noise` | *violated*: one reading ten percent low pauses a dashboard whose pack lasts for a day | |

### Bounds

* `MaxDepth = 2`: handlers relate neighbours of the stack, so two suspended
  activities and the current one show every relation, a light panel between
  parent and child included. The proofs hold for every depth.
* `MaxNotify = 1`: `ulTaskNotifyTake(pdTRUE)` clears the count, so one and more
  are the same to the render task. `am_live` has two activities and one level:
  waiting and updating do not depend on the depth.
* `PartSize = 3`, `EraseBlock = 2`: the last erase block is cut off by the end of
  the partition, one image fills it, one is too big, one stops short of it.
  `MaxSeq = 3` bounds the counter, whose parity alone decides; it allows two
  updates in a row and, with every initial selection, each case of `NewSeq`.
* One book, one or two dashboards (a Tempest and another one, as they connect
  differently): the code compares no two books, and the mode is one number. The
  load count is only tested for zero, and never exceeds one (`TypeOK`).
* `Uploads`: two clients, two names and two bodies are enough for an upload to meet
  another upload, a request about its own file and one about the target; a body
  has two pieces, so that it can be cut, or none.
* `EpubReader`: chapters of three units and one, one or two on a page: a
  layout has a page the other one splits, a chapter ends with a page that is
  not full, and a partial file has fewer pages than the margin asks for.
  `MaxAsked = 3` requests (a turn, a jump, a change of layout in any order).
  Four requests also held with one chapter of five units, and three with a chapter of four
  and an empty one; a page moved in proportion needs five units to differ from its place. `MaxDepth = 1`, `MaxRetries = 1`: full at once.
  The run allows deadlock: at the bound the user stops asking.
* `PowerLock`: `Idle = 2`, `Timeout = 3`, the smallest values with room before and between;
  the theorems hold for all. `slow` stops at 2, which is the violation.
* `DashboardPower`: `MaxUpsets = 2` early polls, unseen charges, bad readings or steps of the clock;
  chargers that a poll sees are not counted. `MaxAge = 600` is longer than the longest interval. Charges start near full and a little above the thresholds;
  intervals are below an hour, around it and above the stretched one.
* `crashes` and histories are bounded by the behaviour itself (`NoBootLoop`);
  two is reached, by a restart after a sync followed by a wake-up.

### Fairness

* `ActivityManager`: both tasks have priority 1 and are time-sliced, and neither
  is kept from a mutex both take: strong fairness of the render task's steps and
  of the dispatch. Callbacks return; the user does not gesture in every
  iteration and activities do not navigate in every callback for ever.
* `BootCycle`: weak fairness of the main task's own steps (`setup()`, saves, going down);
  strong for steps between which the user may come in; connection attempts and
  downloads have timeouts (`ConnectTimesOut`, `Fetch`). Nothing is assumed about
  crashes or power: a crash in an unattended dashboard is an allowed outcome of
  `UnattendedSleeps`.
* `EpubReader`: weak fairness of the render task and nothing about the user, who
  may or may not ask for something meanwhile.
* `FirmwareUpdate` and `Uploads` make no liveness claim: the user may switch the
  device off, a client may fall silent. `PowerLock` and `DashboardPower` are about safety only.

## 4. What is proved

The assumptions are those named in each module (kinds disjoint, sizes positive,
`None` not a value), and nothing about how many there are.

* **ActivityManager** (`TypeCorrect`, `RenderSafe`, `Lifecycle`,
  `DispatchMakesProgress`, `ResultsAreRouted`, `StorageOwnership`,
  `WaitIsSound`, `Refinement`). `Inv` = `ControlInv /\ OwnInv /\ HandlersMatch`.
  `ControlInv` says that the mutex follows from where the tasks are and that the
  phases of a dispatch determine which pointers are null; without it nothing
  excludes a render in the middle of a swap. A part of it, `PendingHasActivity` (a
  pending push or replace has an activity, so the dispatch loop does not spin), is
  proved and has no run of its own. `OwnInv` adds who owns what. `HandlersMatch` is
  needed because a result is delivered long after its handler was registered:
  it relates each suspended activity to the one right above it. `WaitIsSound`
  assumes `LockedWrites`, and must (section 5, item 8). `Refinement` is over
  `NavStack`, at every depth.
* **FirmwareUpdate** (`UpdateTypeCorrect`, `BootableThroughout`,
  `OwnBoardThroughout`, `SuccessIsReal`, `UpdateRefinement`). The device is
  bootable because the running partition always holds a good image and is never
  written (`RunningIsGood`). That the selection is safe needs what is already in
  the other partition: while it is being written a foreign image never reaches
  its last piece (`Written`), from the switch on it is complete (`Complete`),
  and the slot being rewritten is the one that does not count (`SlotIsFree`),
  which rests on lemmas about `ActiveIdx`, `NewSeq` and `Selected`.
* **BootCycle** (`BootTypeCorrect`, `SleepFinality`, `TimerSound`,
  `CrashBound`). `CrashBound` needs `CrashesAreCounted`: after a first crash the
  load count on the card is one or the file is unreadable (which loads as "no
  book"), so the next `setup()` opens it only if the count is zero; and
  `SyncIsOrderly`: the restart that does not count loads is only reached by
  leaving the reader in order. `TimerSound` needs the save to be complete before
  the timer is armed (`Armed`).

* **PowerLock** (`PowerTypeCorrect`, `ClockIsKnown`, `RadioIsSafe`,
  `StaleReadIsHarmless`). `PowerInv` explains why the missing mutex is harmless:
  the render task enters `setPowerSaving()` only to raise the clock and only under
  a lock (`RenderOnlyRaises`), so a main task that read the lock before that can
  still lower the clock, but not while the render task raises it
  (`MainLowersAlone`): one of the two sees the flag of the other. Hence the flag
  is behind the clock only between its two writes (`ClockAndFlag`). The radio
  needs two more parts: whatever may start it has a restore before it
  (`FastBeforeRadio`), which for a hand-off is true only because it is carried
  out before the device can be idle again (`HandOffIsFresh`). The model
  is checked without its type invariant, which `PowerTypeCorrect` proves.

* **BootCycle**, on top of the above: `BookComesBack`, `SplashSkippedOverFrame`.
  `Lives` relates how a life of the RAM began to what it holds; `BookKept` follows
  the book of the last sleep gesture from RAM (while the reader leaves) to the
  card (while the device is down) and back, past any polls of an unattended
  dashboard in between; `FrameKept` says that wherever `showBootScreen` is off, in
  RAM or on the card, the panel shows a sleep. Both theorems have a hypothesis about
  constants of the model, which take both values in the runs. `BookComesBack` needs that
  `goToSleep()` reaches the sleep screen (`GoToSleepDispatches`; otherwise the load
  counts as a crash, section 5, item 9). `SplashSkippedOverFrame` needs in addition a board
  that can tell a cold boot from a press, on battery and on USB (`TellsWakesApart`; item 15).

* **Uploads** (`UploadsTypeCorrect`, `FilesAreOneClients`, `PromisesAreKept`,
  `CompleteFilesStay`). What must be known is who has which file open.
  `CardIsPure`: every file is the beginning of the body it was created for.
  `UploadInProgress` and `RequestInProgress`: the file written through an open
  handle is where `ws.at` or `req` says, has received exactly what was counted, and
  the two are not the same file. An upload whose file is not under its own name any more has that
  name in `strayed`. The promises kept are `promised \ strayed` (`Kept`): no open upload is at
  such a name, and `PromisesHold` says that its file is complete and its cache is not
  another book's. `CompleteFilesStay` has the abort by name as its one exception (`AbortTakes`). What the
  code breaks there is in section 5, items 4 and 5.
  `UploadsRefinement` maps each step to one of `BookShelf` or to a stutter; an abort that deletes
  a file of another client is a `Lose`, and is shown to happen under a stray name only. It needs
  the same facts, because what a step shows on the shelf depends on what is open:
  a WebSocket piece or the end of a request makes a book appear only
  if it completes the file and no other handle has it open; a request that creates, truncates
  or fills a file does so where no book is (`RequestInProgress`: the
  file of a request at work is open, or is a `.davtmp`); and a rename's target is
  free, which for PUT follows from the order of its steps. The shelf's names and bodies are
  the constants of `Uploads`, whatever they are.

* **SectionCache and EpubReader** (`ReaderTypeCorrect`, `PagesStayReadable`,
  `CurrentLayoutIsDrawn`, `LaidOutPagesStay`, `ReadersKeepTheirPlace`).
  `CacheFits` relates the three page counts of a section (laid out in this build,
  on the card from an earlier one, announced to the reader) and the layout each
  belongs to; `TurnsOK` says which steps of the main task may find the section
  gone. With the lemmas about `PageOf`, `StartOf` and `Pages` (the page of a start
  is that page, pages are in order, the last unit is on the last page) these give
  the first four theorems. `KeepsPlace` is not inductive by far, as it speaks only
  of the moment of drawing: `PlaceInv` says for every point of both tasks where
  the place is known from. Before the section is open it is known by the offset of the deferred
  reposition, by a page number that nothing deferred interferes with, by a jump to the
  last page, by an anchor or by a bookmark (`Leads`); once the page is placed, by
  that page (`Shows`); and while the device is off, by `progress.bin` together
  with the layout of the file it counts pages in (`OnCard`). The parts that only
  support these say that a jump is used up when its page is found
  (`JumpsUsed`), that what was deferred has lapsed wherever it could turn a page
  into another (`Repositions`), and that a whole file has all the pages of its
  layout (`FilesWhole`).

* **DashboardPower** (`HistoryInRange`, `PredictionsAreNear`,
  `WarnedBeforeDeath`). The first: whatever is read and whenever, the kept
  rate is below the largest plausible one and the samples fit their byte. The
  other two assume `Exact` (no `Noise`: a reading is the charge rounded down to a
  percent; what one bad reading does is the subject of `db_noise`, and of section 5, item 7) and are for
  packs of any charge and rate, any interval and early polls at any time. Readings are rounded down, so a drop of
  *n* percent is a loss of less than *n* + 1 and shows at least *n* / (*n* + 1) of the
  rate: half of it, whatever the time between two polls. This stays true when rates are
  averaged, when polls come early, and when the clock goes back, which costs the
  baseline its age; a charge a poll saw leaves no history, and one that none saw, if large, a new baseline,
  so what is kept is of this pack (`NearInv`, `HistoryIsOfPack`). With the margin of 1.5, a
  predicted pack that is not paused holds three quarters of the longest sleep: `PredictionsAreNear`.
  The longest sleep is two hours at least, so that is enough for any sleep below an hour and a
  half. A dashboard that polls more often than that sleeps longer only if it is Low, and then the
  low battery shows on its frame: `WarnedBeforeDeath`. That a Low one survives its stretched sleep as well,
  which is what the code's comment says, is not true (section 5, item 7).

Only model-checked: all liveness, which is out of the prover's reach. No action of a model is left
out of the proofs about it.

## 5. Where the code and its comments disagree

Three of these have a run, which checks the quoted statement and is *violated*;
the counterexamples are short and can be replayed by hand.

1. (`bc_ghost_wake`) "The dashboard frame stays on the panel; the RTC timer wakes
   us for the next poll" (`main.cpp:317`): the mode is left before a ghost press
   is rejected.
2. (`up_stale_cache`) "the matching book cache is cleared so stale metadata is not
   reused" (`docs/webserver.md:100`): MOVE clears the cache of the source only,
   COPY none, and the cache is found by path alone.
3. (`db_noise`) "a single noisy reading must never trigger a power-off"
   (`DashboardPower.cpp:88`): it may be the second of the two samples asked for.

The others were met while modelling. The models do what the code does, and the properties are
stated so far as it does what it should; what they leave out is named with each.

4. "Incomplete WebSocket uploads are deleted on disconnect or error"
   (`docs/webserver-endpoints.md:457`): `abortWsUpload()` (`CrossPointWebServer.cpp:224`) deletes by
   name. One client's upload of *f* is under way; a request deletes or renames its file; another
   upload of *f* is stored and answered 200; the first client disconnects, and the complete file is
   deleted. `WholeFilesStay` allows this one step (`AbortTakes`), and `PromisedFilesLast` and
   `BookShelf` except such names (`strayed`).
5. "Server sends `DONE` when complete" (`docs/webserver-endpoints.md:433`): it is
   sent when the bytes have been written (`CrossPointWebServer.cpp:1766`), also to a file that a
   request deleted while the upload was open, so that nothing of it is on the card. Such names are in
   `promised` and in `strayed`.
6. "From the footnote, you can return to your original reading position"
   (`USER_GUIDE.md:604`): `navigateToHref()` takes a position off the stack for every address that
   does not resolve (`EpubReaderActivity.cpp:2434`), also when it put none there: the section
   could not be opened, or `MAX_FOOTNOTE_DEPTH` positions are saved. The model does so too
   (`HrefUnresolved`); no property says that a saved position is used.
7. "pause only if a trusted prediction says the pack won't survive the interval we'd ACTUALLY sleep ...
   otherwise we could stretch into a sleep the battery can't finish"
   (`DashboardPower.cpp:95-98`, `DashboardPower.h:44-47`): a drop of one percent may be a loss of almost two, and the
   margin of 1.5 does not cover that. At 11 %/h and ten-minute polls, 23.86 % read as 22 (one
   percent low), then 21.99 as 21 and 20.12 as 20 are two samples of 5.9 %/h; 20 / 5.9 is more
   than 1.5 times two hours, and the dashboard, Low, sleeps for two hours with charge for 1.83. With
   exact readings it happens too (10 %/h, polls every ten minutes): after the clock was set
   back, or after two early polls of which one comes exactly `MIN_DELTA_HOURS` after the last. Hence
   `NoUnannouncedDeath` is about dashboards that are not Low, and `PredictionIsNear` about three
   quarters of the sleep.
8. `requestUpdateAndWait()` "Blocks the calling task until the render completes
   ... designed for cases where you need the screen to reflect new state"
   (`docs/activity-manager.md:159`). It returns after the next render that
   finishes, also one that began before the call; the dashboards write state
   without a lock and then power down. (`am_live` has `LockedWrites = TRUE`.)
9. `goToSleep()`: "sleep screen must be rendered immediately" (`ActivityManager.cpp:338`).
   Its single `loop()` returns early on a suppressed release or a home gesture,
   and the outgoing activity's `loop()` may replace the pending `SleepActivity`.
   One consequence: the reader's `onExit()` does not run and its load count
   looks like a crash at the next wake-up.
10. "PICKING / CONFIRMING: a sub-activity is on top" (`SdFirmwareUpdateActivity.cpp:261`):
   not after a panel gesture at the start of a recovery boot.
11. "Boot to home screen if no book is open, last sleep was not from reader"
   (`main.cpp:673`): arming a dashboard does not update `lastSleepFromReader`.
12. A restart in `onExit()` "would just power the device back up against the
   user's sleep gesture" (`main.cpp:164`): `enterLockScreenSleep()` does not set
   the latch that prevents it.
13. From a footnote one returns to the original reading position
   (`USER_GUIDE.md`, Footnote Navigation): not after the layout has changed
   meanwhile, as `savedPositions` holds a page number.
14. `onReturnFromEndOfBook()` asks for the last page of the last chapter
    (`EpubReaderActivity.cpp:1093`). If that chapter's section is still loaded
    nothing consumes the request, and it is carried out when another chapter
    opens. Nor does it, or `skipPages()` (`:1064`), clear a deferred reposition, as every other
    jump does: after clearing the cache, a change of layout and a skip to the end,
    the return lands on the page that was left instead of the last one. No
    comment speaks of it; `KeepsPlace` makes no promise there.
15. "Only a verified deep-sleep wake may use the one-shot persisted flag. Otherwise a
    stale flag could suppress the splash on a cold boot" (`main.cpp:592`):
    `isSleepWake` is true for every `WakeupReason::PowerButton` (`main.cpp:513`),
    which `HalGPIO.cpp:281` also gives a cold boot on battery where
    `coldBootImpliesPowerButton()`. `enterDeepSleep()` saves `showBootScreen = false`
    before `goToSleep()` draws (`main.cpp:285`): power lost in between leaves the
    splash out over whatever the panel showed.
16. "Existing files with the same name are overwritten" (`docs/webserver-endpoints.md:124`,
    `docs/webserver.md:99`): only PUT does so. A form upload and a WebSocket START of a name
    that exists are refused (`CrossPointWebServer.cpp:706`, `:1670`).

## 6. Not modelled, and the plan

Pixels, layout, fonts, text shaping and vendored code stay out: they are
sequential data transformations with no state that outlives a call, and they are
most of the repository's lines (glyph tables and hyphenation tries alone are
more than half). The other components are listed with the reason in `PROJECT.json`.
What is left, in order:

| Modules | What is worth stating |
|---|---|
| `PersistentFiles`: `PersistableStore`, `ProgressFile`; abstract "old, new or default" | what a reader finds after a crash at any step; `ProgressFile.h:56` removes before it renames |
| The pressure trend (`TempestDashboardActivity.cpp:328`) and the ring of sleep images (`CrossPointState.cpp:63`) | the reference reading is as old as it should be; the ring reads back what was pushed |
| `UsbDrive` (hand-off, host timeouts) composed with `StorageOwnerStays` | the card is returned exactly once |
| `WifiSelection`, `ProgressSync` (KOReader) | one attempt at a time, timeouts against late answers; the position never goes back unasked |
| `StreamingJsonParser`, `FirmwareBoardTag` scanner split over chunks | a tag across a chunk boundary is found |

Further places that are hard to test and that no model reaches: no memory for an
activity (`ActivityManager.cpp:330`), the panel powered down without a
`RenderLock` (`main.cpp:321`), a COPY whose read fails (`WebDAVHandler.cpp:634`).

Proofs to come: the theorems of the modules listed above.
