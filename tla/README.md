# A specification of the ASIC tuner

This directory specifies the tuner in `src/tuner_app`: a Python service that
drives Bitcoin mining rigs over their network API, searches for the voltage and
the per-chip frequencies at which each rig is most efficient, and then keeps it
there for weeks. One *engine* with one *worker thread* owns one rig; HTTP
threads, a scanner and the process's own death interfere with it at any moment,
and the rig itself reboots, refuses and disappears.

The modules are TLA+, checked with TLC on small instances; the eight
`*Proofs` modules are checked with TLAPS for every value of the constants.

Paths below are relative to `src/tuner_app/` and, where no directory is given, to
`src/tuner_app/tuning_engine/`.

## 1. Inventory

| Component | State it keeps | Operations | Interacts with |
|---|---|---|---|
| Engine life cycle and retry loop (`engine.py`, `lifecycle.py`, `recovery.py`, `phase_runners.py`) | `running`, `phase`, `thread`, `pre_offline_phase`, retry and offline counters, `last_exit_was_recovery`, `_iteration_confirmed_good_at` | `start`, `stop`, `start_retune`, `start_fine_then_retune`, `start_remeasure_queue`, `destroy`; `_run`, `_run_inner`, `_phase0_*` | HTTP threads call the first group; the worker runs the second |
| Main loop, checkpoint and resume (`engine.py`, `persistence.py`, `chip_tune_orchestration.py`) | `vf_surface`, `voltage_results`, `in_flight_chip_tune_target`, `stable_freq_arrays`, round counters, `tuning_complete`; checkpoint and profile files | one turn of the main loop; save, restore, delete | exploration, chip-tune, monitor; the disk |
| Chip-tune (`chip_tune_loop.py`, thermal handler in `monitor.py`) | the frequency of each chip, `chip_max`, stillness streak, polish round | Phase 3 round, Phase 3b round, emergency throttle, hashing break | application, main loop |
| Perpetual monitor (`monitor.py`, `perpetual.py`, `retune.py`) | `active_sweep_voltage_mv`, sweep reference, `voltage_adjustment_mv`, `_monitor_offline_hits`, announcement flag | monitor cycle, nudge, restart, re-rank, fall back to uniform; `select_voltage_profile` | HTTP thread and worker share the references without a lock |
| Voltage and frequency application (`apply.py`, `voltage_safety.py`) | `min_voltage_mv`, the PSU's verified range | `_phase1_set_voltage`, `_apply_stable_freqs`, `_apply_uniform_freq`, settling waits | every stage |
| Remeasure queue (`lifecycle.py`, `engine.py`) | `remeasure_queue`, the entry just dropped from `vf_surface` | enqueue, clear, drain by the main loop or by a runner of its own | HTTP threads append and clear; checkpoint |
| Fine-grid and retune runners (`phase_runners.py`, `retune.py`) | none of their own | fine grid, then retune of one voltage | thread slot of the engine |
| V/F exploration (`exploration.py`, `grid.py`, `scoring.py`) | the grid, the surface, the anchors | next coarse cell on a ray, next fine cell, next candidate to chip-tune | main loop; the operator changes the grid and the ranking |
| Measurement (`measurement.py`) | none | one cell: apply, settle, sample, record | application, recovery |
| Rental publication (`mrr_sync.py`, `mrr/`) | announcement flags, nonce and its file, rental cache | publish a status (rented guard, then update), draw a nonce, refresh the cache | `stop()` and worker both publish; a daemon and HTTP threads both write the cache |
| Braiins phases (`braiins_phases.py`) | window, samples, best wattage; profile | sample, narrow, hold and re-sample, search again | same retry loop; operator's limits, market |
| Whatsminer phases (`whatsminer_phases.py`, `whatsminer_grid.py`) | baselines of the modes, anchor of the percentage, results, three cached settings | discover modes, measure a coarse and a fine grid, hold, search again on drift | same retry loop; the miner's own settings |
| Status and logging (`status.py`, `logging_.py`) | ring buffer | `get_status`, `compute_tuner_bucket` | dashboard |
| Miner API clients (`miner/`) | sessions, rate gate, cached DTOs | commands of six firmwares | every stage |
| Fleet manager (`manager/`, `miners_routes.py`) | engine registry, files of each id | look up or create, remove, reset, partial reset, change firmware, re-key | scanner, HTTP; orphaned workers |
| Scanner (`scanner/`) | the cycle, the addresses it skips | probe, resolve an id, register, re-key, retarget | manager, configuration |
| Configuration (`config/`) | settings file, `MINER_CONFIGS`, `MINER_IPS` | save, restore, validate, migrate | everything |
| HTTP server and authentication (`http_server/`, `auth/`) | sessions, failed logins | routes, login | manager, engines |
| Metrics (`metrics/`), profitability (`profit/`) | SQLite roll-ups, market snapshot | sample, prune; score | monitor |
| Network helpers, entry point, dashboard, tests, research scripts | none that matters here | | |

`PROJECT.json` has the same list with the status of each.

### What is hard

* **Threads.** A step of the worker is a blocking call; `stop()`, a selection of
  a profile, an enqueue and a clear come between any two of them, and several
  attributes are read before such a call and written after it
  (`perpetual.py:202-247`). A publication is two requests, and two threads publish
  (`mrr_sync.py`). Removal, reset and re-keying take the manager's lock for
  a moment at a time (`manager/bulk.py`), while workers go on.
* **Failure.** Every call may raise one of four recoverable exceptions or a fatal
  one, and much of the code catches some of them and goes on. What is on the
  rig, in memory and on disk may then be three different things.
* **Crash and resume.** The process is killed between a checkpoint, a profile
  and the removal of the checkpoint; between the renaming of a miner's files and
  the save of its new id; between drawing a nonce and writing it.
* **Retries.** Four counters at three levels (offline filter, retry budget,
  Phase 0 breaker, monitor outages) reset each other.
* **Order.** Chips are judged one by one on the array that earlier moves of the
  same round have changed; voltage and frequency must move in the right order.
* **Stale state.** A cache of what was last sent to a miner, a snapshot of the
  configuration that a daemon works off for a minute, the address of an engine.
* **Searches.** Grids, rays and windows are worked out anew on every turn, from
  results and settings that have changed since.
* **Liveness.** A tune has to settle, a stop has to be seen, offline mode has to
  end, a request has to be served.

`PROJECT.json` lists 40 hazards with the line where each bites; two of them have
no property, with the reason.

## 2. Modules

An action is one step of the thread that runs it: a blocking call, with
what the code does after it until the next one. Definitions named `X_Variant`
are wrong versions of `X`; nothing uses them; they document what a property
distinguishes.

### RetryLoop: the worker and its retry loop

`RetryLoop.tla` is `_run`, its `except` clauses, Phase 0 as `_run_inner` enters
it, and the operator calls.

| Specification | Code |
|---|---|
| `pc`: `top`, `reset`, `contact`, `disable`, `await`, `main`, `handle`, `nap`, `poll` | the loop test; the post-recovery reset `engine.py:719-744`; `_phase0_*`; Phase 0's end; the tuning proper; the `except` clauses `engine.py:565-667`; the sleeps; `_wait_for_miner_online` |
| `fault` | the exception: `MinerOfflineError`, `MinerCommandPending`, `MinerNotReady`/`MinerCommandError`, `VoltageSafetyError`, any other |
| `goodAt` | age of `_iteration_confirmed_good_at`: `never`, `recent`, `old` (past `SUCCESSFUL_RUN_SEC`) |
| `miner` | what the rig lets calls do: `ok` (may still fail any), `stuck`, `storming`, `gone`; changes on its own |
| `vf` | history: is the V/F on the rig one the engine set? `inherited`: unknown to a new process |
| `failures` | history: recoverable failures since the rig was last seen good |
| `Spawn`, `Stop`, `ProcessRestart` | `lifecycle.start/stop/...` under `_control_lock`; a new process |
| `RetuneDone`, `RetuneFails`, `RemeasureEnds`, `RunnerFails` | the runners that own the thread slot without a retry loop |

### TuneResume: the main loop and what survives

`TuneResume.tla` is the loop of `_run_inner` after Phase 0: measure an
unmeasured cell, else chip-tune an untuned one, else settle and monitor. Around
it are its two files. A cell is a pair of voltage and frequency. A per-chip array
is described by its provenance (which cell, how far, throttled or not), which is
what the properties can tell apart. Phases 3, 3b and 4 are stepped through
with their counters and their checkpoints, because a kill between any two of
those is the point of the module. `Restorable` is `restore_saved_state`: the
profile if there is one, otherwise the checkpoint.

A cell may be measured again, and that changes the surface without a save of the
profile: `TakeRequest`, `Drop`, `Remeasure`, `RemeasureFails` are the branch of the main loop,
`StartDrain`, `DrainTakes`, `DrainMeasures`, `DrainFails`, `DrainEnds` the runner that drains a queue
while nothing else runs. `complete` is `tuning_complete`: settling skips the save when it is
set (`engine.py:878`), and only the main loop's branch takes it back
(`_maybe_clear_tune_complete`). `Select` is a profile selected at any moment, which saves
the profile as the engine is, a tune under way included. `since` is history: what has changed
the surface or the results since the profile was saved (`loop`: measured or tuned by the main loop;
`drained`: by the runner; `dropped`: a request of the main loop that failed and may have been cleared;
`resumed`: a tune resumed from a profile that a selection had saved in the middle of it).

### ChipTune: the chips of one cell

`ChipTune.tla` is Phase 3, Phase 3b, the thermal handler and the resume check of
one cell. Frequencies are numbers on a grid (`Snap` is the rounding to
3.125 MHz); a health score is the branch it selects. The chips of a round are
judged in order on the live array, as in `chip_tune_loop.py:281-340`. `bad` and
`bent` are history: the lowest frequency at which a chip was unstable or hot,
and the boards a throttle has left outside the loop's own rules.

### Perpetual: the monitor

`Perpetual.tla` is one monitor cycle step by step: re-rank, first entry, fall
back to the uniform frequency, sleep, sample, nudge, settle, restart. Next to
it runs the HTTP thread in `select_voltage_profile`, the process's death, the
rig's network, and cells measured in between by the main loop. A profile is its
voltage, an array the profile it belongs to (None: a cell under measurement).
`Apply`/`PartlyApply` are `_apply_stable_freqs` done and given up half-way, with
the voltage gate and the 50 mV rule. `doubt` is history: what may lag behind the engine's belief since a failed or a
pending step, the `voltage`, the `file`, or what a selection touches (`operator`).
Each is cleared by the step that repairs it: a selection's doubt by the next
application, restart or nudge that the worker takes from the references and carries
out with no selection between the two (`Alone`). `crossed` marks a nudge that a selection
came between.

### RemeasureQueue: cells measured again

`RemeasureQueue.tla` is the queue, the surface and the file a restart restores.
The same drain is run by the main loop of a tune (which sniffs the cell's place
in the fine grid, saves and passes exceptions to the retry loop) and by
`remeasure_runner` (which does neither). HTTP threads enqueue and clear.

### VoltageApply: from one V/F point to another

`VoltageApply.tla` is `_phase1_set_voltage` (one frequency for all chips, the
voltage always written) and `_apply_stable_freqs` (an array for each board, a rise
of up to 50 mV not written). A command is accepted at once (`setV`, `setF`) and
carried out later (`volt`, `clock`), by the PSU and by each board at its own pace.
`BeginApply` reads the voltage the direction is decided by; `FailApply` leaves the rig
wherever it is, the last command carried out or not, and the next application
starts from there. `blind` is history: what this application did not see (a voltage it
could not read, an output still ramping at its start, a wait that ended early). A wait for
the voltage ends when the output is less than `SettleTolerance` off the command
(`SETTLE_VOLTAGE_TOLERANCE_MV`, `apply.py:112`); the output may then still be on its
way, or stay where it is.

### The three strategies

The firmware decides what the worker runs after Phase 0 (`_run_inner`'s
dispatch). `Worker.tla` has what the three share: `running`, the thread's place,
start, stop and kill. `VoltageApply` is a fourth part, the step the first
strategy applies a point with.

**Exploration** is the loop of LuxOS, ePIC and Bixbit miners. The grid and its
fine grids are functions of an *era*, the settings between two edits of the
operator; positions are steps of the hardware and what a position scores is the
parameter `Score`. Every turn (`Turn`) looks for a coarse cell on a ray of the best
ones (`NextCoarse`), a fine cell around the anchors (`NextFine`), a candidate to tune,
and monitors when there is none, as `exploration.py` and the loop of `engine.py` do it.
An entry of the surface carries the anchor it belongs to; `FineAnchors` works the anchors
out anew on every turn, and `Converted` makes a visited anchor a fine cell of its own.
Measurements and tunes fail within `faults`; the operator changes the era; a
kill restores the profile alone, or the checkpoint when there is none.

**Braiins** is the wattage search: sample the two ends and the middle, narrow the
window towards the best, hold the best ever sampled, and sample it again each
cycle; the re-entry after the window widened. The profit of a target is a `curve`
which the market may exchange, and the operator sets `limits`.

**Whatsminer** is discovery of the power modes, the grid of power limits and
frequencies, the fine grid, and the held cell with its drift. A frequency is set
as a mode and a percentage of a baseline; `cache` is what the engine believes it has
sent (`_wm_current_*`) and `liveWm` what the miner has. The two differ by design: `set_target_freq`
sends `int(percent)` (`Whole`), the cache keeps the exact value, as the pair of a frequency
and a baseline. Discovery reads the baselines: what the miner runs at if its summary `tells`, the
`Fallback` of 500 MHz otherwise, for every mode alike. A miner without a mode may say so with a code
(`says132`), or with words that are not recognised; the exception then comes again at every retry
until the retry loop gives up. `doubt` is history: the settings
a failed command, the probe or a kill left unknown.

**Tuner** is their abstract specification: a machine that learns one point at a
time and forgets none, chooses only among points it knows, and holds its
choice until it searches again; a crash may lose points but never keeps a choice
without its point. **Strategies** composes the four parts (`strategy` says which
one runs; they share no state) and gives the refinement mapping
`T == INSTANCE Tuner WITH mode <- Mode, known <- Known, choice <- Choice`.

### The process around the workers

**Nonce** is the signing nonce: drawn under a lock as the larger of clock and
last value plus one, written at best, loaded by a new process. **Listing** is
the publication of one rig by the worker (its places are the calls of `mrr_sync` and
what lies between them) and by HTTP threads; `publishing` holds the intent of each
thread between its two requests. `excuse` is history: why the rig need not be what
the engine's state asks for. **RentalCache** is the daemon's cycle over a snapshot,
rig by rig, and the entries HTTP threads write themselves.

**Fleet** is the registry, the engines as objects (the thread of a destroyed one
lives on, and an engine may live without being registered), the files and the
tasks of HTTP threads, cut where they hold no lock. **Discovery** is what a probe
makes of an address: the fingerprint that wins, the password, the id.
**Scanner** adds the cycle and the registration with its re-keying to `Fleet`.
**Migration** is the start of a process on a configuration keyed by address, up
to the save. **Server** composes them; `part` says which one runs. **Absent** only
declares `None` for the modules that `Server` extends.

### How they compose

The modules cut the engine along its own levels, each leaving one stage to
another module: `RetryLoop` has the tuning as one stage `main`; `Strategies` opens that
stage for the three firmwares; `TuneResume` has the first of them with a failure as a jump to
the top and the chips as a provenance, and leaves the choice of the next cell to `Exploration`;
`ChipTune` has one cell; `Perpetual` is what `TuneResume` calls one `Monitor` step;
`RemeasureQueue` is the branch of the main loop that comes before all others;
`VoltageApply` opens the step that `Perpetual` calls `Apply` and `TuneResume` begins
a cell with. `Listing` is what all of this looks like from the rental market, `Fleet` what
an engine looks like from the manager: a thing with an address, files and a thread.
`Strategies` and `Server` compose parts that share no variable but the worker, so
they run the parts one at a time: interleaving them would multiply the states
and add no behaviour of any part.

## 3. Runs

| Run | Instance | What it shows |
|---|---|---|
| `retry_loop` | budget 2, offline threshold 2, breaker 3, all four miner conditions (430 k states) | the properties of `RetryLoop` |
| `tune_resume` | two voltages with a cell each, one round per phase, a cell that appears late, any number of stops; four scenes: a kill with every fault; a kill and unreachable cells with a request to the main loop, and with one to the drain runner; a kill with a selection (3.4 M states) | resume, persistence and settling |
| `chip_tune` | three chips on a board, one of them dead, a configured range that is off the clock grid at both ends, a spread of two steps, two emergencies or breaks, two rounds without a move or 12 in all to finish (780 k states) | bounds, memory of bad frequencies, progress that does not fall, resume |
| `perpetual` | two profiles, a step that overshoots its cap; every kind of fault without selections, and selections at every point with refused commands (1.3 M states) | cap, maintained voltage, persistence, end of an outage, the voltage gate against the race |
| `remeasure_queue` | a coarse and a fine cell, any number of requests, stops and kills (1.7 M states) | no cell twice, none forgotten, each request served |
| `strategies` | 17 scenes of the exploration, 11 markets, 8 Whatsminers, and two boards on four levels for the application (106 k states) | what each search finds, that it ends, that it is a tuner; the order of the commands |
| `server` | a clock up to 3; one HTTP thread that publishes; two miners and rigs with two edits; one MAC and one made-up id on two addresses with three engines, two HTTP threads and three requests; two entries to migrate with one id to make up (1.75 M states) | a rig without a worker is not offered, a removed miner stays removed, engines follow their miners, the cache catches up, nonces grow, a migration loses no file |
| `retry_budget`, `tune_own_result`, `tune_same_voltage`, `perpetual_entry`, `remeasure_atomic` | | the disagreements of section 6 |

Every run ends within three minutes on two workers.

### Properties

*RetryLoop.* `GivesUpWhenNeverGood`: the retry budget of an engine that was
never good cannot be stretched by offline spells, busy firmware or time.
`SafeVfBeforeTuning`: after a recovery the V/F is reset before anything is tuned,
through stops, new workers and failed resets. `DeathIsReported`: a worker that
ends unasked shows as an error, whichever clause ended it. `StopEndsWorker`,
`StormTripsBreaker`, `OfflineModeEnds`: liveness.

*TuneResume.* `CrashResumesCell`: before the first profile a kill in the middle of
a chip-tune comes back to that cell. `MonitoredIsSaved`: whenever the monitor runs, the profile
holds what the main loop has measured, measured again or tuned; only the three causes that `since`
names can have left something out. `TunedVoltagesStay`: no step loses the result of a tuned
voltage. `TuneSettles`: on a calm miner the loop ends, with whatever was left.

*ChipTune.* `BoardsWithinBounds`: range and spread on the live array, for boards
that were not throttled. `NeverRetriesBad`: no chip climbs to a frequency it was
bad at, through stops and resumes, until a resume discards the cell.
`ConvergedStays`: without a throttle, whatever the scores do, a chip that can no longer step
up stays so, so that none goes up and down until the round cap ends the phase.
`ResumeKeepsProgress`: without a throttle a resume keeps every frequency and `chip_max`,
unless a chip is at a limit that rounding has moved out of the configured range.

*Perpetual.* `AdjustmentCapped`; `Maintained`: unless the latest step that should
have set it failed, the rig is at the profile's voltage plus the adjustment,
within the rise too small to write; `AdjustmentIsSaved`: a resting monitor's profile
and adjustment are on disk. Both say so after selections too: one under way,
or one that a nudge crossed, excuses the rig until the worker's next own step and the file until the
next save. `OutageLeavesMonitor`: again and again the miner answers, is stopped, or the
monitor has been left; `VoltageInPsuRange`.

*RemeasureQueue.* `OneEntryPerCell`; `FineStaysFine`; `KillLosesNothing`: every cell
an earlier restart would have known of, a later one knows of too, but for what
the operator gave up; `QueueMoves`.

*VoltageApply* (run `strategies`). `CommandsInOrder`: whatever fails and wherever an
application starts, the rig has not been told to run a clock that the voltage it was told
does not carry, but for the rise that is never written. `ShortfallBounded`: while the waits see what
they wait for, no clock is further above what the output carries than that rise and the settle
tolerance allow: the shortfalls of successive applications do not add up.

*Strategies.* `SettledInValley`: where the score has one valley and nothing fails, a
settled exploration has tuned a cell no coarse cell beats, though it measures a
fraction of the grid, and wherever it was stopped or killed. `PeakHeld`: with evenly falling
profits and steady limits the wattage held is within the tolerance of the best
allowed one, but for a watt. `MeasuredAsLabelled`: a Whatsminer cell that some mode can reach is measured at the
limit of its label and at a mode and a percentage that give its frequency to within 1.01 % of the
baseline the engine goes by (what `int` cuts off, and what counts as the same percentage),
unless `doubt` names a setting the code lost sight of; the miner runs there
where that baseline is what its percentages refer to.
`ImplementsTuner`: each loop implements `Tuner`. `Settles`: a search that goes on ends,
through failures, kills, edits and drifting markets, but for an exploration that has two cells of one
voltage to tune (`Contended`); that one ends, too, once an edit takes one of the two off the list.

*Server.* `Truthful`: with no publication under way, an engine without a worker is not
offered and an announced monitor is, unless `excuse`; `RemovedStaysRemoved`: nobody who
outlives a removal brings files or an engine back; `EngineAtItsAddress`: an engine
talks to its entry's address as soon as the scan has registered it;
`CacheCatchesUp`: after the last edit the rental cache comes to show the configuration,
whatever snapshot was being worked off; `NoncesGrow`: over restarts and clock corrections a
nonce is above all before it, unless the file was not written and the clock behind;
`MigrationLosesNoFile`: a migration killed at any point leaves each file under the id its
entry has, unless the id changed.

### Bounds

* Retry thresholds are small but keep the order the code has (breaker above the
  offline threshold, so that offline mode is entered before it trips). The proofs
  hold for all values.
* Two cells are what the provenance properties need: one that was finished and
  one that begins. They have different voltages: with two at one voltage the loop does
  not settle (`tune_same_voltage`).
  One kill at every point: a second kill starts from a state that a first
  kill also reaches, as the restored fields are all the new process has. The requests, the runner's
  drain and the selection are asked for once, each in a scene of its own with the faults that
  bear on it: together with every fault they would multiply the states of the tune and add
  no way for them to change the surface. The proofs
  hold for any grid, any number of kills and all of these at once.
  `VF_EXPLORE_TOP_K` is at least the number of cells, so every usable cell is a
  candidate; `Exploration` has the choice among more.
* `ChipTune` has one board with two live chips, the least at which the spread cap
  couples moves. Boards do not interact, and the proofs hold for any number.
  The configured range is 7 to 14 on a clock grid of 3, so that the loop's range is 6 to 15 and a chip at
  either end is one the resume check does not accept. `Rounds` is 12: more than a quiet cell needs and
  fewer than the slowest one takes, so that both stillness and the cap end the phase.
  One emergency suffices to take a board past the spread.
* `Perpetual`: two profiles on a range that the cap overshoots at both ends, so
  that the PSU clamp, both caps and the refusal by the gate occur. `hits`
  saturates at the threshold, past which it is never read differently. `Scenarios` lets
  faults and selections occur in separate behaviours but for refused commands.
* `RemeasureQueue`: queue and surface are unbounded in the module; the type
  invariant shows, and `RemeasureProofs!TypeCorrect` proves, that the queue stays within
  one request per cell and one more (for a cell requested while in flight).
* `VoltageApply`: two boards are what a partial write and a wait that looks at one of
  them need. Four levels with a tolerance of 2 and an unwritten rise of 1 leave one clock that
  outruns the output by more than both. `BoardCount`, `MaxLevel`, `Close` and `SettleTolerance` are
  parameters of the proofs.
* `Exploration`: grids of 25 cells without and of 9 with a fine grid of 3 by 3, one or
  two anchors, rays and candidates, and landscapes whose valley lies in the middle, at
  an edge, in a corner and along either diagonal: ridges are what rays miss first. Two
  eras suffice to strand an anchor that was the best of an older ranking. One scene has its two best
  cells at one voltage, and an era that takes one off the list. `faults`
  bounds failed measurements and tunes.
* `Braiins`: windows of up to 24 W with a tolerance of 2 are three halvings; peaks at both
  ends and inside, an inverted window, a window that moves, a peak that moves. The window
  of 0 to 11 W with its peak at 8 is the one where the rounding of the quarters costs the watt that
  `PeakHeld` allows beyond the tolerance: 5 and 11 W earn the same, the window becomes 3 to 7, all of which the sample at 5 stands for, and
  5 W is held.
* `Whatsminer`: a 2 by 2 grid with and without a fine grid, each kind of anchor, hardware
  without a mode that says so or does not, a miner with the low mode alone (a cell that no mode reaches), miners whose
  frequency is not told and whose low mode runs at the fallback or below it, one failure (`faults`) of a command or of the process.
  The baselines of 2, 4 and 6 give whole percentages, the fallback of 3 gives some with a part to cut off.
* `Server`: `Requests` bounds the requests and registrations of a behaviour of the fleet. Three
  are a removal or re-keying, a look-up that races it and a task already half done.
  `Edits` is 2, a change and its reversal during one of the daemon's cycles. `MaxTime` is 3, so that a clock
  set back can be behind several nonces. A made-up id is used once (`MadeUp`).

### Fairness

`WF_vars(Worker)` in the engine's own modules: the operating system schedules the worker
thread and every call it makes has a socket timeout, so it returns or raises. In
`RetryLoop`, `TuneStopped` and `StopPolling` are fair on their own: they are the checks of
`running` that the tuning and the polling loop make again and again, and a
conjunct of `Worker` would allow another step of the worker in their place for
ever. `Strategies` adds strong fairness of a successful first contact, sample, measurement and
tune: a miner that fails every call for ever lets no search end, and none of the loops
counts such failures (the retry loop does, `RetryLoop`). For the same reason a discovery that is
refused again and again is given up (`GiveUpRefused`): its retries use up the budget of `RetryLoop`. The weak fairness of `Turn` is written
`[]<>(pc # "loop" \/ ~running)`: a running worker at the head of its loop can always turn, so
the two say the same, and TLC need not evaluate `ENABLED Turn`. `Server` has weak fairness of the
cache's daemon and of a refresh an HTTP thread has begun; the rest of it is safety.
Nothing is assumed of the operator, the network, the rig or the clock; where a
property needs them to be quiet, it says so in its antecedent
(`<>[](calm /\ running)`, `<>[]~reach`, `<>[](miner # "gone")`).

Deadlock is checked in every run but `server`: its fleet may use up its `Requests` and its
operator the `Edits`, after which nothing need happen. Elsewhere, where an engine really
rests, an action exists that may always happen (a start, a request, `Done`).

## 4. Proofs

Each module proves `Spec => []IInv` from `Init => IInv` and
`IInv /\ [Next]_vars => IInv'`, with a lemma for each group of actions, and takes
the properties from `IInv`.

`RetryLoopProofs` (from `RetryLoopAssumption`: positive thresholds).
`IInv == TypeOK /\ OfflineFilter /\ BudgetPaid /\ ResetComesFirst`. None of the properties
is inductive alone. `GivesUpWhenNeverGood` bounds a history counter, so
`BudgetPaid` ties it to the code's: while the engine was never good, every failure has been
paid for in `retries`. `SafeVfBeforeTuning` needs `ResetComesFirst`: the recovery flag
covers every suspect miner, and no stage after the reset is reached with the
flag up, except by a stopped worker or by a retune. `TypeOK` needs
`OfflineFilter`: outside offline mode the counter is below its threshold.

`ChipTuneProofs` (from `ChipTuneAssumption`: an odd grid, the firmware floor on the
grid, a seed within the range; and from `SnappedAssumption`: the step and the seed are on the
grid, as the code rounds them at `chip_tune_loop.py:140` and `chip_tune_orchestration.py:156`).
`IInv == TypeOK /\ Counting /\ BoardsWithinBounds /\ Remembered`. `Counting` gives the
counters room where a repeated round takes one back. `Remembered`: unless a
resume threw it away, `chip_max` is at or below every bad frequency, from which
`NeverRetriesBad` follows step by step. The lemmas on `Snap` (rounding never
crosses a grid point) carry the range. `ProgressIsKept` is proved for every configured range, on the grid or
off it: the loop rounds the range to the grid and the resume check does not, and the theorem
says exactly which cells are thrown away for that (section 6).
`ProgressDoesNotFall` is what the comment at `chip_tune_loop.py:324` says of the completion the
dashboard shows: a chip climbs only while its `chip_max` is unbounded, and once it has been found unstable
the step up stays blocked (`Climbing`) until a throttle, a polish or a resume that starts the cell again.

`RemeasureProofs` (from `RemeasureAssumption`). `IInv == Carried /\ WorkerOK`, where
`Carried` is what memory, the file, the runner's thread and the history owe one
another and holds between any two steps, and `WorkerOK` is what the place of the worker
adds. `OneEntryPerCell` and `FineStaysFine` are two sides of one fact, that a cell has no entry
or one that fits it; it is inductive only together with the file a kill restores from and
with the cell in flight, whose entry has been dropped and whose place is
remembered. `NothingIsLost` is an action property; it needs `Kept`: what the file
holds, the engine holds too, or it has been given up. The lemmas on sequences say what
appending, putting back at the head and taking from it do to the set of a queue's cells.
`TypeCorrect` bounds the queue. `OnceQueued` is the reason: behind its head a queue has no cell twice,
and none at all while a cell is in flight, which is when the head may be put back although it
was requested again meanwhile; so the tail is an injection into the grid, which is finite.

`VoltageApplyProofs` (from `VoltageApplyAssumption`). `IInv` says of each place of
an application what it relies on there: `SeenOK` the voltage read, `WayOK` the direction,
`WrittenOK` the boards that have their clocks, `OutputOK` what has been waited for.
`RoomOK` strengthens the two properties: with nothing missed, the commanded *and* the
actual clocks fit the commanded voltage, and the actual one but for the tolerance, as either may follow at
any moment. `BoundedShortfall` then says why one bound serves any number of applications: each wait
measures the output against the command, so that what a former one left short is not carried over.

`TuneResumeProofs` (from `TuneResumeAssumption`: a finite grid, and a `None` that is no cell, no
array and no file). `IInv == TypeOK /\ Marked /\ Working /\ Completed /\ Behind`. The three
properties are about what a restart would find, so the lemma `Writes` comes first: a step
leaves `Restorable` alone or makes it agree with the engine on results and marker.
`Marked` (without a profile the disk has the engine's marker) and `Working` (the marker
names the cell in hand) give `CrashResumesCell`; `Completed` ties `tuning_complete` to the
profile: as long as it is set the profile has the surface and the results, but for the causes in
`since`, and none of them is the main loop's own work; that gives `MonitoredIsSaved`; `Behind` (no voltage is on disk that the engine has
no result for) with `VoltagesKept` (only a kill takes a voltage from the engine) gives
`TunedVoltagesStay`.

`PerpetualProofs` (from `PerpetualAssumption`: profiles and the safe voltage within the
range of the PSU). `IInv == RefsOK /\ VoltageInPsuRange /\ AimOK /\ NoOther /\ Underway
/\ Held /\ Saved`. `RefsOK` (profiles are profiles, adjustments are capped, also on
disk) and `AimOK` (so is the nudge under way) hold whatever an HTTP thread does; the
lemma `Nudged`, that clamping a capped proposal to the PSU's range never takes it past the
cap because the profile itself is within the range, carries both `AdjustmentCapped` and
`VoltageInPsuRange`. `Held` and `Underway` speak of a monitor that no selection is interfering with:
`NoOther` says that `operator` is in doubt whenever one is under way or has crossed the worker's step. `Saved` holds
through selections: each puts the file in doubt, until a save takes everything with it.
`Held` is `Maintained` for every place between two commands, and with the voltage the
frequency application aims at; `Underway` covers the places where belief and rig differ: a
nudge that has not settled, a winner of the ranking not yet applied. `AppliedNear` is
why an application that fails halfway does no harm to a voltage that was right.

`StrategiesProofs` proves about the three searches for any grid, limits, market and miner.
`StrategyInv` says of the strategy that runs its own invariant, and of the two others that
they are as they began.

* `ExploredInv`: each entry's position is measured once; what is tuned, in the marker or next is a
  position of the surface, in memory and in both files. What the loop picks is defined by rankings of
  finite sets, so the lemmas `LastExists`, `RankExists` and `BestAmong` come first: a finite set with a total order
  has a last element, listing it in order gives each element once, the best `k` of a set are
  among it. `LastExists` is a first-order argument over a well-founded order (`WFMin`), which is as
  close to an induction as the provers here come.
* `SearchedInv`: the window stays open and within the limits ever set, the best and the held wattage are
  among the sampled ones, and so are those on disk.
* `PeakInv`: under a steady market whose profits fall evenly off a peak, either a sample lies within the tolerance
  and a watt of the peak (`Spotted`), or the search is `OnCourse`: there is a set of windows that frame the peak, from
  the full one on, each with its three targets sampled and the next among them, except the furthest. The
  furthest holds no other samples than its own targets (`Clear`). A window that is not `Wide` and has samples near
  all its targets has one near the peak (`UnspottedWide`); a wide one has samples at its targets, none of which stands for another
  (`Apart`), so that it narrows by exact comparisons and keeps the peak (`NarrowerFrames`). As the course is a
  set of windows and not a history, it survives a kill that restores fewer samples: the new search goes
  the old way until it meets a window whose targets are not all sampled, and that is the furthest. `PeakChosen`: once
  some sample is within `Reach`, the best one is, as the nearer of two targets earns more.
* `GriddedInv /\ LabelledInv`: the held cell is one that was measured; for each of the three cached settings, what the
  miner has is what is left on the wire of what the engine believes (`CacheTold`), or `doubt` names it; the settings already
  passed are what the cell wants (`KnobsSent`). From the latter, `MeasuredAsLabelled`: the lemmas `WholePercent` and `NearEnough` say
  that a percentage cut to an integer, and one that was kept since it was the same to 0.01, still give the
  frequency to within 1.01 % of the baseline.

`StrategiesAreTuners` then takes each action of the three loops to a `Begin`, `Learn`, `Choose`, `Hold`, `Crash` or
a stutter of `Tuner` (`Known`, `Mode` and `Choice` are functions of what the invariant speaks of). The theorems have the hypothesis
`Scores`: what a ranking makes of a position is an integer or `None`, as `scoring.py` returns a number or nothing. It is a
hypothesis and not an `ASSUME` because it quantifies over all positions, which TLC cannot enumerate; `MCScore` satisfies it.

`ServerProofs` has one conjunct of `ServerInv` for each part; a step of one part leaves the others' state alone.

* `NonceInv`: as long as the last save succeeded, value and file are the highest nonce ever
  drawn, so that a load cannot fall behind it; `NoncesGrow` follows for the spoiled case
  from the clock.
* `ListingInv`: `Truthful` speaks of moments without a publication under way. Its invariant says at every
  moment what the *latest* publication is about to do: `Withdrawn` (without a worker the rig is off, or its
  latest publication withdraws it), `Dying`, `Offered`; an overtaken publication is an `excuse`.
* `CacheInv`: the types of what a cycle and a thread hold.
* `FleetInv`: `FleetFits` is what registry, engines, files and the tasks of threads without the lock owe one
  another. `Emptied`: a removed id has an engine or files only while a removal task is about to take them.
  `Writers`: an engine that may still write is registered under its id, about to be destroyed, or lost.
  `Single`: no two ids, nor two re-keyings under way, have the same engine; without it a new address given to one
  engine could take another id's engine away from its entry. `Rekeyed`: a re-keying leads from a made-up id to a
  MAC. `Followed`: a registered engine is at its entry's address, or reads another id's entry, or is about to be
  removed, re-keyed or told (`Telling`). `RemovedStaysRemoved` is `Emptied`, `EngineAtItsAddress` is `Followed` once the
  registration is over.
* `ScannerInv` ties the registration under way to the fleet's tasks.
* `MigrationInv`: an id of an entry or file was given to its host (`GivenIds`), an entry with an id has its files renamed
  (`Renamed`) but for those whose turn is to come (`InTurn`).

The parts' assumptions on constants say that `None` is none of the records, engines and addresses it
stands beside, that the scanner and the worker are not the names of HTTP threads, and that grids and made-up ids are
finite. Model values are distinct from everything by themselves; the provers need it said. The rest are ranges the code enforces
(`config/validation.py`, `grid.py`).

| Theorem | Property | Run |
|---|---|---|
| `RetryLoopProofs!TypeCorrect` | `TypeOK` | |
| `RetryLoopProofs!BudgetHolds` | `GivesUpWhenNeverGood` | `retry_loop` |
| `RetryLoopProofs!SafeVfHolds` | `SafeVfBeforeTuning` | `retry_loop` |
| `RetryLoopProofs!DeathReported` | `DeathIsReported` | `retry_loop` |
| `TuneResumeProofs!TypeCorrect` | `TypeOK` (of the proof module) | |
| `TuneResumeProofs!CellIsResumed` | `CrashResumesCell` | `tune_resume` |
| `TuneResumeProofs!MonitoredSaved` | `MonitoredIsSaved` | `tune_resume` |
| `TuneResumeProofs!VoltagesStay` | `TunedVoltagesStay` | `tune_resume` |
| `PerpetualProofs!VoltageInRange` | `VoltageInPsuRange` | `perpetual` |
| `PerpetualProofs!Capped` | `AdjustmentCapped` | `perpetual` |
| `PerpetualProofs!MaintainedHolds` | `Maintained` | `perpetual` |
| `PerpetualProofs!AdjustmentSaved` | `AdjustmentIsSaved` | `perpetual` |
| `ChipTuneProofs!TypeCorrect` | `TypeOK` | `chip_tune` |
| `ChipTuneProofs!BoundsHold` | `BoardsWithinBounds` | `chip_tune` |
| `ChipTuneProofs!BadIsNotRetried` | `NeverRetriesBad` | `chip_tune` |
| `ChipTuneProofs!ProgressIsKept` | `ResumeKeepsProgress` | `chip_tune` |
| `ChipTuneProofs!ProgressDoesNotFall` | `ConvergedStays` | `chip_tune` |
| `RemeasureProofs!TypeCorrect` | `TypeOK` | `remeasure_queue` |
| `RemeasureProofs!OneEntry` | `OneEntryPerCell` | `remeasure_queue` |
| `RemeasureProofs!FineStays` | `FineStaysFine` | `remeasure_queue` |
| `RemeasureProofs!NothingIsLost` | `KillLosesNothing` | `remeasure_queue` |
| `VoltageApplyProofs!TypeCorrect` | `ApplyTypeOK` | `strategies` (in `TypeOK`) |
| `VoltageApplyProofs!OrderHolds` | `CommandsInOrder` | `strategies` |
| `VoltageApplyProofs!BoundedShortfall` | `ShortfallBounded` | `strategies` |
| `StrategiesProofs!StrategiesAreTuners` | `ImplementsTuner` | `strategies` |
| `StrategiesProofs!StrategiesTyped` | `TypeOK` | `strategies` |
| `StrategiesProofs!LabelsAreTrue` | `MeasuredAsLabelled` | `strategies` |
| `StrategiesProofs!PeakIsHeld` | `PeakHeld` | `strategies` |
| `ServerProofs!ServerTyped` | `TypeOK` | `server` |
| `ServerProofs!NoncesGrowHolds` | `NoncesGrow` | `server` |
| `ServerProofs!RigsShown` | `Truthful` | `server` |
| `ServerProofs!RemovedStay` | `RemovedStaysRemoved` | `server` |
| `ServerProofs!EnginesFollow` | `EngineAtItsAddress` | `server` |
| `ServerProofs!FilesKept` | `MigrationLosesNoFile` | `server` |

The theorems about `VoltageApply` are about the part's own specification. `Strategies` lets the part take
exactly its own steps, or none, and `StrategiesTyped` carries its inductive invariant along.

Every invariant a run checks is stated by one of these. Only model-checked:

* every liveness property (`Settles`, `CacheCatchesUp`, `QueueMoves`, `TuneSettles`, `StopEndsWorker` and so on): the prover
  handles neither fairness's `ENABLED` nor well-founded arguments over it here;
* `SettledInValley`: that rays find the valley of a landscape is an induction along each ray, and the
  library's induction theorems take an operator as a parameter, which no installed prover can instantiate.

## 5. Abstractions

* Logging, formatting, status text and metrics are left out; of `phase_detail` only
  which failure it reports is kept.
* `RetryLoop`: the tuning is one stage; a refused command and a miner that is not
  ready take the same clause of `_run` and are one fault.
* `TuneResume`: measurements are sets of cells; scores are not modelled, any
  candidate may come next. A request is any wanted cell at any moment (`RemeasureQueue` has the queue), and a
  selection is one step (`Perpetual` has its steps). A retune of one voltage and the migrations of old file formats are
  left out.
* `ChipTune`: the baseline and the tolerance are the branch they select. A parked
  chip is a constant. Sampling is a step.
* `Perpetual`: the chip-tuned and the uniform array of a profile are not told apart,
  nor is a throttled array; that keeps the frequency side to the question of whose
  array is applied. Deadband, hash rate and market are free choices.
* `RemeasureQueue`: readings are data. The checkpoint written beside a profile is
  never read and is left out. The conversion of a coarse anchor into the centre
  of a fine grid is left out; it belongs to the exploration.
* `VoltageApply`: voltages and frequencies are levels, a clock stable at its own level
  and above. A board's chips are one clock; the wait looks at the board's mean and accepts
  5 MHz off, which is less than a level and taken as none. The wait for mining before a command and the mix of waits after the last
  one change nothing the properties read; what they may raise is `FailApply`.
* `Exploration`: a position's score is fixed within an era; an entry without usable data scores
  nothing. What a voltage's result was tuned from is all that is kept of it.
* `Braiins`: a profit is the number it had when it was sampled. `Whatsminer`: of one cell's
  measurements the lowest J/TH is kept, as nothing else is ever chosen. Percentages are exact fractions where the code has
  floats: one just short of a whole percent may lose that percent too, which is within the 1.01 % of
  `MeasuredAsLabelled`. Frequencies are whole numbers.
* `Listing`: one engine with one rig; what it tunes is `work`. `RentalCache`: states are
  the few the dashboard shows. `Fleet`: files are one per id, as all of a kind are removed
  and renamed together (`Migration` has them one by one). `Discovery`: a probe's requests
  answer or do not; none raises.
* Measuring, retuning and monitoring are atomic with respect to another worker: the
  control lock allows no second one.

## 6. Where code and documentation disagree

Shown by runs:

* `retry_budget`: `_iteration_confirmed_good_at` is never cleared, so an engine that
  was good once resets its retry counter on each later failure and never reaches
  FATAL. The comment at `engine.py:755-757` says such failures accumulate.
* `tune_own_result`: a fresh start that fails before its counters are reset
  is resumed with the finished cell's `polish_round` and arrays, and recorded with
  them (`chip_tune_orchestration.py:292-335`; `engine.py:248-252`).
* `tune_same_voltage`: two candidates at one voltage replace each other's result, each is
  found untuned in turn and the loop never settles (`chip_tune_orchestration.py:419`), while
  `exploration.py:283-284` promises none when all are chip-tuned.
* `perpetual_entry`: the first entry into the monitor applies the arrays of the
  cell tuned last at the voltage of the active profile (`monitor.py:126`, `44-45`).
* `remeasure_atomic`: a stop in the middle of a remeasurement loses the old
  measurement and the request (`lifecycle.py:125`, `96-97`).

Seen while modelling; the models follow the code:

* A recovery after a failed first contact leaves the reset to a voltage gate that
  has not read the PSU's bounds: the healthy miner gets a safety stop (`engine.py:740`).
* The phase "stopped" set by `stop()` is overwritten by the worker's next stage
  (`phase_runners.py:46`, `status.py:29-31`).
* Once `tuning_complete` is set, settling does not save the profile again (`engine.py:878`). Whatever changes
  the surface or the results "must" therefore take the flag back, as the docstring of `_maybe_clear_tune_complete`
  intends and the main loop's drain does. `remeasure_runner` does not (`lifecycle.py:147-169`), nor does the main loop when
  the measurement fails and the request is cleared before it is tried again (the old entry is gone from the surface by then),
  nor a tune resumed out of a profile that a selection saved in the middle of it (`retune.py:234-246`,
  restored as complete, `persistence.py:92-160`). The next start then monitors with what the profile does not hold, and a
  kill brings the old state back. `MonitoredIsSaved` names the three as what it does not cover.
* `polish_round` is saved before its round is done, so a kill skips it
  (`chip_tune_loop.py:480`, against `418-420`).
* The wattage search may hold a target one watt further from the best than
  `BRAIINS_BINARY_SEARCH_TOLERANCE_W`: a quarter of the window is rounded down
  (`braiins_phases.py:187`) and a sample that deep in the window already stands for its ends.
* Once a profile exists the checkpoint is written and never read (`persistence.py:92`): what is
  measured after it is lost by a kill, although the checkpoint is saved "so progress survives
  crashes" (`persistence.py:316`). `ImplementsTuner` therefore lets a crash lose points.
* `phase3_active` is cleared by a stop, so a resume counts its rounds from one
  (`chip_tune_loop.py:404`, against `engine.py:798-800`).
* A failed initial apply is announced all the same and not tried again
  (`monitor.py:132-134`); the outage counter is not reset by a cycle that returns
  early (`monitor.py:195`, `52-53`); a re-rank replaces the operator's choice
  (`monitor.py:100`, `retune.py:174`); a nudge in flight overtakes a selection
  (`perpetual.py:228`, `retune.py:202-203`).
* A thermal throttle goes below `VF_EXPLORE_F_MIN` and off the clock grid
  (`monitor.py:445`, against `chip_tune_loop.py:98-99`); a resume that reseeds
  forgets the `chip_max` of a hot chip (`chip_tune_orchestration.py:165`,
  `monitor.py:417-419`).
* The range is rounded to the clock grid in the loop and not in the resume check
  (`chip_tune_orchestration.py:133`): with `VF_EXPLORE_F_MIN` or `VF_EXPLORE_F_MAX` off the grid, which the validation allows, a
  resume throws away a healthy cell as soon as one chip is at a limit, which its docstring calls a
  sign of "corrupt or stale state". `ResumeKeepsProgress` states it.
* The completion shown is "monotonic within a tune" (`chip_tune_loop.py:324`) only until a throttle or the
  polish, which lower frequencies below their `chip_max` again; `MAX_PROFILING_ROUNDS` (60) is a normal end of
  Phase 3 on a board whose chips move one after the other, and then says nothing of stillness.
* Every drained cell goes back to the head of the main loop, so remeasuring
  does not alternate with monitoring as described (`engine.py:807-814`,
  `lifecycle.py:172-176`). A fine cell loses its place after a failed
  remeasurement (`lifecycle.py:178-183`); a re-inserted cell that was requested
  in flight is queued twice; a cell that cannot be reached is retried for ever.

* A settle wait that a stop or its time-out cuts short is followed by the next
  command all the same (`apply.py:109`, `119-122`, `56-61`): the frequency is then raised
  on a voltage that is still on its way, which the order of commands is there to
  prevent (`apply.py:46-49`). A summary without a voltage makes a lowering a rise
  (`apply.py:51`, `370`): the voltage goes down first. The voltage compared is the
  commanded one (`engine.py:1269-1274`), so a retry while the output still ramps may
  not wait for it. `ShortfallBounded` names the three as what it does not cover.
* Even a wait that ends well accepts an output `SETTLE_VOLTAGE_TOLERANCE_MV` off (`apply.py:112`). The default of
  500 mV is ten times the rise that is thought too small to matter, so the order of the commands
  "prevents chips from entering a crashed state" only to within half a volt: on a raise the frequency may go up while
  the output is still that much short. `ShortfallBounded` is what does hold.

Exploration, Braiins and Whatsminer:

* With more anchors than rays (`VF_FINE_TOP_K` above `VF_COARSE_TOP_K_RAYS`), or after a change of
  ranking, older anchors fill all slots: a better coarse cell gets no rays and no fine grid
  (`exploration.py:125-158`, `161-190`, against "by current scoring"). `SettledInValley` names the
  two as what it does not cover. An anchor outside narrowed limits gets a fine grid
  that goes further out (`grid.py:115-116`).
* A tune without a result repeats the same cell with no budget (`engine.py:805`).
* The wattage search runs again at the first check of its limits although nothing has widened
  (`braiins_phases.py:330-336`, against `236-239`); the best target may lie outside limits that were
  narrowed; a failed sample is repeated without a pause; with a lop-sided
  curve the window may leave the peak, against "Optimum brackets around mid".
* Whatsminer discovery goes on where `whatsminer_phases.py:154` says "Fail hard"; its probe leaves
  the cached mode stale, as do a kill between a command and the save and a command
  that failed for the engine and not for the miner. `whatsminer_pre_tune` is kept "for
  restore-on-stop" (`engine.py:281`) and never restored. The best cell is the best ever
  measured, so that after a lasting drift the grid is searched again and again.
* A cell whose frequency no mode can reach is measured at twice the nearest mode's baseline and recorded under the
  frequency it did not run at (`whatsminer_grid.py:66-75`); `MeasuredAsLabelled` leaves such cells out.
* `set_target_freq` sends `int(percent)` (`miner/whatsminer.py:403-404`), which cuts towards zero, while the engine remembers
  the exact percentage: a cell is measured up to a percent of the baseline off its label.
* `whatsminer_phases.py:76` assumes that the firmware exposes the target frequency. `MinerSummary.from_whatsminer` fills no
  `target_freq_mhz`, and the summary has no `target_freq` at its top level, so that every mode gets 500 MHz: all modes are
  then as near to any frequency, low is chosen for everything, the anchor becomes "current_mode", and the percentage is one of 500
  whatever the low mode runs at. `MeasuredAsLabelled` therefore promises the miner's own frequency only
  where the baseline is right; two of the run's miners tell none.
* A mode counts as unsupported when the text of the exception has "132" in it (`whatsminer_phases.py:94`); the client
  raises `cmd: Msg` without the code (`miner/whatsminer.py:300-324`), and only the unit test's own exception has it
  (`tests/unit/test_whatsminer_phases.py:120-125`). If the message has no code in it, discovery raises at
  that mode on every retry, and the engine dies without having measured anything (`RetryRefused`, `GiveUpRefused`).
* `defaults.py` has 3 rays; the dashboard's tooltip says 1.

Rental:

* A rig stays offered while the engine explores again after an edit or tunes the next cell after a
  polish, in offline mode, after a safety stop (`engine.py:556-565`) and after `destroy()`
  (`lifecycle.py:42-57`), while `mrr_routes.py:117-119` counts any tuning phase and offline among the
  states in which the "rig shouldn't be advertising right now".
* A first announcement that fails or is skipped is not repeated: the flag is set regardless
  (`monitor.py:133-134`, against `mrr_sync.py:109`).
* The nonce is drawn under a lock and the request sent without it, so a later nonce may
  arrive first and the earlier request fail.
* The monitor's first entry may publish "maintaining" after `stop()` has published "stopped", and
  so does a manual resync of a stopped engine. A retune whose re-entered `_run_inner` raises ends
  silently with the rig offered (`retune.py:76-80`, `129-133`).
* A request that raises outside its own `try` ends the cache's daemon for good.

Fleet, scanner and configuration:

* A re-keyed engine goes on reading the settings of its old id until a restart (against
  `runner.py:283-285`); a real MAC is only found for an address that is probed, and known
  addresses are not (`runner.py:164-166`, against `286-287`). The address a miner left stays in
  `MINER_IPS`, so that one that moves back is not followed.
* `get_engine` for an id without an entry makes an engine whose address is the id, with
  whatever files there are; a re-keying may replace such an engine without destroying
  it, and one that ends after its new id was removed brings that id back
  (`tuner_manager.py`, against `bulk.py`'s "so a re-added miner starts fresh").
* `start()` does not ask for `_destroyed` (`lifecycle.py:43`), the stock baseline is written in
  spite of it (`engine.py:163`), and a change of firmware destroys an engine without waiting for
  its thread. A change of firmware found by the scan does not exchange the engine.
* A migration that dies before its save makes up another id for a miner without a MAC
  (`mac_resolve.py:136`, against "Idempotent", `config/persistence.py:252`), while the files keep the
  first. A rename that fails is not tried again. An entry whose address is not in `MINER_IPS` is
  dropped when the file is loaded, its files stay.

## 7. Not modelled

* The former exploration loop (`phase_vf_exploration.py`) and `_fine_grid_around_cell`, which
  only the fine-grid runner still reaches; the baseline of Phase 2 and the stock baseline, which are
  sampling without a decision; the external power limit and the thermal trim of the sleep interval.
* The LuxOS session with its rate gate, and the other clients' request formats: the engine sees
  of them an exception or an answer, which is what the modules enumerate.
* Login sessions and lockout, metrics, validation and the migrations of older schemas: sequential tables
  and SQL that the unit tests enumerate.
* Parsing of firmware replies, rendering, address ranges, the dashboard, the tests and the
  research scripts: I/O or data handling without state that the engine depends on.

What would come next: that `TuneResume`'s chip-tune is an abstraction of `ChipTune`, and its choice of cells
of `Exploration`; the proofs would have `ChipTune`'s and `Exploration`'s invariants at hand.
