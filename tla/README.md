# TLA+ models of the IgorFuzz triage core

This directory holds TLA+ models of the coverage-decrease triage core of IgorFuzz. The core decides which crashing inputs the fuzzer keeps.

The code is:

- `src/engine/src/afl-fuzz-bitmap.c`: the `IGORFUZZ_FEATURE_ENABLE` branch, and the classic AFL `save_if_interesting` that is built without it;
- `src/engine/include/sym-blacklist.h`;
- the target hook `src/engine/instrumentation/afl-igorfuzz-rt.o.c`.

The fuzzer is single-threaded. Its only concurrency is the target process writing the call-stack file. The parent reads that file only after the child has died. The hard behaviours are therefore:

- the order of steps inside one call of `save_if_interesting`: the hang re-run and its restart, the pre-check, the judgement, the calibration and the post-check;
- state carried between calls: the virgin maps, the global minima, the dirty flag and `fuzz_bitmap`, the call-stack file, and the reference crash site.

## The system's parts and how they interact

| Part | Code | State it owns |
|---|---|---|
| Bitmap primitives | `count_bytes`, `count_non_255_bytes`, `simplify_lookup`, `count_class_lookup8/16` (l. 96-191) | none (pure) |
| Virgin-map engine | `has_new_bits` (209-242), `has_few_bits` (497-602) | `virgin_bits`, `virgin_tmout`, `bitmap_changed`; reads `min_bitmap_size`, `min_actual_cnts`, `testcase_matrix` |
| Call-stack parser | `find_crash_site` (633-743), `sym-blacklist.h` | the call-stack file (parse and "flush") |
| Crash-site comparison | `same_crash_site` (793-850) | `fsrv.crash_symbol/module/offset`, the reference site |
| Dispatcher | `save_if_interesting` (860-1064) | queue, `queued_with_cov`, `saved_hangs`, `crashes/README.txt` |
| Crash detail | `write_crash_detail` (749-780) | one line of `crashes/README.txt` |
| Persistence | `write_bitmap` (40-57) | `out_dir/fuzz_bitmap` |
| Map scans | `count_bits` (62-90), `minimize_bits` (279-292) | none: a count, or bits ORed into a caller's packed map |
| Target hook | `__asan_on_error` (rt.o.c 17-33) | writes the call-stack file with `O_TRUNC` when ASan reports |
| Classic dispatcher | `save_if_interesting` without `IGORFUZZ_FEATURE_ENABLE` (1067-1489), `has_new_bits_unclassified` (254-273) | queue, `queued_with_cov`, `saved_tmouts`, `saved_hangs`, `saved_crashes`, `virgin_tmout`, `virgin_crash` |

After each execution of the target, the main loop calls `save_if_interesting(fault)`.

- **Timeout.** The trace is classified and simplified, then judged by `has_few_bits(virgin_tmout)`. An interesting hang is re-run with `hang_tmout`. A crash during the re-run restarts the switch in the crash case. Any other result also restarts the switch: a timeout goes on to save the hang, and an ok run takes the default branch, which returns 0.
- **Crash, pre-check.** In crash mode 3, `same_crash_site` re-parses the dump (with flush) and compares it with the reference site. It restores the reference when the sites differ.
- **Crash, judgement.** `has_few_bits(virgin_bits)` judges the classified trace. An interesting crash is queued, and the cov bit is counted.
- **Crash, calibration.** `calibrate_case` re-runs the target and lowers the global minima.
- **Crash, detail.** In mode 3 a second `same_crash_site` writes the detail line when the site now differs. Otherwise the line is written afterwards. Modes 1-2 re-parse the dump with flush.

Until the testcase matrix exists, `has_few_bits` is `has_new_bits`. After that it reports decreases: `0x10|bms<<2|cov<<1|hcn`.

## Modules

- **`Bitmap`** has the primitives and the engine as operators over a map `Edges -> 0..255`.
  - The word structure (`WordBytes`) is kept where `has_few_bits` depends on it: the skip of all-`0xFF` virgin words and the per-word hcn test.
  - `discover_word` (in `coverage-64.h`, not under `src/`) is modelled bytewise from spec §4.B.1.
  - Results, new virgin maps and the dirty-flag condition are separate operators.
- **`CrashSite`** models a dump as a sequence of lines. A line is either `NoFrame` (skipped) or a frame record: module, address field, whether the symbolizer returned symbols, the function, and a ghost flag `rt` saying the frame belongs to the sanitizer runtime.
  - The two tables of `sym-blacklist.h` are the sequences `SymBlacklistModule` and `SymBlacklistFunction`. `OnBlacklist` is the code's loop: some entry occurs in the name. `strstr` is the constant operator `Strstr`, which each model gives as the table of the (name, entry) pairs that match among its names.
  - `ParseOffset` is `(u32)strtoul(addr, NULL, 16)`: the address field is a hex flag and a value, an unparsable field gives 0, and the cast keeps `OffsetBits` bits (4 in the models, for 32). Every model address is below 16, so the truncation itself is never exercised.
  - `FrameStep` is one iteration of the parse loop, and `FindCrashSite` folds it over the dump.
  - `Flush` is what `rewind(fp); fprintf(fp,"\n")` does to an `r+` file. It replaces the first byte with a newline and truncates nothing.
  - `SiteAfterCompare` is the keep-or-restore of `same_crash_site`.
- **`BitmapScans`** runs the loops of `count_bits` and `minimize_bits` one iteration per step. `count_bits` reads the map in little-endian words of `U32Bytes` bytes (2 in the model, 4 in the build). An all-ones word takes the shortcut (`CountBitsFull`); any other word takes the SWAR popcount (`CountBitsSwar`, `SwarCount`), with its masks built from their byte and the product taken modulo the word. `MinimizeBitsStep` ORs `1 << (i & 7)` into `dst[i >> 3]` for each non-zero byte. The ghost `dst0` keeps `dst` as the caller passed it.
- **`CrashSiteParse`** runs the same loop one `fgets` per step. It checks the loop against a declarative statement of the frame it picks (`RefCrashSite`). The exact-module option (`exact_module`) is chosen in `Init` and passed to `CrashSite` through a parameterised instance, `CS(exact)`. That statement uses the ground truth (`rt`, or another module in exact mode), not the tables, so it also checks that the tables and substring match catch the GCC and LLVM runtime frames.
- **`SaveIfInteresting`** composes the rest. Variables are grouped as `call` (locals of one call and the trace), `engine`, `sites`, `outputs` and ghosts. `pc` marks where control is inside the call.
  - Each step ends where the code hands control outside: the re-run (`fuzz_run_target`) and `calibrate_case`.
  - Actions: `SaveEarlyReturn`, `SaveOther`, `TimeoutOverQuota`, `SaveTimeout`, `HangRerun`, `SaveHang`, `CrashSiteChanged`, `JudgeCrash` and `Calibrate`. Between calls there are also `Run` (main loop plus the target's hook), `MatrixArrives` and `WriteBitmap`.
  - Ghosts: `exec_site` is the site the last execution's own dump names. `admitted_sites` is the `exec_site` of each queued crash. `calibrated_sites` is, in crash mode 3, the site of the dump each calibration left. `cov_budget` is `queued_with_cov` plus the covered edges when the matrix arrived. `tmout_justified` is the `virgin_tmout` that the saved hangs, and the timeouts judged uninteresting, account for. It is left out of `MCView`; only the run that checks it has no view.
  - `crash_mode` (`-C`, fixed for the process) is a variable chosen in `Init` from `CrashModes` and never changed, so one run covers several modes.
  - `DescribeOp` is `describe_op` reduced to what the triage decides: the decode of the `0x20` timeout flag (l. 301-307) and the tag switch (l. 398-411). The stage, position and time in the name are left out.
- **`DecreaseProgress`** is the abstract specification of spec §1, "monotone local progress toward smaller behavioral footprints". Its state is a queue count, whether the matrix is present, and a footprint: the bitmap-size minimum, the hit-total minimum and the number of covered edges.
  - Before the matrix, a queued entry (`Learn`) may add coverage.
  - After it, a queued entry (`Shrink`) must move the footprint, raising none of its parts.
  - Every other step leaves all of it alone.
- **Refinement.** `SaveIfInteresting` instantiates it as `Progress` with a refinement mapping:
  - `queued_items` maps to the queue count and `testcase_matrix` to the matrix flag;
  - the minima map to the footprint minima, and the non-`0xFF` bytes of `virgin_bits` to the coverage;
  - between the judgement and `calibrate_case` (`pc = "calibrate"`), the minima map to their calibrated values. The admission is then the abstract step, and the calibration is a stutter.

  `ImplementsDecreaseProgress == Progress!Spec` is checked as a `PROPERTY`.
- **`ClassicSaveIfInteresting`** is the build without the feature (l. 1067-1489), over the same `Bitmap` operators. `pc` marks where control is: `save`, `calibrate`, `switch`, `rerun`, `hang`, `crash`.
  - `ClassicEarlyReturn` (len 0, ignored timeouts), `ClassicJudge` (`fault == crash_mode`: `has_new_bits`, or `has_new_bits_unclassified` unless a FAST..RARE schedule has classified; then `save_to_queue`), `ClassicCalibrate` (`calibrate_case` leaves a raw trace of its last run), `ClassicToSwitch`, `ClassicTimeout`, `ClassicRerun` (the `hang_tmout` re-run, with its `goto keep_as_crash` and `goto save_to_queue`), `ClassicSaveHang`, `ClassicCrash` and `ClassicDefault`.
  - `goto save_to_queue` is `SaveToQueue` followed by `pc = "calibrate"`; after calibration control reaches `switch (fault)` again, as in the code. `queued_in_call` is a ghost counting queue entries of one call.
  - `skim` (`coverage-64.h`, not under `src/`) is modelled from spec §4.B as "some classified byte is still virgin".
- **`MCSaveIfInteresting`**, **`MCCrashSiteParse`** and **`MCClassicSaveIfInteresting`** give the model values for TLC. `MCView` drops the dead locals of a finished call.

Modelled from the spec (their code is not under `src/`):

- `discover_word` and `simplify_trace`;
- `calibrate_case`, which lowers the minima to the entry's bitmap size and hit total (the code's comment at l. 1003-1005);
- the main loop;
- `skim`;
- the initial state;
- the arrival of the testcase matrix.

## Runs

| Run | Expect | What it shows |
|---|---|---|
| `tier3` | pass | Crash modes 1 and 3 (both initial states) with ok and crash faults, before and after the matrix, with two dumps (reference site and another) and ASan reports present or missing. Checks `CovDecreaseBounded`: each `-c` admission uses up an edge covered at matrix time. Checks `DumpReflectsVirgin`: `fuzz_bitmap` is current whenever the flag is clear. Checks `OneDetailPerEntry`: exactly one README line per queued crash, in queue order, whichever branch writes it. Checks `ReferenceSiteStable`: the reference keeps its module and offset. In mode 1 the site does not gate admission and the dump is re-parsed (with flush) after calibration. |
| `hangs` | pass | Timeouts, the hang re-run, the restart into the crash case or the default, the empty-input early return, and crash mode 0. Checks `HangsBounded`, `DumpReflectsVirgin` (here through `has_few_bits` resets), and `HandlerCompletes`: every call returns, under weak fairness of the handler. Checks `QueueNameTagsJudgement`: a queued crash is named with the tag of what `has_few_bits` found, and with `+tout` exactly when it came through a timeout restart. |
| `hang_novelty` | violation | Spec §2 and the comment at l. 893-895: `virgin_tmout` is the hang-unique map. `TmoutNoveltyOnlyFromSavedHangs`: between calls, `virgin_tmout` records only the saved hangs and the timeouts judged uninteresting. Counterexample, four states: a timeout with a new trace consumes its novelty, then its re-run finishes in time and the call returns 0. |
| | | `tier3` and `hangs` also check `ImplementsDecreaseProgress`. |
| `parse` | pass | For all 1111 dumps of up to 3 lines over 10 kinds of line (GCC and LLVM runtime frames, the runtime linked into the target, the target's own hook, unsymbolizable frames, user frames, a frame with a bad address), the parse loop finds the innermost symbolizable frame below the last blacklisted one. Both exact-module settings are initial states. |
| `flush_stale_site` | violation | **Code bug.** The flush (l. 741) does not truncate the file. In crash mode 3 a crash that writes no dump is judged on the previous crash's frames and queued. |
| `calibration_site` | violation | Spec §6 makes site equality in tier 3 a prerequisite "checked both before classification and after calibration". The code keeps a queued crash whose calibration crashes at another site. The second `same_crash_site` only decides who writes the README line, as spec §4.F describes. Counterexample: four states. |
| `scenario5` | violation | Spec scenario 5 expects an empty site. The code returns the frame below the blacklisted one, which matches the algorithm text of §4.C and not the scenario. |
| `partial_site` | violation | Spec §3: a site's offset always comes from an address that parsed as hex, and partial triples are filtered. A frame in the target whose address field has no hex digit becomes the site with offset 0 (`SiteNeverPartial`). |
| `classic_returns` | pass | Classic path in two builds: instrumented with `AFL_KEEP_TIMEOUTS`, and non-instrumented with `-C`, a FAST schedule and no `AFL_KEEP_TIMEOUTS`. The build is chosen once in `Init` (`afl`), as it is fixed for a fuzzer process. Every call returns (`ClassicHandlerCompletes`): the repeated timeout case re-queues only while `virgin_tmout` still gains bits, and it cannot gain them forever. The run fires every action and branch of the module. |
| `classic_requeue` | violation | **Code bug.** Under `AFL_KEEP_TIMEOUTS` one call queues the same input twice (`QueuedOncePerCall`). |
| `bitmap_scans` | pass | `CountBitsIsPopcount`: when the loop ends, `count_bits` equals the set bits of the bytes it read, counted one by one; these are the `real_map_size` bytes and the rest of the last word. `MinimizeBitsPacksNonZero`: after `minimize_bits`, a bit of `dst` is set exactly when it was set before or its trace byte is non-zero. |
| `classic_loop` | violation | **Code bug.** In non-instrumented mode under `AFL_KEEP_TIMEOUTS` a call never returns (`ClassicHandlerCompletes`). |

Every property of a passing run has a mutant in `PROJECT.json`, and the mutant breaks it. The mutants are:

- `has_few_bits` packs the bits with a wrong shift;
- `has_few_bits` does not reset dropped bytes;
- `has_new_bits` marks the bitmap dirty only for new tuples;
- `has_few_bits` does not mark it dirty on a decrease;
- `crash_detail_saved` is inverted;
- `same_crash_site` does not restore the saved site;
- the hang quota test is off by one;
- a second timeout re-runs again;
- the parse candidate is not sticky;
- the offset is not stored;
- the bitmap-size test accepts an equal size, which breaks the refinement in both runs;
- `describe_op` keeps the decode of the feature-disabled build (`& 0xf0`, `-= 0x80`);
- the blacklist loop stops one entry short (`libclang_rt.` missed);
- the classic timeout case sets the IgorFuzz flag `0x20` instead of `0x80`;
- `has_new_bits` does not clear the virgin map (the classic re-queue then never stops);
- a re-run that no longer times out restarts the switch instead of returning;
- `count_bits` counts whole words only (no rounding up of the last one);
- `minimize_bits` stores the bit with `=` (losing the bits already in `dst`) or adds it with `+`.

### Bounds and why they suffice

- **Map.** `MapSize = 3` bytes in words of `WordBytes = 2`. Two words, one of them partial, so the skip of untouched words and the per-word hcn test both matter.
- **Raw traces in `tier3`.** Five traces: covered; a higher count on a covered edge (hit-count-only novelty); one edge dropped; a new edge in the other word while the first word drops out; all three.
- **Raw traces in `hangs`.** Three of them.
- **Minima.** `min_bitmap_size` starts at 4 and `min_actual_cnts` at 7, above every trace, so every decrease signal can fire before calibration lowers them.
- **Dumps.** Two dumps differ only in the user frame, under two sanitizer frames: one blocked by module and one by function.
- **Classic path.** Three raw traces over the same map, input lengths 0 and 1, quotas of 1. `MCView` drops the queue counters, which no branch reads, so a call that keeps queuing closes a cycle and the liveness check sees it.
- **Map scans.** Nine bytes in two-byte words. `real_map_size` is 0, 5 or 8: no word, a partial last word, and whole words only. Byte 8 is read only by `minimize_bits`, into the second byte of `dst`. The maps are every 0/1 map, every 0/255 map (the virgin case), and every alternation of two of twelve bit patterns that the SWAR masks split. `dst` starts zeroed, full, or half set.
- **Offsets.** `OffsetBits = 4`: enough to tell the model's eight addresses apart; TLC integers cannot hold 2^32.
- **Hang quota.** `KeepUniqueHang = 1`, so the quota is reached and then tested.
- **Finiteness.** Every counter is bounded by the finitely many strict decreases of the minima, the virgin bytes and the hang quota. The state spaces are finite without artificial caps.
- **Modes.** `tier3` has crash modes 1 and 3, `hangs` mode 0, and `parse` both exact-module settings.
- **Faults.** `tier3` leaves out timeouts and `hangs` uses crash mode 0. The product of both (6.6 M states, 11 min) does not fit the time budget. The restart from a re-run into the crash case is in `hangs`.

### Fairness

Only the steps of `save_if_interesting` are weakly fair (`WF_vars(Handler)`, in both dispatchers). Once the fuzzer is inside the function, the code runs to a return. Nothing is assumed about the environment: the main loop may stop, and the matrix may never arrive.

## Findings

1. **`afl-fuzz-bitmap.c:741`, code bug.** `rewind(fp); fprintf(fp, "\n")` on a file opened `"r+"` leaves every frame but the first byte. Spec §4.C says the file is truncated so the next crash writes into a clean file.
   - **Consequence.** In tier 3, a crash that writes no ASan report (abort, an unhandled signal) is identified by the previous crash's site and admitted.
   - **Counterexample.** A reference-site crash, then a crash with no report: six states.
2. **`afl-fuzz-bitmap.c:1014`, spec/code divergence.** In crash mode 3 a queued crash stays queued when its calibration re-run reports another site (`calibration_site`). Spec §6 makes the site a prerequisite checked after calibration too; spec §4.F describes what the code does.
3. **Scenario 5 contradicts the parse rule.** The code returns the outer `mytarget` frame.
4. **`afl-fuzz-bitmap.c:691`, spec/code divergence.** `(u32)strtoul(addr_str, NULL, 16)` checks no end pointer, so an address field with no hex digit becomes offset 0 and the frame becomes the site (`partial_site`). The cast also drops the upper half of a 64-bit address, so `same_crash_site` can call two different sites equal; the model does not exercise this (all addresses are below 16).
5. **`afl-fuzz-bitmap.c:1323`, code bug (classic build).** `goto save_to_queue` runs `calibrate_case` and then falls through to `switch (fault)` with `fault` still `FSRV_RUN_TMOUT`. The timeout case runs again on calibrate's trace. If that trace gives `virgin_tmout` new bits, the input is queued a second time and `saved_tmouts` is counted twice (`classic_requeue`). The IgorFuzz build reassigns `fault` and uses `continue`, so it does not have this problem.
6. **Same place, non-instrumented mode.** There is no novelty check, so the cycle never ends and each turn adds a queue entry (`classic_loop`). By reading of l. 1318, `stop_soon` takes the same jump, so a stop request during the re-run also enters the cycle. This is not modelled: the model keeps `stop_soon` unset.

7. **`afl-fuzz-bitmap.c:903`, spec/code divergence.** `has_few_bits(afl, virgin_tmout)` clears the trace's bits before the `hang_tmout` re-run. When the re-run crashes or finishes in time, no hang is saved, but the novelty is gone. A later genuine hang with the same trace is judged not new and dropped (`hang_novelty`). The classic build consumes the novelty the same way at l. 1252.

Two statements of the spec disagree with the code by inspection of a single operator, so no run is spent on them. After the matrix, `has_few_bits` never clears a virgin bit, against spec §3's "virgin & current == 0 after every engine call". `count_class_lookup8` maps 3→4→8, so `classify_counts` is not idempotent, against spec §8; the code never applies it twice, because it tracks `classified`.

## Not modelled, and why

- The rest of `describe_op` (stage, position, time, custom mutator) and `write_crash_readme`: file names and formatting, with no effect on the triage state.
- The callers of `count_bits` and `minimize_bits` (status screen, queue culling) are not under `src/`. The padding bytes `count_bits` reads past `real_map_size` are stated in the property, and not judged against a caller.
- Hang file names: the code names a hang with `describe_op(afl, 0)` (l. 929), so a hang carries neither `+tout` nor a tag. The spec's wording ("a filename from §4.E") does not say which class it is given, so this is not stated as a property.
- In the classic build: `stop_soon` (set asynchronously by a signal), the first-crash warning and `infoexec`, which do not change what is saved.
- The `n_fuzz` counters of the FAST..RARE schedules, `exec_cksum`, the testcase cache, the Nyx log and the statistics counters: none affects admission.
- Addresses wider than `OffsetBits`: the aliasing through the truncation is not exercised.

## Plan for later sittings

1. A property on the README line's site in crash modes 1-2. The model abstracts the line to its entry number for now.
2. A fault model for the call-stack file: a report cut short by the child's death.
3. Larger instances of the parse loop (4 lines) and of the map.
