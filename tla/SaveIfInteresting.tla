-------------------------- MODULE SaveIfInteresting --------------------------
(***************************************************************************)
(* The interestingness dispatcher of IgorFuzz: save_if_interesting with    *)
(* IGORFUZZ_FEATURE_ENABLE, together with the state it shares with the     *)
(* virgin-map engine (Bitmap), the crash-site identifier (CrashSite), the  *)
(* target's __asan_on_error hook and write_bitmap.                         *)
(*                                                                         *)
(* The fuzzer is single-threaded.  One call of save_if_interesting is a    *)
(* sequence of steps separated by pc; a step ends where the code hands     *)
(* control to something outside it: the re-run of the target with the      *)
(* hang timeout (fuzz_run_target) and the inline calibration               *)
(* (calibrate_case).  Between calls (pc = "idle") the main loop runs the   *)
(* target (Run), the testcase matrix may arrive, and write_bitmap runs.    *)
(***************************************************************************)
EXTENDS Bitmap, CrashSite

CONSTANTS
    Faults,            \* outcomes of fuzz_run_target modelled: "ok", "tmout", "crash"
    InputLens,         \* input lengths: 0 (the early return) and/or 1 (any other)
    RawTraces,         \* raw trace bitmaps the target can produce
    Dumps,             \* call-stack dumps an ASan report can write
    RefDump,           \* the dump of the reference crash: crash_site at start
    CrashModes,        \* the afl->crash_mode values a fuzzer process may run with
    KeepUniqueHang,    \* KEEP_UNIQUE_HANG
    ExecTmoutBelowHang,\* fsrv.exec_tmout < hang_tmout
    IgnoreTimeouts,    \* AFL_IGNORE_TIMEOUTS
    InitMinBitmapSize, \* min_bitmap_size when the session starts
    InitMinActualCnts  \* min_actual_cnts when the session starts

ASSUME CrashModes \subseteq 0..3 /\ CrashModes # {} /\ KeepUniqueHang \in Nat
ASSUME ExecTmoutBelowHang \in BOOLEAN /\ IgnoreTimeouts \in BOOLEAN

VARIABLES
    crash_mode,       \* afl->crash_mode: 0, or IGORFUZZ_NEW_CRASH_MODE_LV1..LV3
    pc,               \* where the fuzzer is in save_if_interesting
    fault,            \* the fault being dispatched
    input_len,        \* len of the input (0 or not)
    trace,            \* fsrv.trace_bits
    actual_counts,    \* fsrv.actual_counts of the last execution
    few_bits,         \* the local few_bits
    is_timeout,       \* the local is_timeout (0 or 0x20)
    virgin_bits,
    virgin_tmout,
    bitmap_changed,
    fuzz_bitmap,      \* out_dir/fuzz_bitmap, NULL before the first write
    testcase_matrix,  \* whether afl->testcase_matrix is present
    min_bitmap_size,
    min_actual_cnts,
    dump,             \* the call-stack file: a sequence of lines
    crash_site,       \* fsrv.crash_symbol / crash_module / crash_offset
    queued_items,     \* entries added to the queue (add_to_queue)
    queued_with_cov,  \* entries added with the coverage bit (has_new_cov)
    readme,           \* crashes/README.txt: the entry number of each line
    saved_hangs,
    exec_site,        \* ghost: site of the dump the last execution wrote
    admitted_sites,   \* ghost: exec_site of every queued crash
    calibrated_sites, \* ghost: in mode 3, site of each calibration's dump
    cov_budget,       \* ghost: queued_with_cov plus covered edges at matrix
    tmout_justified   \* ghost: virgin_tmout as left by the timeout judgements
                      \* that found nothing and by the calls that saved a hang

\* Variables grouped by owner, for UNCHANGED.
call    == <<fault, input_len, trace, actual_counts, few_bits, is_timeout>>
engine  == <<virgin_bits, virgin_tmout, bitmap_changed, fuzz_bitmap,
             testcase_matrix, min_bitmap_size, min_actual_cnts>>
sites   == <<dump, crash_site>>
outputs == <<queued_items, queued_with_cov, readme, saved_hangs>>
ghosts  == <<exec_site, admitted_sites, calibrated_sites, cov_budget,
             tmout_justified>>
vars    == <<crash_mode, pc, call, engine, sites, outputs, ghosts>>

\* The crash mode is set by -C at start-up and never changes.
CrashMode == crash_mode

Lower(a, b) == IF a < b THEN a ELSE b

\* fsrv.actual_counts: the total of the raw hit counts of an execution.
ActualCounts(raw) == FoldFunction(+, 0, raw)

AllVirgin == [i \in Edges |-> 255]

\* few_bits & 0x02: "+cov" or "-c": the entry gets has_new_cov.
HasCovBit(fb) == (fb \div 2) % 2 = 1

-----------------------------------------------------------------------------
(***************************************************************************)
(* The environment: one execution of the target.  The target writes the    *)
(* dump (open with O_TRUNC) only when ASan reports, i.e. on some crashes;  *)
(* a crash ASan does not report (abort, a signal it does not handle)       *)
(* leaves the file as it was.                                              *)
(***************************************************************************)
ExecuteTarget(f, raw, asan, d) ==
    /\ asan => f = "crash"
    /\ fault' = f
    /\ actual_counts' = ActualCounts(raw)
    /\ dump' = IF asan THEN d ELSE dump
    /\ exec_site' = IF asan THEN FindCrashSite(d) ELSE NoSite

Init ==
    /\ crash_mode \in CrashModes
    /\ pc = "idle"
    /\ fault = "ok"
    /\ input_len = 1
    /\ trace = [i \in Edges |-> 0]
    /\ actual_counts = 0
    /\ few_bits = 0
    /\ is_timeout = 0
    /\ virgin_bits = AllVirgin
    /\ virgin_tmout = AllVirgin
    /\ bitmap_changed = TRUE
    /\ fuzz_bitmap = NULL
    /\ testcase_matrix = FALSE
    /\ min_bitmap_size = InitMinBitmapSize
    /\ min_actual_cnts = InitMinActualCnts
    /\ dump = <<>>
    /\ crash_site = FindCrashSite(RefDump)
    /\ queued_items = 0
    /\ queued_with_cov = 0
    /\ readme = <<>>
    /\ saved_hangs = 0
    /\ exec_site = NoSite
    /\ admitted_sites = {}
    /\ calibrated_sites = {}
    /\ cov_budget = 0
    /\ tmout_justified = AllVirgin

\* The main loop runs the target on an input and calls save_if_interesting.
Run ==
    /\ pc = "idle"
    /\ \E f \in Faults, raw \in RawTraces, len \in InputLens, asan \in BOOLEAN,
          d \in Dumps :
          /\ ExecuteTarget(f, raw, asan, d)
          /\ trace' = raw
          /\ input_len' = len
    /\ pc' = "save"
    /\ few_bits' = 0
    /\ is_timeout' = 0
    /\ UNCHANGED <<crash_mode, engine, crash_site, outputs, admitted_sites, calibrated_sites,
                   cov_budget, tmout_justified>>

\* The testcase matrix, built outside this file, becomes available.
MatrixArrives ==
    /\ pc = "idle"
    /\ ~testcase_matrix
    /\ testcase_matrix' = TRUE
    /\ cov_budget' = queued_with_cov + CountNon255Bytes(virgin_bits)
    /\ UNCHANGED <<crash_mode, pc, call, virgin_bits, virgin_tmout, bitmap_changed,
                   fuzz_bitmap, min_bitmap_size, min_actual_cnts, sites,
                   outputs, exec_site, admitted_sites, calibrated_sites,
                   tmout_justified>>

\* write_bitmap: dump virgin_bits when the dirty flag is set.
WriteBitmap ==
    /\ pc = "idle"
    /\ bitmap_changed
    /\ bitmap_changed' = FALSE
    /\ fuzz_bitmap' = virgin_bits
    /\ UNCHANGED <<crash_mode, pc, call, virgin_bits, virgin_tmout, testcase_matrix,
                   min_bitmap_size, min_actual_cnts, sites, outputs, ghosts>>

-----------------------------------------------------------------------------
(***************************************************************************)
(* save_if_interesting.                                                    *)
(***************************************************************************)
\* The early returns: an empty input, or a timeout with AFL_IGNORE_TIMEOUTS.
ReturnsEarly == input_len = 0 \/ (fault = "tmout" /\ IgnoreTimeouts)

SaveEarlyReturn ==
    /\ pc = "save"
    /\ ReturnsEarly
    /\ pc' = "idle"
    /\ UNCHANGED <<crash_mode, call, engine, sites, outputs, ghosts>>

\* Any other fault: the switch's default, return 0.
SaveOther ==
    /\ pc = "save"
    /\ ~ReturnsEarly
    /\ fault = "ok"
    /\ pc' = "idle"
    /\ UNCHANGED <<crash_mode, call, engine, sites, outputs, ghosts>>

\* The hang quota is reached one hang too late.
HangQuotaReachedLate(n) == n > KeepUniqueHang

HangQuotaReached(n) == n >= KeepUniqueHang

\* case FSRV_RUN_TMOUT, quota reached: return 0.
TimeoutOverQuota ==
    /\ pc = "save"
    /\ ~ReturnsEarly
    /\ fault = "tmout"
    /\ HangQuotaReached(saved_hangs)
    /\ pc' = "idle"
    /\ UNCHANGED <<crash_mode, call, engine, sites, outputs, ghosts>>

(***************************************************************************)
(* case FSRV_RUN_TMOUT: classify (the trace is raw here), simplify, ask    *)
(* has_few_bits about virgin_tmout; an interesting hang is re-run with the *)
(* hang timeout when exec_tmout is below it, and saved directly otherwise. *)
(***************************************************************************)
TimeoutTrace == Simplify(Classify(trace))

TimeoutFewBits ==
    HasFewBitsRet(testcase_matrix, virgin_tmout, TimeoutTrace, actual_counts,
                  min_bitmap_size, min_actual_cnts)

SaveTimeout ==
    /\ pc = "save"
    /\ ~ReturnsEarly
    /\ fault = "tmout"
    /\ ~HangQuotaReached(saved_hangs)
    /\ trace' = TimeoutTrace
    /\ virgin_tmout' = HasFewBitsVirgin(testcase_matrix, virgin_tmout, TimeoutTrace)
    /\ bitmap_changed' = (bitmap_changed \/
          HasFewBitsChanged(testcase_matrix, virgin_tmout, TimeoutTrace, FALSE))
    /\ few_bits' = TimeoutFewBits
    /\ \/ /\ TimeoutFewBits \in NotInteresting
          /\ pc' = "idle"
          /\ tmout_justified' = virgin_tmout'
          /\ UNCHANGED is_timeout
       \/ /\ TimeoutFewBits \notin NotInteresting
          /\ is_timeout' = 32
          /\ pc' = IF ExecTmoutBelowHang THEN "rerun" ELSE "hang"
          /\ UNCHANGED tmout_justified
    /\ UNCHANGED <<crash_mode, fault, input_len, actual_counts, virgin_bits, fuzz_bitmap,
                   testcase_matrix, min_bitmap_size, min_actual_cnts, sites,
                   outputs, exec_site, admitted_sites, calibrated_sites,
                   cov_budget>>

\* A re-run that times out again is re-run again.
RerunOutcomeLoops(f) ==
    CASE f = "crash" -> "crash" [] f = "tmout" -> "rerun" [] OTHER -> "idle"

\* After the re-run: a crash restarts the switch as a crash, a timeout goes
\* on to save the hang, anything else restarts the switch into its default.
RerunOutcome(f) ==
    CASE f = "crash" -> "crash" [] f = "tmout" -> "hang" [] OTHER -> "idle"

\* fuzz_run_target with hang_tmout, then classify_counts.
HangRerun ==
    /\ pc = "rerun"
    /\ \E f \in Faults, raw \in RawTraces, asan \in BOOLEAN, d \in Dumps :
          /\ ExecuteTarget(f, raw, asan, d)
          /\ trace' = Classify(raw)
          /\ pc' = RerunOutcome(f)
    /\ UNCHANGED <<crash_mode, input_len, few_bits, is_timeout, engine, crash_site,
                   outputs, admitted_sites, calibrated_sites, cov_budget,
                   tmout_justified>>

\* The hang file is written and counted.
SaveHang ==
    /\ pc = "hang"
    /\ saved_hangs' = saved_hangs + 1
    /\ pc' = "idle"
    /\ tmout_justified' = virgin_tmout
    /\ UNCHANGED <<crash_mode, call, engine, sites, queued_items, queued_with_cov, readme,
                   exec_site, admitted_sites, calibrated_sites, cov_budget>>

(***************************************************************************)
(* case FSRV_RUN_CRASH, entered from the call (pc = "save", the trace is   *)
(* raw) or restarted from a re-run (pc = "crash", already classified).     *)
(* In crash mode 3 the site is compared with the reference first:          *)
(* same_crash_site(afl, NULL, 0, 0), which parses the dump with flush.     *)
(***************************************************************************)
InCrashCase ==
    /\ \/ pc = "save" /\ ~ReturnsEarly
       \/ pc = "crash"
    /\ fault = "crash"

ParsedSite == FindCrashSite(dump)

\* The effect of the mode-3 pre-check on the dump and the reference site.
CrashPrecheck ==
    IF CrashMode >= 3
    THEN /\ dump' = Flush(dump)
         /\ crash_site' = SiteAfterCompare(crash_site, ParsedSite)
    ELSE UNCHANGED sites

\* Mode 3 and the site changed: return 0.
CrashSiteChanged ==
    /\ InCrashCase
    /\ CrashMode >= 3
    /\ ~SameSite(crash_site, ParsedSite)
    /\ CrashPrecheck
    /\ pc' = "idle"
    /\ UNCHANGED <<crash_mode, call, engine, outputs, ghosts>>

CrashTrace == IF pc = "save" THEN Classify(trace) ELSE trace

CrashFewBits ==
    HasFewBitsRet(testcase_matrix, virgin_bits, CrashTrace, actual_counts,
                  min_bitmap_size, min_actual_cnts)

\* has_few_bits(afl, afl->virgin_bits) on the classified trace; then an
\* uninteresting result returns 0 and an interesting one is written to the
\* queue and added to it (afl->queue_top), to be calibrated next.
JudgeCrash ==
    /\ InCrashCase
    /\ CrashMode >= 3 => SameSite(crash_site, ParsedSite)
    /\ CrashPrecheck
    /\ trace' = CrashTrace
    /\ virgin_bits' = HasFewBitsVirgin(testcase_matrix, virgin_bits, CrashTrace)
    /\ bitmap_changed' = (bitmap_changed \/
          HasFewBitsChanged(testcase_matrix, virgin_bits, CrashTrace, TRUE))
    /\ few_bits' = CrashFewBits
    /\ \/ /\ CrashFewBits \in NotInteresting
          /\ pc' = "idle"
          /\ UNCHANGED <<queued_items, queued_with_cov, admitted_sites>>
       \/ /\ CrashFewBits \notin NotInteresting
          /\ queued_items' = queued_items + 1
          /\ queued_with_cov' = queued_with_cov + B2N(HasCovBit(CrashFewBits))
          /\ admitted_sites' = admitted_sites \cup {exec_site}
          /\ pc' = "calibrate"
    /\ UNCHANGED <<crash_mode, fault, input_len, actual_counts, is_timeout, virgin_tmout,
                   fuzz_bitmap, testcase_matrix, min_bitmap_size,
                   min_actual_cnts, readme, saved_hangs, exec_site, calibrated_sites,
                   cov_budget, tmout_justified>>

(***************************************************************************)
(* calibrate_case on queue_top, then the crash detail.  Calibration re-runs *)
(* the target (which may report again, at the same site or not) and lowers *)
(* the global minima to the entry's bitmap size and hit total (the code    *)
(* says it "updated those global minimums"; the trace is taken to be       *)
(* reproduced exactly).  Then, in mode 3, same_crash_site(afl, queue_top,  *)
(* 1, 0) writes a README line itself when the site now differs and         *)
(* crash_detail_saved records it; in modes 1-2 the site is re-parsed with  *)
(* flush; a README line is written unless one was saved already.          *)
(***************************************************************************)
DetailLine(site) == queued_items

\* crash_detail_saved with the comparison's result taken the wrong way round.
DetailSavedInverted(same) == same

\* crash_detail_saved = same_crash_site(...) ? 0 : 1
DetailSaved(same) == ~same

\* The global minima after calibrate_case of queue_top.
CalibratedMinBms == Lower(min_bitmap_size, CountBytes(trace))

CalibratedMinCnt == Lower(min_actual_cnts, actual_counts)

Calibrate ==
    /\ pc = "calibrate"
    /\ \E asan \in BOOLEAN, d \in Dumps :
         LET cdump == IF asan THEN d ELSE dump
             new   == FindCrashSite(cdump)
             same  == SameSite(crash_site, new)
             inCmp == IF CrashMode >= 3 /\ ~same
                      THEN <<DetailLine(new)>> ELSE <<>>
             saved == CrashMode >= 3 /\ DetailSaved(same)
             site  == CASE CrashMode >= 3 -> SiteAfterCompare(crash_site, new)
                        [] CrashMode >= 1 -> new
                        [] OTHER          -> crash_site
         IN /\ dump' = IF CrashMode >= 1 THEN Flush(cdump) ELSE cdump
            /\ crash_site' = site
            /\ readme' = readme \o inCmp
                                \o (IF saved THEN <<>> ELSE <<DetailLine(site)>>)
            /\ calibrated_sites' = IF CrashMode >= 3
                                   THEN calibrated_sites \cup {new}
                                   ELSE calibrated_sites
    /\ min_bitmap_size' = CalibratedMinBms
    /\ min_actual_cnts' = CalibratedMinCnt
    /\ pc' = "idle"
    /\ UNCHANGED <<crash_mode, call, virgin_bits, virgin_tmout, bitmap_changed,
                   fuzz_bitmap, testcase_matrix, queued_items, queued_with_cov,
                   saved_hangs, exec_site, admitted_sites, cov_budget,
                   tmout_justified>>

(***************************************************************************)
(* describe_op names a queue entry from few_bits + is_timeout (l. 969).    *)
(* It takes the timeout flag 0x20 off and records it (",+tout"), and the   *)
(* rest selects a tag from its switch; the file name is otherwise the     *)
(* stage, position and time, which no property tells apart.               *)
(***************************************************************************)
OpTag == (2 :> "+cov") @@ (17 :> "-xxh") @@ (18 :> "-xcx") @@ (19 :> "-xch")
         @@ (20 :> "-bxx") @@ (21 :> "-bxh") @@ (22 :> "-bcx") @@ (23 :> "-bch")

DescribeName(tout, bits) ==
    [tout |-> tout, tag |-> IF bits \in DOMAIN OpTag THEN OpTag[bits] ELSE "none"]

\* The decode of the build without IGORFUZZ_FEATURE_ENABLE: any bit of the
\* upper nibble is a timeout, and 0x80 is taken off (as a u8).
DescribeOpClassicDecode(new_bits) ==
    IF BAnd(new_bits, 240) # 0
    THEN DescribeName(TRUE, (new_bits + 128) % 256)
    ELSE DescribeName(FALSE, new_bits)

DescribeOp(new_bits) ==
    IF BAnd(new_bits, 32) # 0
    THEN DescribeName(TRUE, new_bits - 32)
    ELSE DescribeName(FALSE, new_bits)

-----------------------------------------------------------------------------
\* The steps of save_if_interesting: code the fuzzer runs to completion.
Handler ==
    \/ SaveEarlyReturn \/ SaveOther \/ TimeoutOverQuota \/ SaveTimeout
    \/ HangRerun \/ SaveHang \/ CrashSiteChanged \/ JudgeCrash \/ Calibrate

Next == Run \/ MatrixArrives \/ WriteBitmap \/ Handler

Spec == Init /\ [][Next]_vars /\ WF_vars(Handler)

-----------------------------------------------------------------------------
(***************************************************************************)
(* Properties.                                                             *)
(***************************************************************************)
Sites == {NoSite} \cup {FindCrashSite(d) : d \in Dumps \cup {RefDump}}

\* Every variable stays within the values the code can give it.
TypeOK ==
    /\ crash_mode \in CrashModes
    /\ tmout_justified \in [Edges -> Byte]
    /\ pc \in {"idle", "save", "rerun", "hang", "crash", "calibrate"}
    /\ fault \in Faults
    /\ trace \in [Edges -> Byte]
    /\ few_bits \in {0, 1, 2} \cup 16..23
    /\ is_timeout \in {0, 32}
    /\ virgin_bits \in [Edges -> Byte] /\ virgin_tmout \in [Edges -> Byte]
    /\ bitmap_changed \in BOOLEAN /\ testcase_matrix \in BOOLEAN
    /\ fuzz_bitmap \in [Edges -> Byte] \cup {NULL}
    /\ crash_site \in Sites /\ exec_site \in Sites
    /\ queued_with_cov <= queued_items
    /\ readme \in Seq(Nat)
    /\ saved_hangs \in Nat

(***************************************************************************)
(* has_few_bits resets a dropped edge to 0xFF, so once the matrix is there *)
(* each "-c" admission uses up at least one edge that virgin_bits recorded *)
(* as covered when the matrix arrived: coverage decreases cannot be        *)
(* reported more often than there were covered edges, and the same drop is *)
(* never reported twice.                                                   *)
(***************************************************************************)
CovDecreaseBounded ==
    testcase_matrix =>
        queued_with_cov + CountNon255Bytes(virgin_bits) <= cov_budget

(***************************************************************************)
(* The unique-hang quota of the timeout case: no more than KEEP_UNIQUE_HANG *)
(* hangs are ever saved, across the re-run and restart paths.              *)
(***************************************************************************)
HangsBounded == saved_hangs <= KeepUniqueHang

(***************************************************************************)
(* bitmap_changed is set by every engine call that changes virgin_bits, so *)
(* whenever the flag is clear the fuzz_bitmap file last written by         *)
(* write_bitmap equals virgin_bits.                                        *)
(***************************************************************************)
DumpReflectsVirgin ==
    fuzz_bitmap # NULL /\ ~bitmap_changed => fuzz_bitmap = virgin_bits

(***************************************************************************)
(* Between calls, crashes/README.txt has exactly one crash-detail line per *)
(* crash queued by save_if_interesting, in queue order, whichever of the   *)
(* two places (inside same_crash_site or after it) wrote the line.         *)
(***************************************************************************)
OneDetailPerEntry ==
    pc # "calibrate" =>
        /\ Len(readme) = queued_items
        /\ \A k \in DOMAIN readme : readme[k] = k

(***************************************************************************)
(* In crash mode 3 the reference crash site only ever changes to a site    *)
(* same_crash_site judged identical: its module and offset are those of    *)
(* the reference crash for the whole session.                              *)
(***************************************************************************)
ReferenceSiteStable ==
    CrashMode >= 3 => SameSite(crash_site, FindCrashSite(RefDump))

(***************************************************************************)
(* Spec 4.C: the flush truncates the call-stack file "so the next crash    *)
(* writes into a clean file".  Then in crash mode 3 every crash admitted   *)
(* to the queue is one whose own execution wrote a dump at the reference   *)
(* site: a crash that writes no dump (abort, or a signal ASan does not     *)
(* report) finds an empty file and is discarded by the pre-check.          *)
(***************************************************************************)
Tier3AdmitsOnlyReferenceSite ==
    CrashMode >= 3 =>
        \A s \in admitted_sites : SameSite(s, FindCrashSite(RefDump))

(***************************************************************************)
(* Spec 5 (tier 3): crash-site equality is a prerequisite for admission,   *)
(* "checked both before classification and after calibration".  Then in   *)
(* crash mode 3 every calibration of a queued crash that stays in the      *)
(* queue names the reference site.  The code's post-calibration            *)
(* same_crash_site (l. 1014) only chooses whether it writes the detail     *)
(* line itself; the entry stays queued whatever it returns.                *)
(***************************************************************************)
Tier3QueueOnlyReferenceSite ==
    CrashMode >= 3 =>
        \A s \in calibrated_sites : SameSite(s, FindCrashSite(RefDump))

(***************************************************************************)
(* Refinement of DecreaseProgress.  The footprint of a state is its        *)
(* global minima and the number of edges virgin_bits records as covered;  *)
(* between has_few_bits and calibrate_case (pc = "calibrate") the entry is *)
(* already queued, so the minima it is about to set are counted already.  *)
(***************************************************************************)
FootprintBms ==
    IF pc = "calibrate" THEN CalibratedMinBms ELSE min_bitmap_size

FootprintCnt ==
    IF pc = "calibrate" THEN CalibratedMinCnt ELSE min_actual_cnts

Progress == INSTANCE DecreaseProgress WITH
    queued  <- queued_items,
    matrix  <- testcase_matrix,
    bms     <- FootprintBms,
    cnt     <- FootprintCnt,
    cov     <- CountNon255Bytes(virgin_bits),
    InitBms <- InitMinBitmapSize,
    InitCnt <- InitMinActualCnts

(***************************************************************************)
(* save_if_interesting, has_few_bits and calibrate_case together implement *)
(* DecreaseProgress: before the matrix the queue only adds coverage; once  *)
(* it is there each crash queued lowers a minimum or drops a covered edge  *)
(* and raises none, and no rejected crash, hang or re-run moves the       *)
(* footprint.                                                              *)
(***************************************************************************)
ImplementsDecreaseProgress == Progress!Spec

(***************************************************************************)
(* Spec 4.E: a queued crash's name says why it was kept.  The name         *)
(* describe_op builds from few_bits + is_timeout carries ",+tout" exactly  *)
(* when the call came through an interesting timeout and its re-run       *)
(* crashed, and a tag naming what the judgement found: before the matrix  *)
(* "+cov" when a never-touched edge was hit; after it "-" and one letter   *)
(* per decrease (b: bitmap size below the minimum, c: a covered edge       *)
(* dropped, h: a hit total below the minimum on a visible edge), "x" for   *)
(* each one absent.  This ties has_few_bits' packing to describe_op's     *)
(* unpacking across the timeout restart.                                   *)
(***************************************************************************)
Letter(found, c) == IF found THEN c ELSE "x"

JudgedTag ==
    IF testcase_matrix
    THEN "-" \o Letter(BmsDecrease(CrashTrace, min_bitmap_size), "b")
             \o Letter(CovDecrease(virgin_bits, CrashTrace), "c")
             \o Letter(HcnDecrease(virgin_bits, CrashTrace, actual_counts,
                                   min_actual_cnts), "h")
    ELSE IF \E i \in NovelBytes(virgin_bits, CrashTrace) : virgin_bits[i] = 255
         THEN "+cov" ELSE "none"

QueueNameTagsJudgement ==
    [][JudgeCrash /\ pc' = "calibrate" =>
         DescribeOp(few_bits' + is_timeout)
            = [tout |-> is_timeout = 32, tag |-> JudgedTag]]_vars

(***************************************************************************)
(* Every call of save_if_interesting returns: the restart loop of the      *)
(* timeout case ends and the fuzzer is back in its main loop.              *)
(***************************************************************************)
HandlerCompletes == pc # "idle" ~> pc = "idle"

(***************************************************************************)
(* The timeout case's comment (l. 893-895) and spec 2: new bits in         *)
(* virgin_tmout are the signal that a hang is unique; virgin_tmout is the  *)
(* hang-unique map.  Between calls it records only what the hangs saved so *)
(* far, and the timeouts judged uninteresting, made of it: the novelty     *)
(* has_few_bits takes from virgin_tmout (l. 903) before the re-run is not  *)
(* given up when the re-run crashes or no longer times out.                *)
(***************************************************************************)
TmoutNoveltyOnlyFromSavedHangs == pc = "idle" => virgin_tmout = tmout_justified

=============================================================================
