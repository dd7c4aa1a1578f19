----------------------- MODULE ClassicSaveIfInteresting -----------------------
(***************************************************************************)
(* save_if_interesting of the build without IGORFUZZ_FEATURE_ENABLE (the   *)
(* AFL++ dispatcher, afl-fuzz-bitmap.c l. 1074-1486).  An execution whose  *)
(* fault is crash_mode is judged on virgin_bits and queued                 *)
(* (save_to_queue, then calibrate_case); then, whatever happened, the      *)
(* switch on the call's fault keeps unique hangs and crashes.  A hang is   *)
(* re-run with hang_tmout: a crash jumps to keep_as_crash, and with        *)
(* AFL_KEEP_TIMEOUTS a run that no longer times out jumps back to          *)
(* save_to_queue, after which control reaches the switch again with the    *)
(* same fault.                                                             *)
(*                                                                         *)
(* As in SaveIfInteresting, a step ends where the code calls the target:   *)
(* the re-run (fuzz_run_target) and calibrate_case.  pc names the label   *)
(* control is at; "switch" is the switch (fault), "crash" is keep_as_crash.*)
(***************************************************************************)
EXTENDS Bitmap

CONSTANTS
    Faults,            \* outcomes of fuzz_run_target: "ok", "tmout", "crash"
    InputLens,         \* input lengths: 0 (the early return) and/or 1
    RawTraces,         \* raw trace bitmaps the target can produce
    Builds,            \* the option sets a fuzzer process may run with
    IgnoreTimeouts,    \* AFL_IGNORE_TIMEOUTS
    ExecTmoutBelowHang,\* fsrv.exec_tmout < hang_tmout
    KeepUniqueHang,    \* KEEP_UNIQUE_HANG
    KeepUniqueCrash    \* KEEP_UNIQUE_CRASH

(***************************************************************************)
(* The options fixed for the whole life of a fuzzer process:               *)
(* afl->crash_mode ("ok" is FSRV_RUN_OK, "crash" is -C), a schedule among  *)
(* FAST..RARE, afl->non_instrumented_mode and AFL_KEEP_TIMEOUTS.           *)
(***************************************************************************)
Options == [crash_mode : {"ok", "crash"}, fast_schedule : BOOLEAN,
            non_instrumented : BOOLEAN, keep_timeouts : BOOLEAN]

ASSUME Builds \subseteq Options /\ Builds # {}
ASSUME KeepUniqueHang \in Nat /\ KeepUniqueCrash \in Nat

VARIABLES
    afl,            \* the process's options, one of Builds
    pc,             \* the label control is at in save_if_interesting
    fault,          \* the call's fault (never reassigned by the call)
    input_len,
    trace,          \* fsrv.trace_bits
    classified,     \* the local classified
    new_bits,       \* the local new_bits
    is_timeout,     \* the local is_timeout (0 or 0x80)
    keeping,        \* the local keeping: the call's return value
    virgin_bits,
    virgin_tmout,
    virgin_crash,
    queued_items,
    queued_with_cov,
    saved_tmouts,   \* timeouts kept in the queue (AFL_KEEP_TIMEOUTS)
    saved_hangs,
    saved_crashes,
    queued_in_call  \* ghost: entries the current call has added to the queue

locals  == <<fault, input_len, trace, classified, new_bits, is_timeout, keeping>>
virgins == <<virgin_bits, virgin_tmout, virgin_crash>>
outputs == <<queued_items, queued_with_cov, saved_tmouts, saved_hangs,
             saved_crashes>>
vars    == <<afl, pc, locals, virgins, outputs, queued_in_call>>

CrashMode       == afl.crash_mode
FastSchedule    == afl.fast_schedule
NonInstrumented == afl.non_instrumented
KeepTimeouts    == afl.keep_timeouts

AllVirgin == [i \in Edges |-> 255]

\* The IgorFuzz build's timeout marker used in this build.
TimeoutFlagIgorFuzz == 32

\* is_timeout = 0x80: the marker describe_op of this build decodes.
TimeoutFlag == 128

\* skim (coverage-64.h): some byte of the trace, classified on the fly,
\* has a bit the virgin map still has.
Skim(v, raw) == NovelBytes(v, Classify(raw)) # {}

(***************************************************************************)
(* has_new_bits_unclassified: 0 with the trace left raw when skim finds    *)
(* nothing, else classify_counts and has_new_bits.                         *)
(***************************************************************************)
HasNewBitsUnclassified(v, raw) ==
    IF Skim(v, raw) THEN HasNewBitsRet(v, Classify(raw)) ELSE 0

\* The trace as the switch's cases see it once classified and simplified.
SimplifiedTrace == Simplify(IF classified THEN trace ELSE Classify(trace))

(***************************************************************************)
(* save_to_queue: the entry is written and added to the queue, with        *)
(* has_new_cov when new_bits (nb) is 2; calibrate_case runs next.          *)
(***************************************************************************)
SaveToQueue(nb) ==
    /\ queued_items' = queued_items + 1
    /\ queued_with_cov' = queued_with_cov + B2N(nb = 2)
    /\ queued_in_call' = queued_in_call + 1
    /\ pc' = "calibrate"

-----------------------------------------------------------------------------
Init ==
    /\ afl \in Builds
    /\ pc = "idle"
    /\ fault = "ok"
    /\ input_len = 1
    /\ trace = [i \in Edges |-> 0]
    /\ classified = FALSE
    /\ new_bits = 0
    /\ is_timeout = 0
    /\ keeping = FALSE
    /\ virgin_bits = AllVirgin
    /\ virgin_tmout = AllVirgin
    /\ virgin_crash = AllVirgin
    /\ queued_items = 0
    /\ queued_with_cov = 0
    /\ saved_tmouts = 0
    /\ saved_hangs = 0
    /\ saved_crashes = 0
    /\ queued_in_call = 0

\* The main loop runs the target on an input and calls save_if_interesting.
Run ==
    /\ pc = "idle"
    /\ \E f \in Faults, raw \in RawTraces, len \in InputLens :
          /\ fault' = f
          /\ trace' = raw
          /\ input_len' = len
    /\ classified' = FALSE
    /\ new_bits' = 0
    /\ is_timeout' = 0
    /\ keeping' = FALSE
    /\ queued_in_call' = 0
    /\ pc' = "save"
    /\ UNCHANGED <<afl, virgins, outputs>>

-----------------------------------------------------------------------------
ReturnsEarly == input_len = 0 \/ (fault = "tmout" /\ IgnoreTimeouts)

\* len == 0, or an ignored timeout: return 0.
ClassicEarlyReturn ==
    /\ pc = "save"
    /\ ReturnsEarly
    /\ pc' = "idle"
    /\ UNCHANGED <<afl, locals, virgins, outputs, queued_in_call>>

\* The FAST..RARE schedules classify the trace first (and count its hash).
ScheduledTrace == IF FastSchedule THEN Classify(trace) ELSE trace

(***************************************************************************)
(* fault == crash_mode: has_new_bits on virgin_bits (the unclassified      *)
(* variant when the schedule has not classified); no new bits returns 0,   *)
(* new bits go to save_to_queue.                                           *)
(***************************************************************************)
ClassicJudge ==
    /\ pc = "save"
    /\ ~ReturnsEarly
    /\ fault = CrashMode
    /\ LET nb   == IF FastSchedule THEN HasNewBitsRet(virgin_bits, ScheduledTrace)
                   ELSE HasNewBitsUnclassified(virgin_bits, trace)
           done == FastSchedule \/ Skim(virgin_bits, trace)
       IN /\ new_bits' = nb
          /\ classified' = done
          /\ trace' = IF done THEN Classify(trace) ELSE trace
          /\ virgin_bits' = IF done THEN HasNewBitsVirgin(virgin_bits, Classify(trace))
                            ELSE virgin_bits
          /\ \/ nb = 0 /\ pc' = "idle"
                /\ UNCHANGED <<queued_items, queued_with_cov, queued_in_call>>
             \/ nb # 0 /\ SaveToQueue(nb)
    /\ UNCHANGED <<afl, fault, input_len, is_timeout, keeping, virgin_tmout,
                   virgin_crash, saved_tmouts, saved_hangs, saved_crashes>>

\* Any other fault goes straight to the switch.
ClassicToSwitch ==
    /\ pc = "save"
    /\ ~ReturnsEarly
    /\ fault # CrashMode
    /\ trace' = ScheduledTrace
    /\ classified' = FastSchedule
    /\ pc' = "switch"
    /\ UNCHANGED <<afl, fault, input_len, new_bits, is_timeout, keeping, virgins,
                   outputs, queued_in_call>>

\* calibrate_case runs the target again; its last execution is left in
\* trace_bits, raw, while classified still says 1.  keeping = 1.
ClassicCalibrate ==
    /\ pc = "calibrate"
    /\ \E raw \in RawTraces : trace' = raw
    /\ keeping' = TRUE
    /\ pc' = "switch"
    /\ UNCHANGED <<afl, fault, input_len, classified, new_bits, is_timeout, virgins,
                   outputs, queued_in_call>>

-----------------------------------------------------------------------------
(***************************************************************************)
(* case FSRV_RUN_TMOUT: return keeping once the hang quota is reached;     *)
(* otherwise (instrumented) classify, simplify and return keeping unless   *)
(* virgin_tmout has new bits; an interesting hang is re-run with           *)
(* hang_tmout when exec_tmout is below it, and saved otherwise.            *)
(***************************************************************************)
ClassicTimeout ==
    /\ pc = "switch"
    /\ fault = "tmout"
    /\ \/ /\ saved_hangs >= KeepUniqueHang
          /\ pc' = "idle"
          /\ UNCHANGED <<trace, classified, is_timeout, virgin_tmout>>
       \/ /\ saved_hangs < KeepUniqueHang
          /\ NonInstrumented
          /\ is_timeout' = TimeoutFlag
          /\ pc' = IF ExecTmoutBelowHang THEN "rerun" ELSE "hang"
          /\ UNCHANGED <<trace, classified, virgin_tmout>>
       \/ /\ saved_hangs < KeepUniqueHang
          /\ ~NonInstrumented
          /\ trace' = SimplifiedTrace
          /\ classified' = TRUE
          /\ virgin_tmout' = HasNewBitsVirgin(virgin_tmout, SimplifiedTrace)
          /\ IF HasNewBitsRet(virgin_tmout, SimplifiedTrace) = 0
             THEN pc' = "idle" /\ UNCHANGED is_timeout
             ELSE /\ is_timeout' = TimeoutFlag
                  /\ pc' = IF ExecTmoutBelowHang THEN "rerun" ELSE "hang"
    /\ UNCHANGED <<afl, fault, input_len, new_bits, keeping, virgin_bits,
                   virgin_crash, outputs, queued_in_call>>

(***************************************************************************)
(* The re-run with hang_tmout, then classify_counts.  A crash goes to      *)
(* keep_as_crash; a timeout goes on to save the hang; anything else goes   *)
(* back to save_to_queue under AFL_KEEP_TIMEOUTS (counted in saved_tmouts) *)
(* and returns keeping otherwise.  stop_soon is not set while the call     *)
(* runs.                                                                   *)
(***************************************************************************)
\* A run that no longer times out restarts the switch, on the call's fault.
ClassicRerunNextRestart(f) ==
    CASE f = "crash" -> "crash" [] f = "tmout" -> "hang" [] OTHER -> "switch"

ClassicRerunNext(f) ==
    CASE f = "crash" -> "crash"
      [] f = "tmout" -> "hang"
      [] OTHER       -> IF KeepTimeouts THEN "calibrate" ELSE "idle"

ClassicRerun ==
    /\ pc = "rerun"
    /\ \E f \in Faults, raw \in RawTraces :
          /\ trace' = Classify(raw)
          /\ IF ClassicRerunNext(f) = "calibrate"
             THEN /\ saved_tmouts' = saved_tmouts + 1
                  /\ SaveToQueue(new_bits)
             ELSE /\ pc' = ClassicRerunNext(f)
                  /\ UNCHANGED <<queued_items, queued_with_cov, saved_tmouts,
                                 queued_in_call>>
    /\ UNCHANGED <<afl, fault, input_len, classified, new_bits, is_timeout, keeping,
                   virgins, saved_hangs, saved_crashes>>

\* The hang file is written and counted; return keeping.
ClassicSaveHang ==
    /\ pc = "hang"
    /\ saved_hangs' = saved_hangs + 1
    /\ pc' = "idle"
    /\ UNCHANGED <<afl, locals, virgins, queued_items, queued_with_cov, saved_tmouts,
                   saved_crashes, queued_in_call>>

(***************************************************************************)
(* case FSRV_RUN_CRASH / keep_as_crash: return keeping once the crash      *)
(* quota is reached; otherwise (instrumented) classify, simplify and       *)
(* return keeping unless virgin_crash has new bits; the crash is saved.    *)
(***************************************************************************)
ClassicCrash ==
    /\ \/ pc = "switch" /\ fault = "crash"
       \/ pc = "crash"
    /\ pc' = "idle"
    /\ \/ /\ saved_crashes >= KeepUniqueCrash
          /\ UNCHANGED <<trace, classified, virgin_crash, saved_crashes>>
       \/ /\ saved_crashes < KeepUniqueCrash
          /\ NonInstrumented
          /\ saved_crashes' = saved_crashes + 1
          /\ UNCHANGED <<trace, classified, virgin_crash>>
       \/ /\ saved_crashes < KeepUniqueCrash
          /\ ~NonInstrumented
          /\ trace' = SimplifiedTrace
          /\ classified' = TRUE
          /\ virgin_crash' = HasNewBitsVirgin(virgin_crash, SimplifiedTrace)
          /\ saved_crashes' = saved_crashes
                + B2N(HasNewBitsRet(virgin_crash, SimplifiedTrace) # 0)
    /\ UNCHANGED <<afl, fault, input_len, new_bits, is_timeout, keeping, virgin_bits,
                   virgin_tmout, queued_items, queued_with_cov, saved_tmouts,
                   saved_hangs, queued_in_call>>

\* default: return keeping.
ClassicDefault ==
    /\ pc = "switch"
    /\ fault = "ok"
    /\ pc' = "idle"
    /\ UNCHANGED <<afl, locals, virgins, outputs, queued_in_call>>

-----------------------------------------------------------------------------
Handler ==
    \/ ClassicEarlyReturn \/ ClassicJudge \/ ClassicToSwitch
    \/ ClassicCalibrate \/ ClassicTimeout \/ ClassicRerun \/ ClassicSaveHang
    \/ ClassicCrash \/ ClassicDefault

Next == Run \/ Handler

Spec == Init /\ [][Next]_vars /\ WF_vars(Handler)

-----------------------------------------------------------------------------
TypeOK ==
    /\ afl \in Builds
    /\ pc \in {"idle", "save", "calibrate", "switch", "rerun", "hang", "crash"}
    /\ fault \in Faults \cup {"ok"}
    /\ trace \in [Edges -> Byte]
    /\ classified \in BOOLEAN /\ keeping \in BOOLEAN
    /\ new_bits \in 0 .. 2
    /\ is_timeout \in {0, 128}
    /\ \A v \in {virgin_bits, virgin_tmout, virgin_crash} : v \in [Edges -> Byte]
    /\ \A n \in {queued_items, queued_with_cov, saved_tmouts, saved_hangs,
                  saved_crashes, queued_in_call} : n \in Nat

(***************************************************************************)
(* The function's comment: it saves "or queue[s] the input test case" and  *)
(* returns 1 if the entry is saved.  One call queues its input at most     *)
(* once: the jump back to save_to_queue under AFL_KEEP_TIMEOUTS is taken   *)
(* once per call.                                                          *)
(***************************************************************************)
QueuedOncePerCall == queued_in_call <= 1

(***************************************************************************)
(* Every call of save_if_interesting returns: the jumps from the timeout   *)
(* case back to save_to_queue, and from there to the switch on the same    *)
(* fault, end.                                                             *)
(***************************************************************************)
ClassicHandlerCompletes == pc # "idle" ~> pc = "idle"

=============================================================================
