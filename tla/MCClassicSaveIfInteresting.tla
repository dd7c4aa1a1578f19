---------------------- MODULE MCClassicSaveIfInteresting ----------------------
(***************************************************************************)
(* Model values for ClassicSaveIfInteresting: a 3-byte map and three raw   *)
(* traces: one edge, the same edge and a second one (what a run that is    *)
(* not cut short by the timeout may add), and a count of 2 on the first    *)
(* edge (a new hit-count bucket, not a new edge).                          *)
(***************************************************************************)
EXTENDS ClassicSaveIfInteresting, TLC

TraceOf(a, b, c) == (0 :> a) @@ (1 :> b) @@ (2 :> c)

MCRawTraces == {TraceOf(1, 0, 0), TraceOf(1, 1, 0), TraceOf(2, 0, 0)}

Build(cm, fs, ni, kt) == [crash_mode |-> cm, fast_schedule |-> fs,
                          non_instrumented |-> ni, keep_timeouts |-> kt]

\* Instrumented with AFL_KEEP_TIMEOUTS.
MCKeepTimeouts == Build("ok", FALSE, FALSE, TRUE)

\* Non-instrumented, -C, a FAST schedule, no AFL_KEEP_TIMEOUTS.
MCNonInstrumented == Build("crash", TRUE, TRUE, FALSE)

\* Non-instrumented with AFL_KEEP_TIMEOUTS.
MCNonInstrumentedKeep == Build("ok", FALSE, TRUE, TRUE)

MCBuildsReturning == {MCKeepTimeouts, MCNonInstrumented}

MCBuildsRequeue == {MCKeepTimeouts}

MCBuildsLoop == {MCNonInstrumentedKeep}

\* The queue counters never decide a branch of the code; they are left out
\* of the state TLC compares, so that a call that keeps queuing closes a
\* cycle.
MCView == <<afl, pc, locals, virgins, saved_hangs, saved_crashes>>

=============================================================================
