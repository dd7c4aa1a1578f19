------------------------- MODULE MCSaveIfInteresting -------------------------
(***************************************************************************)
(* Model values for SaveIfInteresting: a 3-byte map scanned in 2-byte      *)
(* words (two words, so the skip of all-0xFF virgin words matters), five   *)
(* raw traces chosen so that every kind of novelty and decrease occurs,    *)
(* and an ASan stack whose two innermost frames are the sanitizer's own    *)
(* (blocked by module and by function) above one of two user frames.      *)
(***************************************************************************)
EXTENDS SaveIfInteresting

\* Raw traces (edges 0..2, words {0,1} and {2}): word 0 covered; a higher
\* count on edge 0 (hit-count-only novelty); edge 1 dropped; a new edge in
\* the untouched word 1 while word 0 drops out; both words.
TraceOf(a, b, c) == (0 :> a) @@ (1 :> b) @@ (2 :> c)

MCRawTraces ==
    {TraceOf(1, 1, 0), TraceOf(2, 1, 0), TraceOf(1, 0, 0),
     TraceOf(0, 0, 1), TraceOf(1, 1, 1)}

\* For the timeout path: covered, one edge dropped, the other word only.
MCRawTracesHang == {TraceOf(1, 1, 0), TraceOf(1, 0, 0), TraceOf(0, 0, 1)}

Frame(m, o, f, r) ==
    [mod |-> m, addr |-> [hex |-> TRUE, val |-> o], nsym |-> TRUE, func |-> f, rt |-> r]

FPrint == Frame("libasan.so.8", 1, "__sanitizer_print_stack_trace", TRUE)
FHook  == Frame("target", 2, "__asan_on_error", TRUE)
FUser1 == Frame("target", 3, "parse", FALSE)
FUser2 == Frame("target", 4, "copy", FALSE)
FMain  == Frame("target", 5, "main", FALSE)

DumpAt1 == <<FPrint, FHook, FUser1, FMain>>
DumpAt2 == <<FPrint, FHook, FUser2, FMain>>

MCDumps == {DumpAt1, DumpAt2}

MCDumpsOne == {DumpAt1}

\* strstr over the names above: the pairs where the needle occurs.
MCStrstr(h, n) ==
    <<h, n>> \in {<<"libasan.so.8", "libasan">>,
                  <<"__sanitizer_print_stack_trace", "__sanitizer">>,
                  <<"__asan_on_error", "__asan">>}

\* Between calls the locals of save_if_interesting and the last trace are
\* dead: they are written before they are read by the next call.  The
\* ghost tmout_justified is read by no action and is left out: runs that
\* check a property about it have no VIEW.
MCView ==
    IF pc = "idle"
    THEN <<crash_mode, pc, engine, sites, outputs, admitted_sites, calibrated_sites, cov_budget>>
    ELSE <<crash_mode, pc, call, engine, sites, outputs, exec_site,
           admitted_sites, calibrated_sites, cov_budget>>

=============================================================================
