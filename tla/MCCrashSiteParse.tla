--------------------------- MODULE MCCrashSiteParse ---------------------------
(***************************************************************************)
(* Every call-stack file of up to MaxFrames lines over one line of each    *)
(* kind the parse distinguishes.  The runtime frames carry the names the  *)
(* GCC (libasan.so.8) and LLVM (libclang_rt, or linked into the target)   *)
(* runtimes give them; offsets are cut to OffsetBits = 4.                  *)
(***************************************************************************)
EXTENDS CrashSiteParse

MaxFrames == 3

Addr(n) == [hex |-> TRUE, val |-> n]

\* An address field with no hex digit: strtoul parses nothing.
NoAddr == [hex |-> FALSE, val |-> 0]

Frame(m, a, n, f, r) == [mod |-> m, addr |-> a, nsym |-> n, func |-> f, rt |-> r]

FGccRt   == Frame("libasan.so.8", Addr(1), TRUE, "__asan_report_load4", TRUE)
\* A shared LLVM runtime names an interceptor after the libc function.
FClangRt == Frame("libclang_rt.asan-x86_64.so", Addr(2), TRUE, "strlen", TRUE)
FStatic  == Frame("target", Addr(3), TRUE, "__interceptor_memcpy", TRUE)
FHook    == Frame("target", Addr(4), TRUE, "__asan_on_error", TRUE)
FNoSym   == Frame("target", Addr(5), FALSE, NULL, FALSE)
FNoFunc  == Frame("target", Addr(6), TRUE, NULL, FALSE)
FUserA   == Frame("target", Addr(7), TRUE, "parse", FALSE)
FUserB   == Frame("libc.so.6", Addr(8), TRUE, "memcpy", FALSE)
FBadAddr == Frame("target", NoAddr, TRUE, "parse", FALSE)

MCFrames == {NoFrame, FGccRt, FClangRt, FStatic, FHook, FNoSym, FNoFunc,
             FUserA, FUserB, FBadAddr}

MCDumps == UNION {[1 .. n -> MCFrames] : n \in 0 .. MaxFrames}

\* strstr over the names above: the pairs where the needle occurs.
MCStrstr(h, n) ==
    <<h, n>> \in {<<"libasan.so.8", "libasan">>,
                  <<"libclang_rt.asan-x86_64.so", "libclang_rt.">>,
                  <<"__asan_report_load4", "__asan">>,
                  <<"__interceptor_memcpy", "__interceptor">>,
                  <<"__asan_on_error", "__asan">>}

=============================================================================
