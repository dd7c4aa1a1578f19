---------------------------- MODULE CrashSiteParse ----------------------------
(***************************************************************************)
(* The parse loop of find_crash_site, one line of the call-stack file per  *)
(* step: fgets, the field checks, the module test, the symbolizer call and *)
(* the function test, on the candidate *symbol, *module, *offset.  The     *)
(* loop is checked against a declarative statement of which frame it       *)
(* picks, over every dump of a bounded length.                             *)
(***************************************************************************)
EXTENDS Naturals, Sequences, FiniteSets

CONSTANTS
    NULL, NoFrame, Strstr(_, _), OffsetBits, TargetModule,
    FlushKeepsFirstFrame,  \* as in CrashSite
    ExactModes,  \* the values of IGORFUZZ_CALLSTACK_EXACT_MODULE built
    Dumps        \* the call-stack files to parse

VARIABLES
    exact_module, \* IGORFUZZ_CALLSTACK_EXACT_MODULE of the build
    dump,         \* the file being parsed
    lines,        \* the lines fgets has not returned yet
    site          \* the candidate *symbol, *module, *offset

vars == <<exact_module, dump, lines, site>>

\* The parse as the build with or without the exact-module test compiles it.
CS(exact) == INSTANCE CrashSite WITH ExactModule <- exact

NoSite == CS(FALSE)!NoSite

FrameSite(l) == CS(FALSE)!FrameSite(l)

\* fopen succeeds (the empty sequence stands for a missing file as well as
\* an empty one: both leave the safe init); the candidate starts empty.
Init ==
    /\ exact_module \in ExactModes
    /\ dump \in Dumps
    /\ lines = dump
    /\ site = NoSite

\* One iteration of while (fgets(...)).
ParseLine ==
    /\ lines # <<>>
    /\ site' = CS(exact_module)!FrameStep(site, Head(lines))
    /\ lines' = Tail(lines)
    /\ UNCHANGED <<exact_module, dump>>

\* fgets returns NULL: the loop is over and the candidate is the result.
Parsed == lines = <<>>

Spec == Init /\ [][ParseLine]_vars /\ WF_vars(ParseLine)

-----------------------------------------------------------------------------
\* A frame that must poison every candidate found before it (nearer the
\* top): a frame of the sanitizer runtime, whatever its names are, or in
\* exact-module mode a frame of any module but the target.
Poisons(l) ==
    l # NoFrame /\ (l.rt \/ (exact_module /\ l.mod # TargetModule))

\* A frame that can be the crash site.
Eligible(l) == l # NoFrame /\ ~Poisons(l) /\ l.nsym

\* The innermost eligible frame below the last poisoning frame.
RefCrashSite(d) ==
    LET last == IF \E i \in DOMAIN d : Poisons(d[i])
                THEN CHOOSE i \in DOMAIN d :
                       Poisons(d[i]) /\ \A j \in DOMAIN d : Poisons(d[j]) => j <= i
                ELSE 0
        cand == {j \in DOMAIN d : j > last /\ Eligible(d[j])}
        first == CHOOSE j \in cand : \A k \in cand : j <= k
    IN IF cand = {} THEN NoSite
       ELSE FrameSite(d[first])

\* lines is what is left of the file; the candidate is empty or one of its
\* frames.
TypeOK ==
    /\ exact_module \in ExactModes
    /\ \E k \in 0 .. Len(dump) : lines = SubSeq(dump, k + 1, Len(dump))
    /\ site \in {NoSite} \cup {FrameSite(dump[i]) : i \in {j \in DOMAIN dump : dump[j] # NoFrame}}

(***************************************************************************)
(* When the loop ends, find_crash_site has found the innermost frame that *)
(* the symbolizer knows and that no sanitizer-runtime frame lies below, or *)
(* nothing if there is none: the sticky candidate, the poisoning by a      *)
(* blocked module or function, and the two lists of sym-blacklist.h        *)
(* matched by strstr together pick out exactly that frame, for the names  *)
(* of the GCC and LLVM runtimes, shared and static.                        *)
(***************************************************************************)
ParseFindsInnermostUnpoisoned == Parsed => site = RefCrashSite(dump)

(***************************************************************************)
(* Spec 3: "a crash site's offset is always derived from an address string *)
(* that successfully parsed as base-16; partial triples (offset == 0 or    *)
(* module absent) are always filtered before use."  find_crash_site casts *)
(* strtoul's result to u32 and checks neither its end pointer nor a zero: *)
(* the site it returns is empty or a whole triple.                         *)
(***************************************************************************)
SiteNeverPartial == Parsed => site = NoSite \/ (site.mod # NULL /\ site.ofs # 0)

(***************************************************************************)
(* Spec 4.C scenario 5: the stack mytarget+0xaa, libasan+0xbb,             *)
(* mytarget+0xcc (innermost first) yields the empty crash site.           *)
(***************************************************************************)
Scenario5Empty ==
    Parsed /\ Len(dump) = 3 /\ dump[2] # NoFrame /\ CS(exact_module)!ModuleBlocked(dump[2])
    /\ Eligible(dump[1]) /\ Eligible(dump[3]) => site = NoSite

=============================================================================
