------------------------------ MODULE CrashSite ------------------------------
(***************************************************************************)
(* The call-stack dump written by __asan_on_error in the target and the    *)
(* crash-site identifier of afl-fuzz-bitmap.c: find_crash_site (the parse  *)
(* of the dump, with the module and function blacklists of                 *)
(* sym-blacklist.h and the flush) and the comparison of same_crash_site.   *)
(*                                                                         *)
(* A line of the dump is either NoFrame (a line too short, without a '\n', *)
(* or without both field tokens: the parse skips it) or a frame record:    *)
(*   mod  : image path of the frame (basename compared with blacklists),   *)
(*   addr : the address field: whether it is all hex digits, and the value *)
(*          of its longest hex prefix (0 when there is none),              *)
(*   nsym : whether the symbolizer returned at least one symbol,           *)
(*   func : the innermost function name it returned, or NULL,              *)
(*   rt   : (not read by the code) the frame is the sanitizer runtime's.   *)
(* strstr is the constant operator Strstr over the names of a model.      *)
(***************************************************************************)
EXTENDS Naturals, Sequences, SequencesExt

CONSTANTS
    NULL,                 \* an absent string (null pointer)
    NoFrame,              \* a line the parse skips
    Strstr(_, _),         \* strstr(haystack, needle) != NULL
    OffsetBits,           \* width of the u32 crash_offset (32 in the build)
    ExactModule,          \* IGORFUZZ_CALLSTACK_EXACT_MODULE
    TargetModule,         \* basename of fsrv.target_path
    FlushKeepsFirstFrame  \* the first frame survives losing its first byte

ASSUME ExactModule \in BOOLEAN /\ FlushKeepsFirstFrame \in BOOLEAN
ASSUME OffsetBits \in Nat \ {0}

\* A crash site (symbol, module, offset); NoSite is the "safe init" 0,0,0.
Site(s, m, o) == [sym |-> s, mod |-> m, ofs |-> o]

NoSite == Site(NULL, NULL, 0)

(***************************************************************************)
(* sym-blacklist.h: the two NULL-terminated lists, written for both the    *)
(* GCC and the LLVM runtimes, and their scan: a name is blocked when one  *)
(* entry is a substring of it.                                             *)
(***************************************************************************)
SymBlacklistModule == <<"libasan", "liblsan", "libubsan", "libclang_rt.">>

SymBlacklistFunction ==
    <<"__asan", "__lsan", "__sanitizer", "__interceptor", "__interception",
      "__ubsan", "__sancov", "__hwasan", "__dfsan", "__dfsw">>

\* The scan stops one entry short of the NULL terminator.
OnBlacklistShort(name, list) == \E i \in 1 .. Len(list) - 1 : Strstr(name, list[i])

OnBlacklist(name, list) == \E i \in 1 .. Len(list) : Strstr(name, list[i])

\* The module test: in exact-module mode every module whose basename is
\* not the target's is blocked; otherwise the module blacklist applies.
ModuleBlocked(f) ==
    IF ExactModule THEN f.mod # TargetModule
    ELSE OnBlacklist(f.mod, SymBlacklistModule)

FunctionBlocked(f) == f.func # NULL /\ OnBlacklist(f.func, SymBlacklistFunction)

\* (u32)strtoul(addr_str, NULL, 16): the value of the longest hex prefix,
\* 0 when there is none (no end pointer is checked), cut to OffsetBits.
ParseOffset(a) == a.val % (2 ^ OffsetBits)

(***************************************************************************)
(* One iteration of the parse loop on a line, given the candidate so far.  *)
(* A blocked frame drops the candidate; the first symbolizable frame after *)
(* the last drop becomes the candidate and sticks (the test is on module). *)
(* A frame the symbolizer returns no symbol for is passed over.            *)
(***************************************************************************)
\* The candidate a frame sets: symbol (or NULL), path and address.
FrameSite(l) == Site(l.func, l.mod, ParseOffset(l.addr))

\* The candidate is overwritten by every later frame (not sticky).
FrameStepNotSticky(site, l) ==
    CASE l = NoFrame          -> site
      [] ModuleBlocked(l)     -> NoSite
      [] ~l.nsym              -> site
      [] FunctionBlocked(l)   -> NoSite
      [] OTHER                -> FrameSite(l)

\* *offset is left at 0 when the candidate is set.
FrameStepNoOffset(site, l) ==
    CASE l = NoFrame          -> site
      [] ModuleBlocked(l)     -> NoSite
      [] ~l.nsym              -> site
      [] FunctionBlocked(l)   -> NoSite
      [] site.mod # NULL      -> site
      [] OTHER                -> Site(l.func, l.mod, 0)

FrameStep(site, l) ==
    CASE l = NoFrame          -> site
      [] ModuleBlocked(l)     -> NoSite
      [] ~l.nsym              -> site
      [] FunctionBlocked(l)   -> NoSite
      [] site.mod # NULL      -> site
      [] OTHER                -> FrameSite(l)

\* find_crash_site's result for a dump: the loop over the lines, innermost
\* frame first.  A missing file (the empty sequence) yields the safe init.
FindCrashSite(dump) == FoldLeft(FrameStep, NoSite, dump)

(***************************************************************************)
(* The flush: rewind(fp); fprintf(fp, "\n") on a file opened "r+".  It     *)
(* overwrites the first byte with a newline and truncates nothing: the     *)
(* first line becomes an empty line followed by the rest of the old first  *)
(* line, and every other line stays.  fopen fails on a missing file, so    *)
(* nothing is written then.  A dump whose first line is already empty is   *)
(* unchanged.                                                              *)
(***************************************************************************)
ChopFirstByte(l) == IF FlushKeepsFirstFrame THEN l ELSE NoFrame

Flush(dump) ==
    IF dump = <<>> \/ Head(dump) = NoFrame THEN dump
    ELSE <<NoFrame, ChopFirstByte(Head(dump))>> \o Tail(dump)

(***************************************************************************)
(* The identity test of same_crash_site: offsets equal and modules both    *)
(* NULL or equal as strings.  The symbol is not compared.                  *)
(***************************************************************************)
SameSite(a, b) == a.ofs = b.ofs /\ a.mod = b.mod

\* The comparison forgets to put the saved site back when they differ.
SiteAfterCompareNoRestore(old, new) == new

\* same_crash_site keeps the freshly parsed site when it is the same one
\* and restores the saved one when it differs.
SiteAfterCompare(old, new) == IF SameSite(old, new) THEN new ELSE old

=============================================================================
