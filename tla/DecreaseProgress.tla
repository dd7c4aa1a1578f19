--------------------------- MODULE DecreaseProgress ---------------------------
(***************************************************************************)
(* What the triage core promises about its queue (spec 1, non-goals:      *)
(* "monotone local progress toward smaller behavioral footprints").       *)
(*                                                                         *)
(* The footprint is the triple of global minima and covered edges:        *)
(*   bms  the smallest bitmap size of a queued entry,                     *)
(*   cnt  the smallest total hit count of a queued entry,                 *)
(*   cov  the number of edges still recorded as covered.                  *)
(* Before the testcase matrix exists the core learns: an entry may lower  *)
(* the minima and add coverage.  Once it exists, every entry queued makes *)
(* the footprint strictly smaller in at least one component and larger in *)
(* none, and nothing else changes it.                                      *)
(***************************************************************************)
EXTENDS Naturals

CONSTANTS
    InitBms,        \* min_bitmap_size when the session starts
    InitCnt         \* min_actual_cnts when the session starts

VARIABLES
    queued,         \* number of entries queued
    matrix,         \* the testcase matrix is present
    bms, cnt, cov

vars == <<queued, matrix, bms, cnt, cov>>

Init ==
    /\ queued = 0
    /\ matrix = FALSE
    /\ bms = InitBms
    /\ cnt = InitCnt
    /\ cov = 0

\* The minima never go up.
MinimaLowered == bms' <= bms /\ cnt' <= cnt

\* Before the matrix: an entry is queued; coverage only grows.
Learn ==
    /\ ~matrix
    /\ queued' = queued + 1
    /\ MinimaLowered
    /\ cov' >= cov
    /\ UNCHANGED matrix

\* After the matrix: an entry is queued and the footprint strictly shrinks.
Shrink ==
    /\ matrix
    /\ queued' = queued + 1
    /\ MinimaLowered
    /\ cov' <= cov
    /\ <<bms', cnt', cov'>> # <<bms, cnt, cov>>
    /\ UNCHANGED matrix

Arrive ==
    /\ ~matrix
    /\ matrix' = TRUE
    /\ UNCHANGED <<queued, bms, cnt, cov>>

Next == Learn \/ Shrink \/ Arrive

Spec == Init /\ [][Next]_vars

=============================================================================
