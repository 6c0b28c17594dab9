--------------------------- MODULE KrakenAtomics ---------------------------
(***************************************************************************)
(* The C11 atomic operation libkraken's lock is built from.  The RP3A0     *)
(* compiles a weak compare-exchange to a load-exclusive/store-exclusive    *)
(* pair, which may fail although the cell holds the expected value.        *)
(***************************************************************************)
EXTENDS Naturals

CONSTANT SpuriousFailure  \* TRUE: a weak compare-exchange may fail for no reason

ASSUME SpuriousFailureAssumption == SpuriousFailure \in BOOLEAN

\* atomic_compare_exchange_weak on a cell that goes from old to new; ok is what
\* the call returns.
CasWeak(old, new, expected, desired, ok) ==
    \/ old = expected /\ ok = TRUE  /\ new = desired
    \/ old # expected /\ ok = FALSE /\ new = old
    \/ SpuriousFailure /\ ok = FALSE /\ new = old
=============================================================================
