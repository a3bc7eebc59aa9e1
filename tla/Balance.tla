------------------------------- MODULE Balance -------------------------------
(***************************************************************************)
(* The balance value and its diff, src/tx-server/src/lib.rs, at their     *)
(* machine width.  A balance is an i64 (tx_common::Balance):               *)
(*   BalanceDiff::update   merges a second diff into a first: inner += o  *)
(*   Balance::diff         applies a diff to a balance:      self + change *)
(*   Balance::check        passes a balance that is not negative          *)
(* Rust's + on i64 panics on overflow when overflow checks are on (debug  *)
(* builds) and wraps modulo 2^64 when they are off (release builds).      *)
(*                                                                         *)
(* TLC's integers are 32 bits wide, so the width is the constant Width;   *)
(* wrapping addition behaves the same at every width.                      *)
(*                                                                         *)
(* The specification is one transaction writing one key several times.   *)
(* As spec 3 describes the shard, the transaction's diffs are merged and  *)
(* its tentative value is the committed balance with the merged diff      *)
(* applied; check_commit then checks that value.                           *)
(***************************************************************************)
EXTENDS Integers

CONSTANTS
    Width,           \* bits of the balance type (64 in the code)
    OverflowChecks,  \* TRUE: + panics on overflow; FALSE: + wraps
    Diffs,           \* diffs a client may send in WriteBalance
    MaxWrites        \* bound on the writes of the transaction

ASSUME Width \in Nat /\ Width >= 2
ASSUME OverflowChecks \in BOOLEAN
ASSUME MaxWrites \in Nat

Modulus == 2 ^ Width
MinBalance == -(2 ^ (Width - 1))
MaxBalance == 2 ^ (Width - 1) - 1
Word == MinBalance..MaxBalance

ASSUME Diffs \subseteq Word

\* Two's-complement wrapping of an exact sum into Word.
Wrap(x) == ((x - MinBalance) % Modulus) + MinBalance

\* Mutant: the overflow test never fires.
OverflowsNever(a, b) == FALSE

\* An i64 addition whose exact result is not representable.
Overflows(a, b) == a + b \notin Word

\* i64 + as built: the wrapped sum (only reached without a panic when
\* overflow checks are off or the sum fits).
Plus(a, b) == Wrap(a + b)

\* BalanceDiff::update and Balance::diff are both an i64 +.
Update(inner, other) == Plus(inner, other)
ApplyDiff(balance, change) == Plus(balance, change)

\* Balance::check.
Check(v) == v >= 0

VARIABLES
    committed,  \* the key's committed balance
    merged,     \* the transaction's merged diff
    wrote,      \* the transaction holds a tentative write on the key
    exact,      \* history: the exact sum of the diffs written
    writes,     \* number of writes so far
    panicked    \* a + panicked in the task handling a write

vars == <<committed, merged, wrote, exact, writes, panicked>>

\* Any committed balance passed the check when it was committed.
Init ==
    /\ committed \in 0..MaxBalance
    /\ merged = 0
    /\ wrote = FALSE
    /\ exact = 0
    /\ writes = 0
    /\ panicked = FALSE

\* WriteBalance(key, d): merge d into the transaction's diff (the first
\* write takes d as it is, i.e. 0 + d), then materialise the tentative
\* value.  With overflow checks on, an overflowing + panics the task.
Write(d) ==
    /\ ~panicked
    /\ writes < MaxWrites
    /\ LET m == Update(merged, d)
           overflow == Overflows(merged, d) \/ Overflows(committed, m)
       IN  IF OverflowChecks /\ overflow
           THEN /\ panicked' = TRUE
                /\ UNCHANGED <<merged, wrote, exact>>
           ELSE /\ merged' = m
                /\ wrote' = TRUE
                /\ exact' = exact + d
                /\ UNCHANGED panicked
    /\ writes' = writes + 1
    /\ UNCHANGED committed

Tentative == ApplyDiff(committed, merged)

\* check_commit and commit: install the tentative value when it passes.
Commit ==
    /\ ~panicked
    /\ wrote
    /\ Check(Tentative)
    /\ committed' = Tentative
    /\ merged' = 0
    /\ wrote' = FALSE
    /\ exact' = 0
    /\ writes' = MaxWrites
    /\ UNCHANGED panicked

\* The transaction ends (commit refused, abort, or a panicked task).
Done ==
    /\ \/ panicked
       \/ writes = MaxWrites
       \/ wrote /\ ~Check(Tentative)
    /\ UNCHANGED vars

Next == (\E d \in Diffs : Write(d)) \/ Commit \/ Done

Spec == Init /\ [][Next]_vars

-----------------------------------------------------------------------------
\* The consistency check judges the true balance: whenever the tentative
\* value of a transaction passes Balance::check, it is the committed
\* balance plus the exact sum of the transaction's diffs.  A wrapped + in
\* update or diff could turn a withdrawal below zero into a large positive
\* balance that the check lets through.
CheckSeesTrueBalance ==
    wrote /\ Check(Tentative) => Tentative = committed + exact
=============================================================================
