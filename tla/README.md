# TLA+ models of Lokad.Utf8Regex

Utf8Regex is a .NET regular expression engine over UTF-8 bytes, with a Core
profile, a PythonRe profile and a PCRE2 profile. Next to the matching itself it
carries a resource model: a host supplies a *memory allowance*
(`IUtf8MemoryAllowance`: `TryReserve`, `Release`), and compiled programs, cached
replacement plans, cursors and retained results are charged to it and must be
returned to it, exactly once and not too early, whatever fails and whichever
threads share them. That resource model is concurrent, has many error exits and
is the part a unit test reaches least. The specifications start there.

Paths below are relative to `src/src/`; `U/` stands for `Lokad.Utf8Regex/`.

## Inventory

**Funded storage** (`U/Internal/Utf8FundedStorage.cs`). State: `_bytes`, `_users`,
`_closed` under one gate; per `Use` an owner reference. Operations: `Retain`, `Enter`,
`Close`, `Leave`, `Use.Dispose`. Hard: Retain, Close and the last Leave race, each of
them may be the one that must refund, and the refund is paid after the gate is left.
Correct when: no refund under a use, exactly one refund, no use granted afterwards.

**Preparation cache** (`U/Internal/Caching/Utf8BoundedPreparationCache.cs`; clients
`U/Utf8Regex.ReplacementPreparation.cs`, `U/Internal/Replacement/Utf8ReplacementPlanCache.cs`,
the substitution code of PythonRe and PCRE2, `U/Internal/Caching/Utf8RegexCache.cs`). State: a
linked list of entries, capacity, generation, payload sum; per entry a status, a charge
and a funded storage. Operations: `GetOrAdd`, `TryGet`, `Clear`, `Capacity`, `EnableFunding`.
Factories run outside the lock; followers wait on the monitor for a pending entry and
poll their own token. Hard: single flight with failure, publication after invalidation,
eviction under waiting and reading callers, interruption at every check, recovery of a
follower whose preparer failed for reasons of its own. Correct when: one entry per key, the bounds
and sums hold, nothing stale is published, every byte is accounted for, every call ends,
and nobody fails for another caller's reasons.

**Program owner, match cursor, retained receipts** (`U/Utf8RegexProgramOwner.cs`,
`U/Utf8RegexMatchCursor.cs`, `U/Utf8RetainedRangeMatch.cs`). State: the owner's `_regex`
and its funded storage; per cursor a status, the `_active` gate, the working ledger, the
result ledger, the current token; per receipt its allowance. Operations: `CreateMatchCursor`,
`MoveNext`, `MoveNextRetained`, `Dispose` of each. Hard: three lifetimes that end in any
order, two host accounts, a transfer of a loan in the middle of an advance that may fail
at any checkpoint, aliases used concurrently. Correct when: the program stays funded
under open cursors, an exit path leaks nothing, a result is funded without a gap, a
borrowed token goes back, failure is final.

**Execution controls** (`U/Internal/Execution/`: `Utf8ExecutionBudget`, `Utf8StorageLedger`,
`Utf8ExecutionDeadline`, `Utf8InvocationResults`, `Utf8SliceInvocation`). State: saturating
counters, the first denial, a reservation. Hard: saturation at the top of `ulong`, sticky
denial, growth that reserves the new extent before it releases the old one, a nested
construction under what the limit leaves. Correct when: limits hold with overlaps
counted, a failure reports the truth, and every reserved byte has one holder.

**Construction scopes** (`U/Internal/Construction/`). State: a thread-static stack of scopes
over one budget with checkpoints, ceilings and peaks. Hard: nested rollback, restricted
scopes that restore limit and peak, transfer of the funded bytes at publication. Correct when: none of the budget's internal
errors is reachable, each byte has a holder, a restriction bounds what is inside it.

**Input** (`U/Internal/Input/`): strict validation on two lanes, boundary maps between byte,
UTF-16 and scalar positions. **Front end** (`U/Internal/FrontEnd/`): parser, analysis, lowering.
**VM** (`Utf8SliceRunner`, `Utf8SliceProgram`): the backtracking machine. **Non-backtracking search**,
**literal search**, **compiled engines and planning**, **replacement templates and output**.
**PythonRe** and **PCRE2** adapters: translators, their own cursors, the rules for
empty matches (`Pcre2GlobalProgress`), the PCRE2 backtracking runner. These are sequential;
what is hard in them is equality with a reference semantics, and how global iteration moves on
after an empty match, where each dialect and each cursor has a rule and a state of its own.
Correct when: every reported match is the first one the one before leaves, false means that
nothing is left and stays false, and every call returns.
Case tables are generated data; `bench/` measures and is outside the product.

Interactions: a construction scope reserves bytes, `TransferFundedBytes` hands them to
`Retain` of a funded storage, which belongs to a program owner or to a cache entry. Each
cursor and each call that uses a cached plan holds one `Use`. A cursor has a ledger over
a host allowance and hands part of it to a receipt. Threads meet in the gate of a
storage, the lock of a cache, and the `_active` exchange of a cursor.

## Modules

| Module | What it is |
|---|---|
| `FundedLease` | the abstract promise: one charge, uses that come and go, one refund after close and last use |
| `FundedStorage` | `Utf8FundedStorage`, one action per gate section; implements `FundedLease` |
| `FundedStorageProofs` | its inductive invariant, safety and the refinement |
| `PlanMap` | the abstract promise: a bounded map from keys to plans, with claims and epochs |
| `PreparationCache` | the cache, its entries' storages, the calls of its clients and their recovery; implements `PlanMap` |
| `PreparationCacheProofs` | its inductive invariant, safety, the two action properties and the refinement |
| `ProgramCursor` | owner, cursors and receipts over `Lease == INSTANCE FundedLease` |
| `ProgramCursorProofs` | its two inductive invariants and safety |
| `ConstructionScope` | the stack of scopes over one budget, with buffers, sessions and the transfer |
| `ConstructionScopeProofs` | its inductive invariant and safety |
| `ConstructionCeilingsProofs` | ceilings and peaks of nested restrictions |
| `InvocationBudget` | the counters, the ledger and its holders, and a preparation under a ceiling |
| `InvocationBudgetProofs` | its inductive invariant, safety and the two action properties |
| `MatchIteration` | global iteration over matches, in five lanes of the three dialects |
| `MatchIterationProofs` | its inductive invariant, safety and the finality of the end |
| `SumTheorems` | lemmas on sums over finite sets, for the accounts of the cache and the cursors |
| `MC*` | symmetry sets and constants for the configurations of the same name |

### FundedStorage

`bytes`, `users`, `closed` are the fields. `pc`, `taking`, `due` are a thread between
its gate section and what follows it: `Dispose` exchanges the owner of a `Use` and only
then runs `Leave`; `due` is the local `release`, paid by action `Release` after the gate.
`scope` is the reservation before `Retain`; `Rollback` is a construction that fails
before it. The refinement maps the uses in flight to the lease's `live`, and the
bytes in the field plus those due to its `paid`.

### PreparationCache

Every section under `lock (this)` is one action; `Factory` is the step outside of it.
A call record is the stack of `GetOrAddCore`: key, captured generation, lane (`pending` for
the caller that inserted an entry, `late` for one that found no room, `private` for a
preparation that is never published), entry, use, value and the bytes its scope holds. A lookup
hits, waits, inserts or goes late; publication checks generation, looks the key up a second
time, plans victims from the oldest ready entry and relinks. A token, deadline or refusal at a
`control.Check()` is an action of its own for each state it may leave behind: `Interrupted` while nothing
has been acquired, `ReadInterrupted` with the use of a ready entry, `AcquireInterrupted` with a
pending entry that is not listed yet, `PublishInterrupted` and then `FailPending` with a listed one,
and `LateInterrupted` in a late publication, between the `Acquire` of the completed entry and
`PublishCharge`: before `Complete` marks the scope and moves the bytes they are in the call's scope, after it
in the entry's storage, which the catch block closes under the call's use. `Recover` and
`Propagate` are the catch clauses of the client; the
constant `Client` says whose, and `CoreCatches` and `Pcre2Catches` which foreign failures they name. The linked list is a set with its order relation; entries that
nobody refers to any more leave `entry`, as garbage. Gate sections of the entries'
storages are atomic with the cache's section: `FundedStorage` shows what they promise.

`PlanMap` is what is left when entries, links, charges, waits and accounts are taken away: keys with a
plan, the work of each caller since its miss, the claims of those that got a place, the epoch and
the number of places. A plan enters in one step, in the epoch its work began in and under
a claim or a key that nobody holds; plans leave only for another plan, by `Clear` or by a shrink; work
that fails takes back its own claim. The refinement maps the ready entries to the
plans, the listed pending entries to the claims of their preparers, and the generation to the epoch.

### ProgramCursor

The program's storage is the abstract lease, each cursor being one of its uses. A call record
says where the call is and what it has staged and been granted:

```
ReadRoot -> EnterStorage -> BuildScratch -> Attach
MoveNext -> Check -> Exhausted | Stage
            Stage -> Publish | Transfer | Grant -> (Ungrant | ReleaseStaging -> Fill)
         -> Unstage -> (Close -> EndUse ->) Restore -> (Close -> EndUse ->) Exit
Dispose  -> Close -> EndUse -> Exit
TakeAllowance -> Repay
```

`Faults`, `BuildFails` and `Ungrant` are exceptions at a checkpoint. The two closing
positions are the two the code has: at the end of the subject inside `Advance`,
before the token goes back, and in `MoveNextCore`'s catch, after it. A receipt on the
cursor's own allowance takes the staged loan over without a host call (`Transfer`);
one on another allowance is granted first and the staged loan released afterwards. Every two calls
to a host are separate steps, so other threads, the owner's `Dispose` and another cursor on
the same allowance run in between. Matching is a choice between match and end; sizes are
`ProgramBytes`, `ScratchBytes` and `ResultBytes`. The owner's short calls (`IsMatch`, `Count`,
`TryReplace`) enter and leave the same storage and are not repeated.

### ConstructionScope

`budget` is the `Utf8ConstructionBudget`, `level[1..top]` the chain of `s_current`. A scope's
record has its three checkpoints, its flags, what it restores, and what the code running in
it has open: a session with an arena (temporary and payload bytes) and a growable buffer (`array`,
and `grown` while it copies). `kept` is what a completed inner scope left to it. `AllocateObject`
and `ArenaAllocate` are admission and allocation in one, since nothing runs in between; a
growing buffer is two steps (`Grow` or `TakeExact`, then `CopyDone` or `CopyThrows`),
because the copy is charged while both extents are held. `Throw` is a cancelled token, the
deadline or a denied charge at any checkpoint; `HostRefuses` the allowance. Leaving runs the
`using` declarations in order: `DisposeBuffer`, `DisposeSession`, `DisposeScope`, where an
exception may also be caught. `TransferFundedBytes` is `CompileFunded` publishing. `additional`
and `high` are history, for the properties only.

### InvocationBudget

`Max` is `ulong.MaxValue`: sums saturate at it, differences are taken modulo `Max + 1`, and the bound
is small so that both ends are reached. `budget` is `Utf8ExecutionBudget`, `reserved` the
ledger, `own` names who holds what is reserved: a staging buffer, an extent being filled (`pending`), results,
the loan of a construction scope, the reservation of a preparation. A growth is
`Request` (result bytes, then working bytes, then the host), then `Adopt`, or `Abandon` when the
copy fails. `Prepare`, `Construct` and `Prepared` are
`Pcre2ReplacementPreparationControl.Prepare` with its `catch`; `PublicCeiling` is its local. A
denial is a return value in the code: only `ThrowDenied`, or a compiler's check, makes it a
failure, so charging may go on after it. A funded invocation ends with a checkpoint (`Finish`), an
unfunded one without (`Return`): that it denied nothing rests on each caller's own test of the
returned breach, is a guard of the action, and `FailuresExplained` does not claim it. `Interrupt` is a token or deadline at any checkpoint.

### MatchIteration

An attempt of the matcher is a table: the pattern is a sequence of alternatives in priority
order, with start, consumed end, reported start (which `\K` moves) and the place `\G` must
stand at, and an attempt takes the first one it admits. What is modelled whole is the loop
around it: `AdvancePastScalar`, `TryAdvanceAfterEmpty` and `TryAdvanceCandidate`, `Pcre2GlobalProgress`
(`Accept`, `AfterMiss`), the retry of Python, the bytewise slice cursor, `CountFromBytes` and the
Core cursors, with what each keeps between two calls. The reference definition, `Eligible`,
is independent of all of them: an alternative is eligible after a match if it starts at a place
a search from its end may visit, has `\G` there, and does not repeat an empty match.

## Runs

| Run | Instance | Shows |
|---|---|---|
| `funded_storage` | 3 threads, 3 uses | the safety of one charge, that it returns, and `ImplementsLease` |
| `cache_funded` | 2 threads, 3 keys (one bad and oversized), capacity 0-2, 4 slots | bounds, accounting, funded uses, no stale publication, implements `PlanMap` |
| `cache_contended` | 3 threads, 2 keys, capacity 2, values that do not fit together | single flight, one entry per key |
| `cache_liveness` | 2 threads, fair, 2 keys (one bad), the catch clauses of PCRE2 | every call ends, template errors stay with the callers of the faulty template |
| `cache_inherits_refusal` | 2 threads, the Core client's catch clauses | a counterexample, see below |
| `cursor` | 2 threads, 2 cursors, 2 receipts, 2 accounts | accounting, hand-over, tokens, final statuses |
| `cursor_liveness` | 2 threads, 2 cursors, 1 receipt, fair | the program is refunded |
| `construction` | 3 scopes, 3 slots, 8 bytes, 3 work steps, depth 1, additional 1 or 4 | no internal error, accounting, ceilings, peaks |
| `invocation` | `Max` 5, six sets of limits, funded or not | accounting, limits, true reports, the first denial, the ceiling |
| `iteration` | 3 bytes, five subjects, up to 2 alternatives (3 in Python), five lanes | the matches reported, the end, and that calls return |
| `iteration_origin` | the Core lane, any `\G` | a counterexample, see below |
| `iteration_end` | the slice lane, asked once more | a counterexample, see below |

Bounds and why they suffice. Two threads give every race the code has between a call and
an invalidation or a disposal; the third in `funded_storage` lets Retain, Close and the last
Leave all be in flight, and in `cache_contended` lets two callers wait for one preparer, or one
prepare late beside a pending pair. Two ready entries plus a newcomer are what eviction by count and
by payload needs; `KeyCharge` 1 and values of 1 and 3 make two small plans fit, and
a large one evict either one or two. The fourth slot is an entry detached under
its users. `MaxGeneration` bounds `Clear` and shrinks (one is enough for a captured generation to
become stale; the guard bounds nothing else). Charges differ pairwise, so a refund of the wrong amount cannot
cancel another. A cursor identity is used once, and `ended` uses are not granted again: the
bound on how often a program is used. A receipt is reused only while it has never been filled.

Three scopes are a restricted one in a restricted one in a root, with a plain one at any of
the three; 8 bytes hold one array of every size and the two extents of the smallest
growth, so that some growths fit, some only without the old extent, and some meet a restriction (1 or 4)
before the policy. `Header`, `Pad` and `Object` keep the shape of `ArrayBytes` at that
size. `MaxWork` is the bound on the charges of a construction: charges are never given back.

With `Max` 5 every counter reaches its limit, its width, and the limit that is the width. The limit
sets deny each resource first, and one leaves everything unlimited. Two bounds are named in the guards: one
construction does not ask for more than a `ulong` counts, and receipts have no more than
`Max` bytes.

The subjects of `iteration` are one-byte scalars, a two-byte scalar after a one-byte one, a CR LF
pair with and without skipped line feeds, and an anchored request. Two alternatives are a
match and the one it must not hide; Python's retry needs a third, an empty match and two nonempty ones.
Core patterns keep to a `\G` that is not looked behind at, and callers of a slice cursor stop at its
end: these are the two findings. `Again` bounds how often an ended cursor is asked.

Deadlock is checked in the cache runs, where a call can always begin, and in `construction` and
`iteration`. `funded_storage` and the cursor runs do stop, when every use has ended or every
cursor and receipt is used up, and so does `invocation`, when the operation has ended.

Fairness is weak and only over steps of a call that has begun: a thread in a method of
the engine is scheduled, a lock is granted, a factory returns, and `Monitor.Wait`
polls. Beginning a call, disposing, failing and being interrupted are never fair. In
`cursor_liveness` the owner's `Dispose`, once started (`~root`), completes. `iteration` is fair to the
attempts of a call that has begun, which is a loop on one thread; no call ever has to begin. In
`funded_storage` a granted use is assumed to be left only as far as the property's
hypothesis says.

Findings.

`cache_inherits_refusal`: the comment at
`U/Utf8Regex.ReplacementPreparation.cs:32` says that a follower prepares once "rather
than inheriting its failure". The catch clauses recover from a foreign cancellation and
a foreign deadline; a preparer whose own working allowance refused it stores that
refusal in the entry, and its followers rethrow it. No passing run checks the property for a
client that names refusals too: there it would only repeat the guard of `Propagate`.

`iteration_origin`: `CountFromBytes` pins `\G` after every match (`U/Internal/Execution/Utf8SliceRunner.cs:775`),
the Core cursors only after one that consumed something
(`U/Internal/Execution/Utf8OperationMatchCursor.cs:390`, `U/Utf8RegexMatchCursor.cs:164`). A lookbehind at
`\G` tells the two apart: `(?<=\G.)` in `abc` counts three empty matches and enumerates one. The
tests say that each global scan re-pins to its own start (`tests/Lokad.Utf8Regex.Tests/Utf8SliceContiguousTests.cs:6`).
Without a lookbehind at `\G` the two rules are the same, which is what the Core lane of `iteration` and its proof show.

`iteration_end`: `Pcre2SliceGlobalMatchCursor` does not remember that it ended when a retry
fails at the end of the subject (`Lokad.Utf8Regex.Pcre2/Pcre2SliceDriver.cs:183`): asked again it reports the
last empty match a second time. All other cursors latch their end; a caller that stops at
the first false is not affected.

## Proofs

All proofs are about the specifications as they are checked, for every value of the
constants that meets the named assumptions (finite sets of uses, cursors, threads and receipts,
null values outside the sets, positive charges).

`FundedStorageProofs`. `IInv` is typing, the place of the charge (`scope`, `bytes`, one
thread's `due`, or paid), `users` as the number of uses in flight (a cardinality, hence finite
`Uses`) and that nobody owes a refund while a use is in flight. From it: `StorageTypes`,
`UseIsNeverRefunded`, `ChargeIsConserved`, `LeaveIsSafe`, and `StorageImplementsLease` (initial states map to
initial states, each gate section to one lease step, `Dispose` and a gate section that changes nothing
to a stutter).

`ProgramCursorProofs`. A cursor is either idle or has one call inside it. `CallInv` says, for
a call about to take a given step, what status, gate, use, ledger and token its cursor
has; `IdleInv` says what every exit leaves behind. Neither of the safety properties is inductive: that
a closed cursor holds nothing depends on Close having run with the use still attached,
that the program is funded depends on the lease refusing a refund while a use is live and on each open cursor
being such a use. `LocalStep` is the frame argument, proved once: a step of one
call changes its own record and cursor and leaves all the others as they were. Each action then
has a lemma about its two records. The theorems are `Invariance`,
`CursorsKeepProgramFunded`, `ClosedCursorsHoldNothing`, `OneCallAndItsTokens` and, for the
steps, `ClosingIsFinal`.

The accounts have an invariant of their own on top of that one, `Books`. `Conserved` alone is not
inductive: that `Unstage` releases what was reserved, and that a receipt is charged once, depends on what a call has
staged and been granted by the step it is about to take (`Staging`), on the ledger of its
cursor still holding it (`Covered`), on the receipt it fills not being published yet (`Filling`)
and on no two calls filling the same one. `LedgerStep` is the argument for a step inside a
cursor: the allowances change by what the ledger and the grant change; `PublishStep`,
`BeginStep` and `ReceiptStep` are the ones for a hand-over, a call that begins and a receipt's
Dispose. From `BooksInOrder` follow `AllowancesAreConserved`, `ResultsStayFunded`,
`CursorTypes` (a sum of natural numbers, hence no account below zero) and `EverythingReturns`: when all calls have returned,
no cursor is open and all receipts are disposed, the allowances count the compilation only.
`CursorsFollowLease` records that the owner and its cursors take no step with the storage but those of
`FundedLease`, which `FundedStorage` implements.

`SumTheorems`. The accounts are sums over threads, cursors, receipts and entries, written with
`SumFunction` of the community module `Functions`. Its fold is defined by recursion over subsets, and the
library's induction rules cannot be used; each lemma is proved by a least counterexample instead, the strict subsets of a
finite set being well founded (`LeastSubset`). The recursion is shown to have exactly one solution, and
then what a sum does when a summand changes (`SumChange`), is added (`SumAdd`) or
is zero (`SumSupport`), which is what the steps of the two modules need.

`PreparationCacheProofs`. `IInv` is `Structure`, `Bounded` and `Conserved`. `Structure` says of each call,
by the step it is about to take, which entry and use it refers to and what its scope holds
(`CallInv`), that a preparer's entry is pending and has its key (`OwnerInv`), that no two
calls prepare the same entry (`SoleOwners`), and of each reachable entry who settles it, when it is closed and when it is
paid for (`EntryInv`). None of the properties is inductive. `OneEntryPerKey` depends on the second lookup of a late
publication; `SingleFlight` on a preparer being the only one to leave its entry pending;
`ActiveUseFunded` on an entry being closed as soon as it is unlisted, so that its last user refunds it; and
garbage must be shown to hold no bytes, or `Conserved` would lose them when an entry
stops being reachable. `StructureStep` is the frame: a step changes one call, unlinks some
entries and writes at most one; the kinds of step (`Calm`, `Quiet`, `Still`, `Wrote`, `Leaves`, `Removes`) give
the sums. `NextMoves` says in addition what a step may do to the list, from which the two action
properties and the refinement follow: `CacheImplementsPlanMap` maps each kind of move to a step of
`PlanMap` (`IdlesMap`, `BeginsMap`, `PublishesMap`, `AbandonsMap`, `InvalidatesMap`). It rests on `HeldIs`, by which
the keys of the abstract map are those of the list because every listed pending entry has its preparer,
and on `SoleOwners`, by which a caller that gives up takes no claim but its own. Proved: all invariants and
action properties of the passing runs (`CacheTypeOK` to `CacheNoStalePublication`), the refinement, `CacheEvictionDiscipline`
(what the map says of keys, said of entries), and `CacheEverythingReturns`. The failures after an `Acquire` share `ThrowOwningStep`: a new storage, closed at once, holds
the bytes or the call's scope does. `CacheErrorsOfOwnKey` has an invariant of its own, `ErrorInv`: who waits for an
entry waits for one of its key, and a template error is stored under a faulty key only. The finiteness of `Threads` and `Slots` is assumed.

`ConstructionScopeProofs`. `TypeOK` is not inductive: that a rollback or a release takes no more than
there is depends on where the reserved bytes come from. `IInv` therefore carries `Accounted` (at every level, the next
checkpoint is this level's plus what it holds), and with it what is true between the steps
of a failing growth (`GrownInv`), of a session that is gone (`SessionInv`), and after the
transfer (`PublishedInv`: no level holds anything, and only the root may still roll back, which
is why a transfer followed by a failure is harmless). `RootInv` gives the root the checkpoints
of a new budget. That `Grow` always finds a capacity, so that its last exception is unreachable, is
`AvailableFits`, arithmetic on the padded sizes. Proved for any nesting, sizes and padding:
`ScopesTyped`, `NeverBroken`, `ReservationAccounted`.

`ConstructionCeilingsProofs`. Neither `CeilingsNest` nor `PeakIsHighWater` is inductive, since both
speak of the current ceiling and peak only, and leaving a restricted scope puts saved ones in their place.
`CeilingInv` says of every level that the ceiling it has saved is the least of those around it and
was respected when it was entered; `PeakInv` that the peak an outer owner will read
is the larger of what the restricted level inside it has saved and what happened since. Steps inside a scope come
in two shapes, `Notes` (some number of bytes was reserved, and every open level sees it) and
`Keeps` (bytes are at most given back), each proved once; opening and closing a scope have lemmas of
their own. The module builds on `IInv`, which says that what is released was reserved. Proved:
`RestrictionsNest`, `PeakSeesEverything`.

`InvocationBudgetProofs`. The invariant is typing, `Conserved`, `WithinLimits`,
`FailuresExplained` and `PrepInv`: a preparation runs on an invocation that has denied nothing,
its ceiling is under what the limit left when it began, and its peak is under that ceiling. Each depends
on another: the types on the limits (no difference is negative), the limits on the first
denial, the reports on counters that only grow. `FirstDenialStands` follows step by step;
`CeilingIsTheLimit` needs `CauseInv` besides. All six properties of the run are proved, for
every width and limit, with the two named bounds.

`MatchIterationProofs`. What a lane reports is related to `Eligible` by four parts of the
invariant: `Idle` (where a cursor rests after a match), `Origin` (where `\G` stands as
far as an attempt can tell), `Searching` (nothing eligible has been passed, and the candidate is one that may
be visited) and `Ended`. The facts about subjects (no boundary inside a scalar, CR LF at
boundaries) are lemmas on `Visits` and the three advance operators; each lane then has a
lemma for its match and its miss. The two hypotheses of the theorems, `CoreLooksAhead` and
`SliceCallersStop`, are exactly what the two findings violate.

Model-checked only: liveness (`EventuallyRefunded`, `CallsFinish`, `ProgramRefunded`, `EveryCallReturns`),
which needs fairness and `ENABLED`. Every invariant and action property of a passing run has a theorem.

## Not modelled

The entries with status `not_modelled` in `PROJECT.json`, each with its reason. The parser, the planner and the
compiled kernels are large sequential translations whose correctness is equality with the VM; the vector code
of literal search and validation has no state a model would add to. The machine's instructions
and the PCRE2 runner stand behind the tables of `MatchIteration`.

In the modelled components: a cache factory that calls the cache again (the owner thread check
turns it into an exception); a construction buffer that grows inside a scope it outlives (`Grow` acts on the
innermost scope's buffer, and nothing in the code enforces that callers do the same); the pool of exact arrays; in `MatchIteration`, right-to-left patterns, the direct PCRE2
cursors for single tokens and literal families, candidate accelerations (literal finders
and leading bytes: they skip only what cannot match), match options other than the defaults
and anchoring, the control verbs of the backtracking runner, and a `\K` that runs in a lookbehind
through a subroutine call. That last case is a hazard of the list: the
guard against non-monotone iteration does not see it, and the retry after an empty match compares
the start that `\K` has moved. Byte counts have the width of `ulong` in `InvocationBudget` only;
elsewhere they are naturals, as the limits keep sums far below it.

## Plan

What is left, in order:

1. `PreparationCache`: nested factories with the owner thread check, and `Utf8RegexCache` as a client
   without recovery.
2. `MatchIteration`: the direct PCRE2 cursors and right-to-left iteration as further lanes.
3. The boundary map and validation against reference definitions over bounded byte sequences.
4. `SliceMachine`: the backtracking machine with choice points, captures, atomic groups and repeat frames against a
   reference match relation, and the non-backtracking search against the same relation.
5. The replacement destination protocol, and the PythonRe and PCRE2 cursors as variants of `ProgramCursor`.
