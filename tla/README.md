# A verification project for Folk's reactive database

Folk is a physical computing system. At its centre is a concurrent reactive database written in
C: statements appear and disappear, `When` programs react to them, and everything a `When` said
disappears again when what it reacted to does. This directory models that core in TLA+, checks
it with TLC and proves parts of it with TLAPS. Cameras, projection, printing, the Tcl interpreter and
the web server are outside it.

Paths are relative to the repository root; line numbers are those `PROJECT.json` lists in `map`.

## 1. The system

### Components

| component | state it keeps | operations | models |
|---|---|---|---|
| pools of statements and matches (`db.c`) | 65536 slots each; in every slot a `GenRc` word (raw pointer count, generation, alive bit) | claim, populate, acquire, release, mark dead, destroy | `GenRc`, `SlotPool` |
| graph of statements and matches (`db.c`) | statement: clause, `parentCount`, `keepMs`, `childMatches`; match: `childStatements`, `isCompleted`, `parentWasRemoved` | insert or reuse a statement, insert a match, drop a support, remove recursively, retract | `Db` |
| holds (`db.c`, `folk.c`) | key -> version, statement | `dbHoldStatement` and what its callers do with the old statement | `Db` |
| clause index (`trie.c`) | a persistent trie, one root pointer | add, remove, look up by pattern, look up literally | `Trie`; in `Db` the map `index` |
| reclamation of trie nodes (`epoch.c`) | global epoch, one epoch per thread, three garbage lists | begin, alloc, free, reset, end, collect | `Epoch` |
| work queue of a worker (`workqueue.c`) | circular array, `top`, `bottom` | push and take by the owner, steal by others, resize | `WorkQueue`, `Deque` |
| evaluator (`folk.c`) | work items; per worker the current match | `Assert!`, `Retract!`, `Hold!`, `Say`, `reactToNewStatement`, `runWhenBlock`, `workerRun` | `Evaluator` |
| sysmon (`sysmon.c`) | remove-later table, tick | remove what was scheduled, reap versions, collect garbage, look after the worker pool | `Db` (removal), `Atomically` (reaping), `Epoch` (collector), `Workers` (pool) |
| worker pool (`folk.c`, `sysmon.c`) | thread control blocks, `threadCount`, the queues | spawn, claim a slot, take, steal, block, deactivate and donate, reactivate, exit | `Workers` |
| Atomically versions (`db.c`, `folk.c`) | per version an in-flight count and a root match; per key the list of versions and the latest converged one | fresh version, count, converge, reap | `Atomically` |
| destructors (`db.c`, `folk.c`) | counted sets on statements and matches | add, inherit, release, run | `Destructors` |
| subscriptions, `Notify` (`folk.c`) | `RUN_SUBSCRIBE` items | notify, run | `Evaluator` |

### How they interact

A worker takes an item from its own queue, another worker's, or the global one. An
assertion or a hold inserts a statement; so does a `Say` in the body of a `When`, as a child of
the match the body runs under. Inserting builds a new version of the trie and swaps its root; if
the clause is already there the existing statement is reused and its `parentCount` goes up.
`reactToNewStatement` then asks the trie for the `When`s that match the new statement (and, if it
is a `When`, for the statements it matches) and pushes an item for each pair. The worker that gets
that item makes a match with both as parents and runs the body.

When a support goes, `parentCount` goes down; at zero the statement leaves the trie, is closed
and marked dead, each child match is closed, and each statement such a match said loses a
support in turn. With `-keep` the last support is instead handed to sysmon, which drops it some
milliseconds later. A match that is removed while its body still runs has its worker signalled.

A run of a `When -atomically` makes a version. What is said and run below it belongs to the
version and is counted while it is in flight; at zero the version has converged and older ones of the
same key are given up. Until then the root match of a version stays although its parents went.

A destructor is carried by the statement or match it was given to and by everything below that
inherits it; it runs when the last of them is destroyed. Tries are read without locks inside epochs; slots are read through counted raw
pointers obtained from (slot, generation) references which anybody may keep for ever.

### What is hard about it

Removal is a recursion several threads can be in at once, beside threads that insert below what is
being removed, and none takes a lock on more than a node or two. References go stale by design.
Two reclamation schemes (`GenRc`, epochs) and a Chase-Lev queue rely on the order of single
atomic accesses. Removal from the trie goes by clause, not by reference. `keepMs` is read and
negated in separate steps by workers and sysmon. `PROJECT.json` lists these hazards line by line,
with the properties aimed at each; a hazard without a property says why. Signals reach a worker
late, on another item than the one they were meant for; workers block in I/O for as long as
they like, and the pool shrinks and grows around them.

### What makes each component correct

* pools: what a thread has acquired is not destroyed or reused; one owner while populating and
  destroying; nothing leaks; a stale reference is refused.
* graph: what is supported is alive and found by its clause; one living statement per clause;
  `parentCount` is the number of supporters; what lost its supporters goes; assertions hold.
* evaluator: no pair of a `When` and a statement is missed, whichever came last; activity ends.
* holds: the highest version wins, in whichever order holds arrive.
* Atomically: a version converges when nothing is in flight in it, and is kept until then.
* destructors: each runs once, with its last carrier.
* worker pool: an item is neither lost nor run twice, and runs some day.
* trie: look-up finds the stored clauses that match, and removal takes out what the database is modelled
  with. That it takes out one clause only, as `trie.h` says, is not so.
* epochs: no version is freed while someone looks at it; each is freed once, none is lost.
* work queue: every item is handed out once, and "empty" is said only of an empty queue.

## 2. The modules

```
GenRc <- SlotPool <- SlotPoolProofs          Deque <- (refinement) WorkQueue <- WorkQueueProofs
              ^             ^                Workers <- WorkersProofs
         Destructors <- DestructorsProofs    TrieRemoval <- Trie, Db
Epoch <- EpochProofs
Db <- Atomically <- Evaluator <- EvaluatorSteps <- EvaluatorProofs <- EvaluatorSaid
```

The `MC*` modules give the constants for TLC: symmetry sets, small clause sets, the programs of
the evaluator's runs, the items of the worker pool.

**GenRc** has an operator for each value a successful CAS installs in the word. The generation is
a signed bit field of width `log2(GenMax + 1) + 1`, and wraps as the compiled code does.

**SlotPool** gives each raw pointer variable of a thread a handle with a program counter. Claiming
is three steps as in `statementNew` and `matchNew`: read the word, read the body
(`clause` / `childStatements`), compare-and-swap. The set `issued` only grows: tries, edge lists,
holds and work items never withdraw a reference. Statement and match pools have the same
protocol; the map names lines of either.

**Db** gives each thread a stack `todo` of frames, the C calls it has still to make. An action
executes the top frame up to the next point where another thread can interfere and replaces it by
the frames it leads to, so the recursion of `statementRemoveSelf` and `matchRemoveSelf` is the
stack. Statements and matches are numbered in the order of creation and never reused: this is what
`SlotPool` shows of references. `index` is the trie as a map from clause to reference, swapped in
one step, justified by `Trie` for its contents and by `Epoch` for its memory. A removal by clause takes
out of it what `trieRemove` takes out of the nodes (`Dropped` of `TrieRemoval`): the clause, the stored
clauses that continue it, and those it continues if nothing else hangs below them. `Continues` is the
relation of clauses of which one starts with all terms of the other.
`childMatches` / `childStatements` are `kids`, closing them is `open`. An assertion of the C code
that would fail sets `fault` and stops everything.

`dbInsertMatch` locks its parents one after the other, so a removal can come in between. The
remove-later table is modelled slot by slot, and each field of a slot is a step. `signals` holds
the workers that SIGUSR1 is on its way to; a worker whose match could not be inserted may signal itself
(`AbortMatch`, `db.c:1406`).

**Atomically** adds the versions: fresh versions, in-flight counts, convergence, and the reaper,
which takes the whole list, goes through it version by version and puts the rest back, on a worker
or on sysmon. Each shared access is a step: the decrement to zero (`InflightDecr`) and the store of
`latestConvergedVersion` (`Converged`, `db.c:1137`); the test of the in-flight count (`ReapEach`), the store
to the root (`ClearRoot`) and the read of `parentWasRemoved` (`ReapRoot`, `db.c:1049`). So a version can be
in flight again by the time its root is given up. Two fields are history: `lost` counts the increments the code never takes back,
`newest` is the newest version that ever converged.

**Evaluator** extends it with a bag of work items, the reaction and execution of `When`s, and
subscriptions. What programs do is data: `Programs`, `Whens`, `Subscribes`, `Reacts` and `Body`;
the prologues that `-serially` and `-atomically` put before a body are commands of it. What a body says
has the version of its match, except a `When -nonatomically` or `-atomically`, which has none
(`Unversioned`, `prelude.tcl:526`, `prelude.tcl:573`). `Frames` and
`WorkItems` say what can be on a stack and in a queue, by the references each takes; the type invariant
requires that each was given out, that the index finds a statement by its own clause, and that what is
queued or locked as a `When` is one.

**Workers** is the pool without the database: threads with their slot, place in the loop, flags and
semaphore, the local queues as sequences with the owner at one end and thieves at the other, the
global queue, and sysmon's tick. A new thread goes along `threads[]` one slot per step (`TrySlot`), so a slot
that is freed behind it is not seen; sysmon may spawn another one meanwhile, for its cap counts only the
threads that have a slot. An item is the list of items its body pushes and a way to end:
return, wait for I/O, never return, or be killed by a signal.

**Destructors** extends the steps of `SlotPool` by what they do to the set of the slot, and adds
adding, inheriting and running. Its state includes `SlotPool`'s, whose invariants are checked with it.

**Epoch** has one step per shared access of `epochBegin`, `epochReset`, the CAS loop of the
callers, `epochEnd` and `epochGlobalCollect`. One node stands for all nodes a version of the trie
does not share with the next; malloc may hand a freed node out again.

**TrieRemoval** is one operator, `Dropped`, what a removal takes out in terms of the clauses stored.
**Trie** translates the four recursive functions of `trie.c`, with keys that are literals, variables (`/x/`)
or rest variables (`/...x/`), beside a map `stored` that says what the trie should contain, and
shows that `Dropped` is what the recursion over nodes comes to.

**WorkQueue** has one step per atomic load, store or CAS of the owner and the thieves, and old
arrays stay readable. **Deque** is what it implements.

### Abstractions

* `SlotPool`: `rc` is not limited to its bit field. A release by someone who published nothing is
  left out; callers publish or remove what they create first.
* `Destructors`: inheriting is one step: it is done under both mutexes, by a thread that holds both
  slots; either may be on its way out already (`collect.folk` only holds the parent). Destructor code is only counted.
* `Db`: the statement that `dbInsertOrReuseStatement` creates provisionally before it finds one to
  reuse is never visible to others and is left out, but what it counts in flight is counted. A
  statement that is dead but still held is treated like one that cannot be acquired: each caller
  then takes the same way out, except that a `RUN_WHEN` item can find both statements still held
  by others and only fail when it locks them, which is `AbortMatch`. `parentCount`
  goes below its supports only through `Retract!`. Removal of a match whose body has ended is one
  step, since nothing can be inserted below it. A signal may be sent at any time after the
  match was closed (the code waits 100 ms), and arrive at any later time. sysmon may carry a removal
  out at any time, since nothing bounds the delay of the thread that scheduled it. Edge lists are
  sequences; defragmentation drops only edges to what is gone.
* `Atomically`: a version's number is its place among all versions, which orders the versions of
  a key as the code's numbers do. The 50 ms timer and the timeouts of keys are left out: sysmon may
  collect at any tick.
* `Evaluator`: the pattern and the claimized pattern (`/someone/ claims ...`) are queried as one
  set. The items of one reaction are pushed in one step, together with their in-flight increments: the
  statement itself is in flight until after them. At the start of a run, the increment for
  the run and the decrements for the item cancel out where they concern the same version, which
  cannot reach zero in between. The order of the queues is left out: any worker may take any
  item (`Workers` has the order). The worker that exits on a signal is replaced by sysmon; here it goes on.
* `Workers`: queue operations are atomic (`WorkQueue` refines `Deque`). sysmon's scan of the threads
  and its count of living threads are one step with a free choice of which running bodies it finds waiting;
  the code calls its counting "a little sketchy", and a thread that gets its slot during the count can be
  missed, which would cost one more slot. The CAS on a slot is taken to fail only on a slot in
  use. Work is pushed to the own queue; the boot program's too.
* `Epoch`: the two stores of a retirement (index, entry) are one step, which `RetiresElsewhere` makes
  harmless: nobody looks at a list that is being added to. Slots are scanned in any order. Table
  sizes, each of which ends the process, are left out.
* `Trie`: result arrays are unbounded. A clause that stays (the boot program's) keeps the root
  from becoming NULL. Two equal keys are one key.
* `WorkQueue`: sequentially consistent order. The code uses C11 orders with the fences of the
  published algorithm; weak-memory behaviours are not covered.

## 3. What TLC checks

Twelve runs: seven that pass and five that show a disagreement between the code and what it says of
itself. Every property of a passing run has a mutant in `PROJECT.json`, an operator next to the
one it changes (`Name_WhatIsWrong`), under which TLC finds it violated.

| run | instance | shows |
|---|---|---|
| `slot_pool` | 2 slots, 3 raw pointers, 2 lives per slot, 1 destructor carried at most twice by a slot | acquired slots stay intact, owners are exclusive, nothing leaks; a destructor runs once, with its last carrier (466 000 states) |
| `churn` | 2 workers and sysmon, five programs (below) | no assertion fails, what is supported is indexed, so is what is only said and stands alone, whatever else programs do (`SaidIsIndexed`), counts are exact, no reaction is missed, nothing is orphaned; the newest hold stays, every remove-later entry fires, `-serially` excludes, in-flight counts are exact but for the known losses, roots are kept until their version is overtaken (1 117 000) |
| `chain` | 2 workers; a held `When` creates a `When` and a subscription and asserts what the `When` reacts to, whose body notifies the subscription and retracts what it runs on, while another key holds and drops what the body says | everything downstream of what is dropped goes, and all activity ends, retries included (74 000) |
| `workers` | two CPUs: 3 slots, target 1, two threads may boot at a time; items that block for ever, wait, and are killed | items are neither lost nor run twice, nothing stays in the queue of a sleeping or dead worker, no thread comes to the end of `threads[]`, every item runs (107 000) |
| `epoch` | 2 threads, 3 nodes, 5 epochs | no use after free, no double free, no leak (1 475 000) |
| `trie` | five clauses with variables and rests, three of which continue each other, all patterns up to length 3 | adding and looking up agree with a map; removing, from any trie, any clause, stored or not, takes out what `Dropped` says (1 546 tries, 84 patterns each) |
| `work_queue` | one owner, two thieves, five items, two resizes | `WorkQueue` implements `Deque` (2 984 000) |

The programs of `churn`, each an initial state: a held statement is replaced while a `When` says the
same two things for old and new (`MoveProgram`); a hold moves over three `When`s that say the same
statement with `-keep` (`KeepProgram`); a `When -serially` has two statements (`SeriallyProgram`); a
hold moves between two `When -atomically`s, one of which says a `When` and the other what it reacts to
(`AtomicallyProgram`); the body of a `When -atomically` says another one and a `When -nonatomically`
(`NestedProgram`).

### What the properties exempt

Five properties name what the code is known to lose, so that all else is shown.
`InflightCounts` allows the increments counted in `lost`: a provisional statement that is not needed
(`db.c:502`), a skipped item (`folk.c:849`), a version replaced by a fresh one in the prologue.
`NothingOrphaned` allows a root match whose version lost an increment and never converges, and one
that the reaper passed between the two steps of `matchRemoveSelf` (`overlooked`, `db.c:842`). `ReactionsComplete`
allows that a body was cut short by a signal meant for an earlier item (`db.c:893`), and that a
`When -serially` left without saying anything. `RootsKept` speaks of versions that `newest`, not
`latestConvergedVersion`, has overtaken, for the latter moves back (`db.c:1137`). `EveryItemRuns` allows an item out of reach: it is behind
a body that never returns, in a slot that racing boots left beyond `threadCount` (`folk.c:1551`); and that
the only worker never comes out of `workerSteal` (`DrawsItself`, `folk.c:1423`).

### Bounds

* Two slots with two lives let a reference of the first life meet the second life, and let an
  allocator meet a slot that is still being destroyed. Three pointers are a remover, a late
  acquirer and an allocator.
* One destructor carried twice by a slot is what a statement said twice by one match carries.
* Two workers and sysmon are an inserter, a remover and a third that does either. `MaxStmts` and
  `MaxMatches` are above what the programs reach, so no step of a run is cut off by them. Two
  remove-later slots are more than one kept statement needs: a new entry can meet one being freed.
* `workers`: one body blocks for ever and the pool still has to run the others with a target of one, as on
  a machine with two CPUs (`folk.c:1710`, `folk.c:1745`). With more such bodies than `Target + Extra + 1` the pool
  starves, by design of the cap. `MaxPosts` and `MaxBooting` bound what sysmon, ticking on while nothing
  changes, piles up. The second is a bound on time: sysmon creates a thread whenever the cap allows
  it, and the model stops only where more than `MaxBooting` threads would be without a slot at once.
  The run has as many slots as the cap and the booting threads need, `SlotCount = Target + Extra +
  MaxBooting`: with one more thread a boot would fail, as the mutant of the cap shows.
* Five epochs go round the three lists and meet each again. With two threads, one looks while the other
  unlinks, retires and begins again; three nodes are the root, one unlinked and one under construction.
* The array of the queue starts with two places, so five items bring two resizes while thieves
  read an older array.
* The clauses of `trie` share prefixes, and some continue others, with and without a branch beside
  them. In the runs of the evaluator one clause continues another (`a1 b`, `a1`), and only `hold_longer`
  has a program with both.

Deadlock is checked everywhere; `Evaluator` has a stuttering action for the state in which all
work is done.

### Fairness

`Evaluator` (`EventuallyQuiescent`): weak fairness of each thread's next step (threads
are preemptive and spin only in loops whose rounds are steps here), weak fairness of "some
worker takes an item" (`workerLoop` polls its own queue, others' and the global one), and weak
fairness of sysmon's tick (a timer loop). Mutexes need no strong fairness in this instance. Which
worker takes an item, or which item is taken, is not assumed.

`Workers` (`EveryItemRuns`): weak fairness of each thread, of boot and of sysmon's tick, and strong
fairness of "some thief steals an item": `rand_r` draws a victim each round, so a queue with items that
is there to be drawn again and again is drawn some time. That I/O of a waiting body ends is part of
the thread's fairness; that a signal arrives is not assumed.

## 4. Findings

* `slot_pool_wrap`: after 2^14 lives of one slot (`db.c:42`, a signed 15 bit field) the generation
  is negative, which `genRcAcquire` refuses, and the assertion after the claim fails (`db.c:1331`,
  `db.c:1360`).
* `keep_leak`: `statementDecrParentCountAndMaybeRemoveSelf` tests `keepMs` three times. When sysmon negates
  it in between no branch is taken and a support is never dropped.
* `hold_back`: a key moves from `a1` to `a2` and back to `a1`. The first `a1` is deindexed at once
  but removed later, by clause, which takes the second `a1` out of the trie while the hold still
  points to it.
* `hold_longer`: a key moves from a clause to one that continues it (from `a1` to `a1 b`).
  `dbHoldStatement` then removes the old clause from the trie (`db.c:1510`), which drops the node of the old
  clause with all that is below it (`trie.c:352`): the new statement is held and not found. `trie.h:67` says that
  `trieRemove` removes the clauses matching the pattern. It is not exact in the other direction either: asked for
  `<<a, b>>`, which is not stored, it drops `<<a>>`, which is, for on the way back up a node without branches
  goes even if a clause ends there (`trie.c:427`). `RemovalTakesRelated` has both cases.
* `retract_race`: a statement is in the trie before its inserter has acquired it; a retraction in
  between destroys it and `assert(newStmt != NULL)` fails.

Seen in further experiments, without a run of their own: sysmon may carry out a scheduled removal before
the scheduling thread has counted the statement up again (`db.c:635`), which leaves a statement
with count 0 in the trie on which every later `Say` spins; and of two keys that hold the same
clause, the one that moves on deindexes the statement that the other one still holds (`db.c:1495`).
A hold of the clause that is already held does not store its version (`db.c:1464`), so with versions
1: a, 3: a, 2: b executed in this order the key ends with b. Two `When`s that react to each other can lock
each other in `dbInsertMatch` in opposite order and deadlock (`db.c:1374`). Both bodies of a `When
-serially` can count the other and leave (`prelude.tcl:566`). The comment at `db.c:198` calls the destructors of a statement immutable; reuse
(`db.c:1270`) and `statementAddDestructor` add to them later. The losses listed under "What the properties
exempt" are of this kind too.

## 5. What is proved

Eight modules prove, for all values of the constants, every safety invariant of the pools of
slots, the epochs, the destructors, the worker pool and the work-stealing queue, two refinements, and of
the evaluator what holds of all programs. Each theorem has an inductive invariant, which TLC checked on
the instance of the component's run before it was proved, a lemma per action, and lemmas on the
operators the actions share.

**SlotPool** assumes a non-empty pool and a finite set of handles; `MaxLives <= GenMax`, the
assumption that no generation wraps, is a hypothesis of each theorem, and `slot_pool_wrap` shows that it is needed. None of
the properties is inductive. `IndInv` adds: the count in the word is the number of holders (so
that the last release is the last); the generation counts completed lives; no known reference is
from the future, and one of the present names a slot in use; and for each place in the code what
the handle there knows: a scan that is still valid has seen an empty body, a claimer is alone, a
fresh slot has the generation of its claimer, a destroyer is alone with a dead slot. Each action
has a lemma; acquiring and releasing share the counting lemma `CountIn`.

**Epoch** assumes nothing but that the bound on the counter is a number. `IndInv` adds
`EpochInv` (a thread inside an epoch has published the current one or the one before, and the
current one if the collector has passed it), `PhaseInv` (what is in `allocs` and `frees` at each
stage), `RetireInv` (retiring goes to the list of the current epoch, or of the one before while
the thread holds the counter back), `CollectInv` (what is being freed is the list of two epochs
ago) and `LookInv`: a version someone looks at is the root, or unlinked, or in the list of the
current epoch, or in the one before with the reader holding the counter back. `FreedOnce`,
`NothingLost` and `NoUseAfterFree` are proved together, since an owner's uniqueness is what keeps
a freed node from being found elsewhere.

**Destructors** adds to `SlotPool`'s assumptions that the set of slots is finite.
`ImplementsSlotPool` shows that every step is a step of `SlotPool` or leaves its variables alone, so
`SlotPool`'s theorems hold of the pool with destructors, and `IndInv` is available in the proofs.
`DestructorsInd` adds that a slot has a set as long as it is populated, that sets hold known
destructors only, that the count of a destructor is the number of places that carry it (`Carriers`,
the link that makes `RunsOnceAtTheEnd` inductive) and that one without a count has run. Adding,
inheriting and releasing each come down to a lemma on how `Carriers` grows or shrinks by one place.

**Workers** assumes that no two bodies push the same item, nor one body twice (`PushedOnce`: an
item is one allocated `WorkQueueItem`). `IndInv` adds: the flag `isDeactivated` is set from the
decision to sleep until `sem_wait` has returned; the queues together hold exactly the pushed items
that were not started, each in one place (`Holds`); what an item pushes is pushed only after it
started; and a body has pushed exactly what precedes what it has left, with one thread on each item.
The last two are needed because a push must not repeat an item. Stealing, taking and donating share
three lemmas on lines of items: `HeadLeaves`, `LastLeaves`, `ItemJoins`. `SlotsSuffice` has two
hypotheses: `1 + FirstWorkers <= SlotCount`, the slots suffice for the threads `main` spawns, and
`Target + Extra + MaxBooting <= SlotCount`. With `THREADS_MAX` = 100 the second says that at most
`THREADS_MAX - Target - 15` created threads are without a slot at any time; nothing in
`workerReactivateOrSpawn` counts them. Its invariant `Room` speaks of every slot `j`: the living threads
from `j` on and the threads that have come to `j` or beyond are together no more than the slots from `j` on. A thread
that goes on from `j` leaves a living one behind, so slots freed behind it do no harm.

**WorkQueue** assumes only that the number of items is a natural number. `IndInv` adds for the owner
what its locals mean at each place, that the new array of a resize is larger and agrees with the old
one between `top` and `bottom`, and that a push has room; for a thief, that if `top` has not moved
since it read it, the queue is not empty and the item it read, in whatever array, is the first one.
The case of a resize rests on `ModInjective`: indices less than the size apart do not share a cell.
`WorkQueueImplementsDeque` then maps every step: `PushBottom` is `Push`, `TakeBegin` is `Ask`,
`TakeReadTop` and `TakeRace` are `Take`, `TakeNone` or nothing, a won `StealRace` is `Steal`, and all
other steps leave the abstract queue alone.

**Evaluator**: the theorems hold for all programs, any number of workers, remove-later entries, keys
and clauses, and also for runs longer than the bounds of TLC's (`BoundsAssumption`: `MaxStmts` and
`MaxMatches` are natural numbers). The assumptions on programs are what the language gives them.
`WhensAssumption`: a `When` reacts to clauses, a `Subscribe:` to events. `ProgramsAssumption`: only the
body of a `When` says things (in a `Subscribe:` a `Say` is an error, in an `EVAL` item the code only warns
of it; the model has no such program). `ProloguesAssumption`: the prologue of `-serially` is in a `When`'s
body whatever the body is run on, and `-atomically` puts one fresh version into a body
(`prelude.tcl:561`).

`EvaluatorSteps` begins with the proof of `TypeOK`. It is inductive as it stands: an action keeps it if what it does to
each variable keeps references valid (`Keeps`), and references once given out stay valid as the
sequences grow (`FramesGrow` and its like), which the three actions that append rest on.

Three other properties are not inductive, and share `EvaluatorInv`:

* `Stacks`, the shape of a thread's calls. An entry's due time is cleared just before its statement, so
  `EntryWillFire` holds although sysmon frees an entry in two stores. A thread that waits for its second
  lock does nothing else. A body's commands are last on the stack, all of one match, above the
  end of `runWhenBlock`; one of them at most makes a version.
* `RunsOnce`: one thread at most is in `runWhenBlock` for a match, which meanwhile is not completed.
  With `MatchesAgree` (a match is among its `When`'s children, so the prologue counts it)
  this gives `SeriallyExclusive`: two bodies beyond the prologue would be two incomplete matches of the
  `When` at the time the second one counted (`TwoIncomplete`).
* `RootsAgree` and `FreshFirst`: the root of a version has this version as its own, and a match that has
  yet to make its version is no root, so a fresh version never orphans another.
* `ListsAgree`: lists of versions hold versions of their key, `latest` is never beyond `newest`, and a
  reaper either stays below a version that has converged or takes only converged ones. With `Settled`, an
  invariant of its own (a version whose count is not positive has converged, or a newer one has), the
  decision to clear a root is only made of such versions; since `newest` only grows this is still so when the root
  is cleared, whatever the count is by then. With `RootsAgree` this gives `RootsKept`.

Most actions disturb none of it: they replace the innermost call by calls of no body and no reaper
(`Steady`) or start on such calls (`Calm`). The rest of `EvaluatorSteps` shows that about 35 actions are calm and that
calm steps keep `EvaluatorInv`. `EvaluatorProofs` has the others: the start and the end of a body, the two
prologues, the stores to the remove-later table, the in-flight decrement and the reaper.

`InflightCounts` needs `CountsInv` besides: a statement to be hung under its parent has the version it
was made for (`AdoptsAgree`), the places on the stacks and in the queues that count for a version are
finitely many, and the version's counter is their number plus what was lost (`Balanced`). No sum over
the stacks is computed by recursion: what goes on is a set of places, the number of places in a
concatenation is the sum over its parts (`HitsConcat`), and a step of one thread changes the number in
all stacks by what it changes in its own (`StackChange`). So each action comes down to what its innermost
call counted, what the calls it leads to count, and by how much the counter and the queues changed
(`Settles`). Most actions deal in calls that count for nothing (`Idly`). The others hand a count on (from a
statement to be inserted to its reaction, from an item to the body that runs), push what they have
counted, or give a count back. `ConvergedIsDone` follows: a count is never negative, and at zero, where
the code takes the version to have converged, nothing of it is on any stack or in any queue.

`SupportedIsIndexed`, `OnePerClause` and `NoFault` do not hold of all programs: the findings of section 4
are programs that violate them, by holding a clause again, retracting it, or keeping it. What does hold
of all programs is about the other clauses (`SaidClauses`: asserted, said, and said by any number of
bodies at once, but not held, retracted or said with `-keep`; their supporters may be held, retracted
and kept at will), as far as they stand alone: no clause of the programs continues them or is continued by them
(`StandsAlone`). Without the last condition it is false of the code: if `a` and `a b` are both only
said, the removal of `a` takes the supported `a b` out of the index. All other clauses may continue each other. In `churn`, `c` is one: `MoveProgram` takes away its supporter while another body says it
again, and with a mutant that reuses a dying statement the property fails. `EvaluatorSaid` proves `SaidIsIndexed` of them, which is `SupportedIsIndexed` and
`OnePerClause` for these clauses. Neither is inductive; `SaidInv` is. For each such statement `Supp` counts

* the places it has among the children of open matches, and the calls that will take a support of it or
  hang it under its match: together at most `parentCount`;
* the calls that will remove it and close it: together at most one, and only while `parentCount` is 0,
  which `CanReuse` keeps it at; none once it is closed;

and as long as it is open and no call is about to close it, the index finds it. This is what makes removal
by clause harmless here: the removal of another clause does not drop this one (`DroppedRelated`), the call that
deindexes this one is the only one, and while there is an indexed statement
of the clause no second one is made. The rest of `SaidInv`, `UseInv`, says that the calls for holding,
keeping and retracting, the remove-later table and the holds never refer to such a statement; without it
`HoldSet` could deindex one. As with the in-flight counts, places are counted as sets: the children of
matches as one family of sequences, the stacks as another. `SaidNeverFails` follows: the step that
fails an assertion of `db.c`, follows a NULL or finds the remove-later table full is never about such
a statement.

**Only model-checked**: liveness (`EventuallyQuiescent`, `EveryItemRuns`: out of the prover's reach);
`Trie` (recursive operators). Of the evaluator's properties, those about the quiescent state
(`CountsAreSupports`, `ReactionsComplete`, `NothingOrphaned`, `HoldsNewest`), and `SupportedIsIndexed`,
`OnePerClause` and `NoFault` as far as they are about clauses that are held, retracted or kept, or that continue
each other: there they hold of the programs of the runs and not of all programs.

## 6. Not modelled

Terms and clauses as bytes, unification and variable scoping in Tcl, growth and defragmentation of edge
lists, result-array limits, tracing, statistics, output redirection, RAM checks: data or I/O that no
property here tells apart. The vendored multi-producer queue behind the global work queue is a
sequence in `Workers` and part of the bag `work` in `Evaluator`. The wrap of the epoch counter after
74 days (`epoch.c:150`) is only listed as a hazard. The composition of `Workers` with `Evaluator`
is not built: the two share only the items, and the product is out of TLC's reach. The C, Python
and web libraries and the programs written in Folk are clients of this core.

## 7. Plan

Done: the models of all components, and the proofs of section 5. Left:

1. `RootsKept` allows a removal decided before the match became a root. That no removal is decided
   while it is one needs that `closeMatch` is only ever the innermost call.
2. `SaidIsIndexed` and `SaidNeverFails` for clauses that are held too, in programs that exclude the
   findings (each held under one key, once).
