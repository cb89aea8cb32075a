# Verification of the FHE library

TLA+ models of the library in `src/src` (CKKS, C++), the TLC configurations
that check them on small instances, and proofs, checked by TLAPS, of what
matters most for every instance.

Contents: [the system](#the-system) · [modules](#modules) ·
[runs](#runs-and-their-bounds) · [fairness](#fairness) · [proofs](#proofs) ·
[what the work found](#what-the-work-found) ·
[only model-checked, not modelled](#only-model-checked-not-modelled) ·
[plan](#plan)

## The system

A ciphertext is a pair of polynomials, each stored as one array of residues per
modulus (a *chain*). The layers, from the bottom:

| component | source | state | operations | interacts with |
|---|---|---|---|---|
| residue kernels | `montgomery/`, `arithmetic/arithmetic.cpp` | none | Montgomery product, lazy add and subtract, rounding, sign | called on every coefficient by the tasks and by `SingleProcessor` |
| transforms | `operation/ntt.cpp`, `fft.cpp`, `ckks/derived_parameters.cpp` | tables of roots | `ntt`, `intt`, FFT | called through the processors |
| worker pool | `parallel/worker.cpp`, `task_balancer.cpp`, `task.h` | per worker: `tasks_`, two binary semaphores, `assigned_`; affinities of a batch | `send_tasks`, `wait`, destructor; the worker's loop | shares memory and semaphores with its threads |
| parallel processor | `processor/parallel.cpp` | `stages_`, destination map, stream barriers | some fifty kernel methods, `release`, `set_stream`, `run` | hands batches to the pool |
| single processor | `processor/single.cpp` | none | the same methods as loops | — |
| parameters | `ckks/parameters.cpp`, `precomputed.cpp`, `partition_cache.cpp`, `config.cpp`, `arithmetic/prime.cpp` | moduli, partitions and tables by level, caches | look-ups by level and chain | read by the core |
| core | `ckks/core*.cpp` | owns parameters and a processor | arithmetic, rescaling, levels, key generation, key switching, encoding of residues | calls either processor |
| engine | `ckks/engine*.cpp` | level, flags, scale of the data it hands out | the public interface, with its requirements on operands | calls the core |
| polynomials, sums, matrices | `ckks/engine_advanced.cpp`, `engine_multiply_matrix.cpp` | locals only | bases of powers and of Chebyshev polynomials, weighted sums, evaluation, sums over slots, matrix products | calls the engine |
| bootstrap | `ckks/engine_bootstrap.cpp`, `operation/bootstrap.cpp` | stage levels, keys | raise the level of an exhausted text | calls engine and core |
| big integers, sampling, data | `arithmetic/big_int.cpp`, `random/`, `data/` | — | reconstruction of residues, samplers, serialisation | — |

What is hard in this code, and what makes each part correct:

- **Worker pool.** The caller and each worker share a vector without a lock; two
  semaphores per worker order every access. Correct means: a semaphore never
  gets a second token (undefined behaviour of `std::binary_semaphore`), the
  vector is never touched from both sides, the kernels of one batch do not race
  on a chain, nothing of a batch survives `wait`, and every call returns.
- **Parallel processor.** `find_stage` orders a task only behind the writers of
  its sources. Write-after-read, write-after-write and release-after-read have
  no order at all. Correct because each method runs its stages before it
  returns; that is an argument about all sequences of calls.
- **Two processors.** The same core code is dispatched to either; they must
  compute the same for every call that the core makes, in place, tiled or
  shifted. Neither checks its operands: that no task of a call overwrites what
  another reads is up to the offsets and counts that the core computes.
- **Lazy residues.** Most kernels return values below `2q` instead of `q`, some
  return negative ones, and reductions are single conditional subtractions. A
  kernel is right only for operands in a range that its callers, several
  functions away, must have left.
- **Key switching.** Mixed-radix digits in place, keys indexed by partitions
  counted from the end, a division by primes much larger than the moduli they
  divide, one more table per level: an off-by-one shows only at some levels.
- **Engine.** Texts differ in level, form (coefficients or NTT), number of
  polynomials, scale, and in being rescaled or not; the core checks none of it.
  Each operation brings its operands to one shape by up to ten conversions,
  whose results wait in a member, `temp_data_`, for some later
  `clear_temp_data`. Correct means that, after any sequence of calls, the core
  gets operands that fit, scales are exact, and every text has one owner.
- **Polynomials.** A basis is filled out of order, first the powers of two, then
  products of what is there, in a vector that is shifted by one at the end; its
  texts have different levels. A requirement at the beginning must cover every
  product of the loops, or the call throws half way with a basis on the heap.
- **Rotations in batches.** Rotations by many deltas share the texts on the way;
  which of them are results and which are temporary depends on the request.
- **Bootstrapping.** Two linear transforms are each split into stages, a stage
  into groups of diagonals, a group rotated once; the diagonals are rotated back
  beforehand. The key is made for exactly the deltas and levels of these stages,
  elsewhere and without looking at the text. Correct means that the message
  comes back, and that a call which was accepted finds each key it needs:
  nothing is checked between the first stage and the last.

## Modules

| module | models | extends / instantiates |
|---|---|---|
| `KernelCalls` | abstract: a call computes one batch of kernels from the memory at entry and returns; of several tasks with one destination the last one counts | — |
| `WorkerPool` | the pool, one action per step of caller and worker | refines `KernelCalls` |
| `ProcessorMethods` | every method of both processors as rows: kernel, chains read, chains written | — |
| `ProcessorCalls` | what the core shares with either processor: chains, the method being executed, and the batch it stands for | `ProcessorMethods`, instantiates `KernelCalls` |
| `ParallelProcessor` | stages, streams, releases; the pool as `KernelCalls` | `ProcessorCalls`, refines `KernelCalls` |
| `CoreCalls` | the calls the core makes: each method with operands of their own, and, function by function, those whose operands coincide | `ProcessorMethods` |
| `SingleProcessor` | the loop over the chains | `ProcessorCalls`, `CoreCalls`, refines `KernelCalls` |
| `Montgomery` | the residue kernels on machine integers | — |
| `Ntt` | tables and stages of the transforms | `Montgomery` |
| `NttProduct` | a product of polynomials, kernel by kernel | `Ntt` |
| `KeySwitch` | key, decomposition, lifting, products, `mod_down` | `Ntt` |
| `Levels` | the moduli of the levels and their products | — |
| `RingText` | abstract: a text is an integer modulo the product of the moduli of its level | `Levels` |
| `LeveledText` | residues of one coefficient under all operations of the core, and decoding | `Montgomery`, `Levels`, refines `RingText` |
| `Engine` | every operation of the engine on plaintexts and ciphertexts: requirements, conversions, calls of the core, ownership | — |
| `Polynomials` | bases, weighted sums and the evaluation of polynomials, loop by loop | — |
| `RotateBatch` | `rotate` with a rotation key and the three `rotate_batch`, object by object | — |
| `SlotTransforms` | slots, the automorphisms of rotations in both forms, the twiddle factors of the bootstrap and how their diagonals are merged into stages | — |
| `Bootstrap` | `create_bootstrap_key` and `bootstrap` of a unit, with a rotation key or a bootstrap key, one action per step | `SlotTransforms` |
| `MC…` | the instances that TLC checks | |
| `…Proofs` | the theorems | |

**Worker pool.** The caller's program counter is `pc`, its loop variable
`target`; `buckets` is the local `worker_tasks`, `mailbox` the member `tasks_`,
`queue` the worker's local vector, `start`/`done` the semaphores. A kernel is a
read step and a write step, so that overlapping accesses overlap in the model
too. A vector of tasks is a set of pairs of index and task, executed in index
order.

**Processors.** `ProcessorMethods` holds one row per method and processor,
because they differ in nothing else; a chain is a pair of polynomial and index.
What a kernel computes is a term over its arguments, so that different inputs
always give different data. Views that the code numbers separately share an id
in the model: they are only ever used for the polynomial they look into.
`CoreCalls` says which calls there are. A call on polynomials that are all
different starts anywhere up to `MaxOffset`. A call that overwrites one of its
operands, or reads one twice, is listed with the function of the core that
makes it and with the offsets and counts that function computes: the sums in
place, the chain that `rescale_once_` takes from the others, the digits of
`rns_to_mrs`, the chain that each round of `mod_down` drops, the partition that
`create_key_switching_key` adds the secret to. The single processor runs all of
them. `TasksIndependent` is what the pool needs of them: `WorkerPool` and
`KernelCalls` assume batches without races in which no task reads what another
writes, and here the batches of the core are seen to be such.

**Residue kernels.** `Montgomery` keeps the width of the machine integers as a
multiple of `R`: `int64_t` holds `4 R` values, `uint128_t` `16 R²`. `R` is a
constant; the code's is `2^62`. Only two facts about it are used: it is coprime
to every modulus and four times any modulus is less.

**Key switching.** `KeySwitch` is one polynomial ciphertext through the code,
one action per step of `create_key_switcher_for_rotate` (mode `rotate`) or
`switch_key` (mode `switch`). The secrets, the errors, one for each part of the key, and
the uniform polynomials come from small sets. `DigitsRepresent` is about the polynomial that
`rns_to_mrs` leaves, `PartsMeet` about the views of the key that
`create_key_switcher` takes, `KeySwitchCorrect` about the result. What is
assumed of the moduli is that each is `Suitable`, as in the transform (a prime
that is 1 modulo `2 N`, four times below `R`), that none divides another, and that
there are at most 16 special primes, which `CKKSConfig::validate` requires; of
the samplers, that secrets and errors are not larger than any modulus
(`SamplerAssumption`: secrets are ternary or the square of such a one, errors are
tens, the moduli of the presets have 40 bits and more). TLC evaluates both for
the instances.

**Leveled texts.** `LeveledText` is one coefficient of one polynomial in
coefficient form. `terms` and `drift` are history variables: how many texts were
summed and by how many quarters of a modulus residues may lie outside
`0 .. q-1`. The moduli are `q_` without the special ones; level `m` has the
moduli from index `m` on, as `moduli_id` in the source. Besides being odd primes
below `R / 4`, which `ModuliAssumption` says by inverses, one thing is assumed
about them: the last one is at least twice the one before
(`LastModuliAssumption`). It is the first of `large_primes`, which
`parameters.cpp` puts behind at least two of `small_primes`, and decoding needs
it: a text rescaled to the last modulus alone is read by `make_signed`, which
would take a negative residue for a large one, so it must come out reduced.

**Engine.** The state is what survives between calls: the texts that the caller
holds, and how many texts `temp_data_` still contains. A call is a workspace
that the functions of the engine hand on to each other, in the order of the
code: `obj` the heap, `temp` the entries of `temp_data_`, `gone` what was
deleted, `core` the calls of the core with the metadata of their operands,
`refused` set where the code throws; `x`, `y` and `result` are the local
variables of the function that runs. An action is one method of the public
interface (the unit and the long variant in one, since they do the same to each
unit). `CoreOperandsFit`, `TextsStayUsable`, `RefusedCallsMakeNothing` and
`HeapSound` speak about *every* call that is possible in a state, refused ones
included, not only about the one that is taken. Sizes of numbers are logarithms:
`LogScale` of the scale, `LogQ` of the primes, so that the deviations of
`parameters.cpp` and the multipliers of `precomputed.cpp` are integers and
squares are doubles. `ckks_scale` is what a text declares, the history variable
`scale` what its data has; the tolerance of `1e-4` in the code, which absorbs
rounding, is equality here. Not in the model: sizes of messages, the flags
`COMPLEX`, `SPARSE` and `INCLUDE_SPECIAL`. Callers encrypt and decode plaintexts
in coefficient form only: the code requires it of nobody, and computes on NTT
values as if they were coefficients (`core.cpp:42`).

**Polynomials.** The ten or so overloads of `engine_advanced.cpp` are one
machine: a request says which function, which kind of basis, integers or
doubles, and an action is one iteration of a loop (`squares`, `products`,
`sum`). A text is an identity, a level and its slots; slots are numbers modulo
`Prime`, ten of them per unit, so that two polynomials of degree 9 with the same
values are the same. What `multiply`, `add` and the others require and return is
taken from `Engine`; here it is their level. Coefficients are counted in halves,
so that a double may be no integer, and `AsInt` is what a lambda with an `int`
parameter makes of one: the fraction is cut off, and of 64 bits the lower half
is kept (`IntModulus`). `made` numbers the texts, `live` are those that exist.

**Rotations in batches.** `RotateBatch` follows the loops of `engine_rotate.cpp`
with the same variables. An object of the heap is a record of its unit, its
rotation, how it was made and the number of times it was deleted. `Keys` are the
deltas of a rotation key, of which only one fact is used: they begin at 1, and
the double of each is the next or the number of slots.

**Bootstrap.** `SlotTransforms` counts in the integers modulo a prime with a
root of unity in the place of the complex roots: a complex slot is the pair of
its value and that of its conjugate, so that a polynomial is the row of its
values at all odd powers of the root, as an NTT has them, and `ntt_rotate`
and `rotate_polynomial` are two ways to the same automorphism. Twiddles,
diagonals and stages are computed by the loops of `operation/bootstrap.cpp`, on
such pairs. `Bootstrap` runs one call: `CreateKey` is the constructor of either
key (`contexts` its deltas, each with the level of its key), then follow
`ModRaise`, `PartialSum` for each delta of a sparse text, for each stage
`RotateBatch` or `RotateDecomposed` (`apply_butterfly` with a rotation or a
bootstrap key), `OuterLoop` for each group, `EndStage`, and between the
transforms `SplitParts`, `RoundReal` and `RoundImag`. A text is a level and
values without their scale. Key switching is only the question whether there is
a key of the level (`HasKey`). Raising the modulus adds a multiple of the first
prime to each coefficient, chosen by the request. The sine is not computed:
`modulo` returns the fraction that it approximates, for a number that is real
and in range, and 0 for any other; the levels it takes are those of its code.

## Runs and their bounds

| run | instance | checks |
|---|---|---|
| `worker_pool` | 2 workers, 2 batches out of six shapes, one of them with several tasks per chain, then the destructor (9,044 states) | types, semaphores, hand-off, tasks with one destination in order, races, quiescence, refinement of `KernelCalls`, every call returns |
| `single_processor` | every call of the core, for texts of up to 4 chains, 3 special primes and offsets 0 and 1 of separate operands (4,883) | no task of a call reads or writes what another writes; the loop computes what the parallel processor computes |
| `parallel_processor` | sequences of 4 out of five dependent calls, releases, streams (4,361) | one operation at a time, no use after release, execution at return |
| `ntt_product` | N = 4, moduli 17 and 41, operands at the ends of the ranges (103,680) | ranges, values at the bit-reversed roots, the negacyclic product |
| `key_switch` | N = 2, moduli 5, 29, 17, 37 with special primes 41, 53, 61; two errors, in every combination for the parts of a key (58,665) | ranges, digits, the parts of the key, decryption before and after |
| `key_switch_single` | N = 4, moduli 41, 17, 73, special prime 97 (7,213) | decryption before and after |
| `leveled_text` | moduli 509, 29, 73 (13,466), the first 17 times the second | ranges, refinement of `RingText`, decoding |
| `engine` | 2 texts, levels 0 to 3 with one more level, primes of five different sizes, keys of every level (3,609) | types, exact scales, operands of the core, usability of the texts, refused calls, ownership |
| `polynomials` | degrees 0 to 9, both bases, integers and doubles, one and two units, levels and keys around those that are needed (32,146) | the polynomial that was asked for, no refusal half way, nothing leaked or used after deletion |
| `bootstrap` | 64 slots and 128 coefficients at most, one and two stages, all three kinds of keys, each accepted configuration with two messages; seven calls or keys that are refused (725) | the message comes back with the levels that remain, every key that is needed is there |
| `rotate_batch` | 8 slots, 2 units, up to 2 conversions of the input; all requests of two deltas from -1 to 8, of three out of 0, 1, 3, 5, 7, and those of the tests, as far as served (13,451) | results alive, distinct and rotated right, nothing leaked, nothing computed twice |
| `rotate_batch_shared` | every request of two deltas | violates `OutputsUsable`, see [below](#what-the-work-found) |

Why the bounds are enough. Two workers give every pairwise interleaving, the
hand-off is per worker, and a second batch reaches everything the first may
leave behind. The batch `Rewritten` has two tasks for one chain and one for
another, so the balancer must keep two together and their order. Offsets
0 and 1 tell apart all index expressions of the methods. With three special
primes a partition has digits to carry, with four chains it can start behind
the first, and `mod_down` drops chains in up to six positions. Four
calls are enough for a write, a read, another write and a release in any order.
Four coefficients have two stages of butterflies with different jump sizes and a
block index above zero. Seven moduli with three special primes have a short
first partition and, going down the levels, partitions of every size; the key is
made for every level and used at every level it covers. In `leveled_text`
the moduli have the proportions of the presets with one more level, a first
prime much larger than the next, which is what leaves negative residues; the
factor 510 is different modulo each of them, and returns to 1 after four
products, so that all sequences of products are checked. `MaxTerms` and `MaxDrift` bound sums, see below. Decryption
in the key switch is compared up to `NoiseBound = N + 1`: with N = 2 the bound is
attained and 2 fails.

No operation of the engine takes more than two texts, and it keeps nothing of
earlier ones but `temp_data_`: two slots reach every pair of texts. Level 3 is
the level of its own, level 2 the first with the deviation 1, levels 1 and 0
have two more deviations; all five primes differ from the scale, so that a
forgotten or doubled factor shows. `MaxLeftover = 2`: only `add_inplace` of a
plaintext leaves something behind, one text per call, and any other operation
that clears `temp_data_` takes it along. Three bits of a delta make chains of
up to three rotations, in which one rotation can be a result, on the way, both,
or shared; two units are enough to mix up units.

Degree 9 is the first with four products in a row; 3, 5, 6, 7 and 9 are not
powers of two, with the product of 7 made from 4 and 3, itself not a power of
two. Coefficients are all the same but for one, at every place, with the values
0, 1/2 and 2 for doubles and 0, -1 and a multiple of `IntModulus` for integers: a
sum starts at any weight, and every way the checks for a polynomial without a
degree see a number occurs.

The configurations of `bootstrap` have full texts and sparse ones with up to two
partial sums beyond the first, stages of one to six merged butterflies, equal and
unequal ones, stages with one outer group and with several, among which some
rotate by the same delta. A dense message has every coefficient and overflow of
the range; the single one is zero but for its last coefficient. Modulo 257 there
are roots for 128 coefficients; `NumberAssumption` says that message and
overflow are not mixed up by it. `FullLevel = MaxLevel = 14` leaves one level
after two stages.

`CHECK_DEADLOCK FALSE` is set where a system that has made its calls stops: both
processors and the product of polynomials.

## Fairness

The pool's specification is weakly fair to each worker's step and to the
caller's steps *inside* a call: threads that can run do run. Whether the caller
makes another call, or destroys the pool, is never required. The processors are
weakly fair to the steps of a call in progress, which run in the caller's
thread. The arithmetic modules state safety only.

## Proofs

Every theorem is checked by TLAPS to the last leaf and holds for every value of
the constants under the named assumptions of its module.

- `WorkerPoolProofs`: types, `SemaphoresBinary`, `MailboxExclusive`,
  `QuiescentBetweenCalls`, `NoDataRace`, `SameDestinationInOrder`, for any
  number of workers and any batch in which no task reads what a task with
  another destination writes. The inductive invariant `HandoffInv` says that a
  worker the caller counts on holds exactly one token, in its start semaphore,
  in its hands or in its done semaphore; the tasks follow the token. Without
  the token the semaphore bound is not inductive: a worker could release `done`
  twice. `ExecutesBatches` is the safety part of the refinement: when a call
  has returned, memory is what its batch makes of the memory at entry. Its
  invariant `MemoryInv` says what each chain holds: the
  value at entry until the first task that has the chain as its destination
  writes, then what the last of those that are done made of it, and `ArgsInv` that a kernel has read what
  was there at entry. That tasks with one destination keep their order, which the
  invariants before give, decides which task is the last.
  It needs more of a batch than the absence of races, `OrderAssumption`: no task
  reads what an earlier one writes, or a call would see results among its
  operands. The processors build no such batches.
- `ProcessorProofs`, the single processor: `SameTasks`, both processors make
  the same tasks of a call of any method, since their rows agree. In
  `CoreCallsIndependent`, for all numbers of chains and special primes, no task
  of a call of the core reads or writes what another one writes: an operand is
  another polynomial, or it is read at the offset it is written at, or, tiled
  or shifted, it is read below or above the range that is written.
  `TasksAlwaysIndependent` follows for every state of the loop, and with it
  `LoopCorrect`, that a loop computes each kernel from the memory at entry, from
  `LoopInv`: the destinations of finished iterations hold the result, all else
  is as at entry. What is assumed of the calls is that they are calls of the
  core and stay within the chains of their polynomials.
- `ProcessorProofs`, the parallel processor: `OneOperationAtATime`, and that every behaviour is
  one of `KernelCalls` up to the promise that calls return, from
  `SchedulerInv`: what is scheduled is the call in progress and nothing else.
  `NothingUsedAfterRelease` adds `OperandsInv`: tasks that are not done yet touch
  operands of the call in progress only, and a release is a run without a call.
- `ArithmeticProofs`, the kernels: `ReduceExact`, the Montgomery reduction returns the exact
  quotient of `x + s q` by `R` for `|x| <= R²`, although negative `x` wraps
  around in 128 unsigned bits and the result is cut to 64 signed ones;
  `CalculatedValid`, the constant of `calculate_k` is the one the reduction
  needs; from these the ranges of products, of the exit from Montgomery form, of
  the butterflies and of the step of `mod_down`.
- `ArithmeticProofs`, texts: `ResiduesNearRange`, the type invariant of `LeveledText`
  for all moduli below `R / 4`, in any order of size. It is inductive as it
  stands; there is a lemma per kernel (`AddNear`, `SubtractNear`, `NegateNear`,
  `MultiplyNear`, `RescaleNear`) and per operation on all chains. `RescaleNear`
  is the interesting one: nothing bounds the removed modulus against the others,
  only that both are below `R / 4`. `RefinesRing` is the refinement of `RingText`:
  a text `Represents` an integer when its residues are that integer modulo every
  modulus of its level, each operation keeps that relation (`RescaleRepresents`,
  `MultiplyRepresents`, ...), and `ResiduesDetermine` says that the residues
  leave no other integer modulo the product, so the sum that `rns_to_double`
  composes is it (`ComposeUnique`). The error of a rescaling, which `get_rounder`
  and the representatives of the removed residue make, is one integer for all
  chains (`RescaleError`); that is what makes the result a text at all.
  `DecodesCorrectly` follows the repeated rescaling of
  `convert_plaintext_to_double` by induction over the levels: the error does not
  grow with them (`QuotientShift`), because each one is divided again, and the
  representative read at the end is the nearest to zero
  (`NearestRepresentative`). Both theorems are about texts whose residues are at
  most four quarters of a modulus out of range: with eight the run shows a
  counterexample, see below. What is used of primes
  is that each modulus has an inverse modulo each other, and the remainder
  arithmetic is proved from there (`CongRules`,
  `RemainderUnique`, `CoprimeCancel`).
- `ArithmeticProofs`, the transform: all properties of `NttProduct`, for every
  transform length `2^LogN`, every suitable modulus below `R / 4` and every
  operand in the lazy ranges. `Suitable` is what is used of primes, in the words
  of the code that uses it: residues have inverses (`modulus_invert`), exponent
  `q - 1` makes them 1 and not every one is a square (`find_root`). TLC evaluates
  it for the instance.
  The inductive invariant `ProductInv` says what the arrays hold *between* any
  two stages. After `s` stages block `b` of the array is the operand modulo
  `X^(N / 2^s) - t`, where `t` is the `Twist` of the block, the power of the
  root with exponent `2 rev(2^s + b)`; coefficient `o` of it
  is the exact integer `Fold(q, z, s, b, o)`, and the array holds its Montgomery
  form (`StandsFor`). `FoldStep` is the butterfly on these integers, `StageAt` the
  butterfly of the code at its two places; that the tables, the inverse one in
  the order of `get_backward_paint`, hold the root of each block where the stage
  looks is `ParameterTables`, from the recursions that fill them. At `s = 0` a
  fold is a coefficient, at `s = LogN` the value at the slot's root
  (`AlwaysEvaluatesAtRoots`), and values at roots of `X^N + 1` multiply as the
  polynomials do (`Convolution`, by interchanging the sums). So the product
  of slots stands for the last folds of the product, and the stages of `intt` go
  back through the folds (`InttStageFolds`) until those of stage 0, its
  coefficients, times `N`, which the last kernel divides by
  (`ProductAlwaysCorrect`).
  `ProductTypesHold` needs the ranges along: a butterfly lets values leave
  `0 .. 2q - 1` by at most twice what its operands do (`NttRange`, `InttRange`), and
  nothing in between brings them back. Operands that are not negative never
  leave it, and no further hypothesis is needed for them. Negative ones start
  with at most `q / (8 N)` when `2 N q <= R`, and end within a quarter of `q`. That is the
  hypothesis `Tolerant`, one of the two for each modulus. The primes of 40 bits,
  whose residues rescaling from the top level makes negative, satisfy the second
  for all transform lengths of the presets, with `R = 2^62`; those of 54 and
  60 bits satisfy the first only. Modulus 41 of the run is of neither kind.
- `KeySwitchProofs`: `DigitsAlwaysRepresent`, `LiftsAlwaysRepresent`, `PartsAlwaysMeet`,
  `KeysAlwaysDecrypt`, `ProductsAlwaysDecrypt` and `DivisionsAlwaysRound`, for all moduli, all numbers of special primes and all levels, and for ciphertexts with
  any of the residues that other operations leave. Where a partition lies is
  counted from the last chain (`PartitionMembers`); from that no partition is
  empty or longer than there are special primes, all but the first are that
  long, and every chain is in exactly one (`PartitionsCover`), and the
  partitions of a level are
  the last ones of each higher level (`PartitionsAgree`), which is why the index
  of a part, a difference of two counts, meets the right part of the key.
  The digits are `MixedRadix`, by the rounds of the loop of `rns_to_mrs`: after
  round `t` the digits up to `t` are finished, the integer they are the digits
  of (`SoFar`) has the residues of their chains, and each later polynomial of
  the buffer, which becomes a digit only in its own turn, is that integer
  modulo its own modulus. It works because the modulus of a new digit is
  coprime to the weight of the digit (`CarriedDigit`, `NewDigit`). The
  quantity to carry along is how far below zero a pending polynomial may be:
  each round lowers it by at most `R / 32`, so that with the 16 of
  `SpecialPrimeAssumption` it never leaves what the next kernel can reduce. Digits may be
  negative, and so may the integer; `Extremes` bounds it by the product of the
  partition's moduli and once its first modulus. `SwitchInv` is what the states
  in between need to know for that, `KeyInv` that a key has a part for each
  partition of its level and no text is above that level.
  `LiftsAlwaysRepresent` goes on to what is multiplied with the parts of the
  key: modulo each of the primes `mod_up` computes the same integer from the
  digits (`LiftUnfold`, `LiftValue`). Each digit lowers the sum by at most
  `q / 8` and each addition reduces it (`LiftedDigit`, `LiftedSum`), so that with
  at most 16 digits it stays in `-2q .. 2q - 1`, which the transform is called
  with. `LiftInv` says which partitions are lifted when: all of them before the
  first product, or each just before its own; the variant for a single prime has
  the same digits (`SingleDigit`).
  `KeysAlwaysDecrypt` is about the key itself: each part of it has an error of its own
  (`create_key_switching_key` draws one in every round of its loop), and at each
  prime and slot what the second secret decrypts from the part is `R` times that
  error, plus the first secret times the special primes in the chains of one
  partition and nothing in the others. `At` is the value of a small polynomial
  at the root of a slot; that a copied and transformed one has this value at
  every prime (`TileTransforms`) follows from the stages of the transform
  (`NttTransforms`), that `p_product_mult_r` is the product of the special primes
  in Montgomery form (`SpecialScale`) from its recursion, and with these the two
  branches of the code are congruences (`Masked`, `KeyMessage`, `CreatedPart`).
  `SamplerAssumption` says what it needs of the samplers: secrets and errors no
  larger than any modulus.
  `ProductsAlwaysDecrypt` follows the sums of `create_key_switcher` and
  `create_key_switcher_for_rotate`, whose loops differ in their order: after each
  product (`ProductCount`), what the second secret decrypts from them is the sum
  of the lifts so far, each times what its part of the key decrypts to
  (`PartValue`), at every prime and slot. The argument for one product is that
  any two words are `R` times something modulo `q` (`FormExists`), so that the
  factor which Montgomery multiplication takes away cancels in both at once
  (`ProductForm`). It has the hypothesis `[]SwitchTypeOK`, which the runs check:
  a lift out of range would wrap around. That a partition's lift meets its part,
  at any level below the key, is `PartitionsAgree` again (`PartValueFound`).
  `DivisionsAlwaysRound` is about the division at the end. `mod_down` subtracts,
  for each special prime, the residue of the prime from those of smaller primes
  without reducing it first, and multiplies by an inverse: that all rounds
  together round once, by less than 3 and by the same amount in every chain, is
  not seen in any one of them. The state forgets what the first round started
  from, so the proof adds a variable that remembers it (`undivided`; nothing
  else depends on it). The invariant (`Rounding`) says after `n` rounds: the
  divisors so far have a product `b`, one integer `w` was subtracted in all
  chains that are left, it lies between `1 - b` and `3b - 3` and has the
  residues of the value in the chains that are gone (`DividedBy`); another round
  with prime `p` and residue `s` makes them `b p` and `w + b s`
  (`OneMoreDivision`). This also has the hypothesis `[]SwitchTypeOK`.
- `EngineProofs`: all properties of `Engine`, for all primes, numbers of levels,
  scales and texts, with or without one more level. `TypeCorrect` and
  `ScalesAlwaysExact` speak about the texts of the caller; `OperandsAlwaysFit`,
  `RefusalsMakeNothing`, `HeapAlwaysSound` and `TextsAlwaysUsable` about every call
  that can be made on them. The inductive invariant `EngineInv` says that every
  text is `Good`: of a level of the engine, with the scale that its data has, which
  is the `Canonical` one of the level, and below the top level if it has three
  polynomials. The last part (`TriosBelowTop`) is needed because a key that covers
  only the level below may relinearize a text at one more level, and
  `relinearize` does not lower it first, as `rotate` and `conjugate` do: it would
  switch keys over the special prime. No product is there. Within a call the proof
  follows the code: a `Workspace` is `Clean` when nothing was misused and all calls
  of the core fit, its `Loose` objects are those that somebody must still delete or
  return, and a lemma per function says which it makes (`Makes`, `Creates`),
  replaces (`Replaces`, `Pairs`) and returns (`Delivers`). Operations that call
  operations (`decrypt`, `multiply_relinearize`, `rotate`, those on messages) use
  the lemmas of these on the workspace passed on; that what they require implies
  what the inner call requires is where a refusal half way would appear
  (`ProductCompatible`, `BelowOneMoreLevelStep`, `RotateFurtherDelivers`).
  `CallsSound` collects them: each call throws at once or ends with one good
  `Loose` text, its result, or none. That multipliers and canonical scales fit
  together is the recurrence of `deviation_`, proved from its recursive definition
  by least counterexample. One object is not good: the plaintext of an imaginary
  integer has scale 1. `multiply` reads it once and the caller deletes it, so it
  gets a lemma of its own. Rotations turn by at most two bits of a delta, as in
  the model. One assumption on the parameters is new in these proofs,
  `ScaleAssumption`: the scale of a fresh text is below the product of its moduli.
  `decode` throws otherwise, after `decrypt` has made the plaintext; the bit
  lengths in `parameters.cpp` (a base prime of 60 bits, others like the scale)
  leave room for it.
- `PolynomialsProofs`: `NeverRefusedMidway`, a call that was accepted has the
  levels and the key for each product of its loops, for every degree, level and
  request. The inductive invariant `LevelInv` says that the `p`-th text of a
  basis is `ceil_log2[p]` levels below the caller's and which texts are there
  when a loop needs them. The two logarithms are constants with their halving
  recurrences as the assumption; what they have to do with each other
  (`HighestInRange`, `HighestBelow`) is proved by least counterexamples.
  `HeapAlwaysSound`, from `HeapInv`: the heap falls into the texts of the caller,
  the results and what the unit holds, which have no text in common. It needs
  `LevelInv`, for a basis is returned or erased as a whole only because every
  power of it is there, and that the checks refuse polynomials whose weights are
  all zero, for otherwise there is no sum to return.
  `PolynomialsEvaluated`, from `ValueInv` on top of both: each text of a basis
  holds its power, the sum holds the terms from the highest power down to the
  one the loop has reached, and each unit that was returned holds what was
  promised. The recurrences and the sum are recursive definitions. That such a
  function exists and satisfies its equation is proved from the choice that
  defines it (`StepsExist`, `FoldExists`), then that powers multiply, that
  `T(a + b) = 2 T(a) T(b) - T(a - b)` modulo `Prime` (`ChebyshevProduct`), and
  that a sum may begin with any term (`FoldAnyFirst`), all by least
  counterexample. Nothing is assumed of `Prime`, not even that it is one, and
  that a text has no level below zero rests on `LevelInv`.
- `BootstrapProofs`: `KeysAlwaysSuffice`, a bootstrap that was accepted finds
  every key it needs at the level it needs it, for all sizes of texts, numbers
  of stages, kinds and levels of keys. Two facts carry it. The level of a text
  in a stage is linear in the number of stages behind it (`BootstrapInv`), so no
  stage needs a higher level than the one its context was made for. And the
  first part of a bootstrap key that needs a delta makes its context, at a level
  no later part exceeds. The hypothesis `EngineSuffices` remains (the engine
  uses all its primes and has the levels that are spent): the code does not
  check it, and TLC evaluates it for the instance of `MCBootstrap`.
  What the levels rest on in `make_bootstrap_stage` is `StagesAlwaysSound`: each
  stage has a group of diagonals and turns by less than the number of slots. The
  stages share out all butterflies, each at least one (`RadixSplit`,
  `RadixOfStage`); with `k` butterflies a stage has one diagonal less than
  `2 ^ (k + 1)`, which takes `k + 1` bits, and half of them rounded up, plus the
  shift of large keys, is at most `k + 1` again (`InnerLoop`). Powers of two,
  which the provers do not know, are counted as subsets (`TwoPower`).
  `LevelsAlwaysSpent`: the raised text stays at its level until the end
  (`RaisedInv`), so the result has the level of the last stage. That is the part
  of `MessageKept` about levels; what the slots hold is only model-checked.
- `RotateBatchProofs`: all properties of `RotateBatch`, for every number of
  slots, units and conversions and every sequence of deltas. The invariants are
  written in `RotateBatch` itself, in layers. `ValueInv` says that a map leads
  from a delta to a text rotated by it and that every rotated or decomposed
  object is in its map (so nothing is made twice, `NoWorkRepeated`), that the
  part of a delta rotated so far is one of its prefixes (so the chain ends at the
  delta, `AlwaysRotated`), and that what `temp_data_` holds before it is cleared
  is exactly what nobody asked for. That a prefix is continued by a key of the
  rotation key is arithmetic of bits, proved by least counterexample
  (`NextKeyFacts`). `ReturnInv` is about the loops that clone: `delta_counter`
  is the number of places of a delta that are yet to be settled (`CounterInv`),
  so exactly one place keeps the text of the map (`SettledInv`) and what was
  made for one place is at no other (`MadeInv`). With it `NothingLost`:
  what is alive at the end is the input and the results. It has a hypothesis,
  `NormalizedUnits`, for the overload for a `UnitCiphertext`; a
  second, `NothingShared`, is that of `OutputsAlwaysUsable`: a delta on the way
  to two deltas that were requested was requested itself. `ReachedInv` says why
  that is enough: each text of a map is on the way to a delta that the loop has
  come to, so a text found on the way of a second chain is on the way to two
  (`PassesRequested`), and `UniqueInv` follows, that no object is listed twice.
  Neither hypothesis is idle: the run `rotate_batch_shared` violates the second,
  and see [below](#what-the-work-found) for the first. All of these invariants
  hold on the instance of `rotate_batch` too.

## What the work found

- `rotate_batch` deletes a text twice. The loop at `engine_rotate.cpp:461-523`
  pushes a text that nobody requested to `temp_data_` each time a chain passes
  it, also when it was found in the map (line 512), and `clear_temp_data`
  deletes every entry. For the deltas 3 and 5 of eight slots that is the
  rotation by 1. The run `rotate_batch_shared` shows it; the test
  `test/ckks/engine/spo33.cpp:394` expects one usable text per delta, but all
  tests request the deltas on the way as well. A request is served right when no
  unrequested delta is on the way to two different requested ones: the run
  `rotate_batch` shows it for the requests in its table, `OutputsAlwaysUsable` for every
  one. The callers inside the library keep to it.
- The overload of `rotate_batch` for one unit compares normalized deltas with
  `delta_set`, which holds them as they were given (`engine_rotate.cpp:347`,
  `385`, `405`): for a negative delta, or one beyond the slots, the result is put
  in `temp_data_` and deleted before it is returned. Its callers pass normalized
  deltas, and so do the runs.
- `require` for a vector of texts compares the scales of texts of one level
  without looking at their rescaled flags (`engine_require.cpp:614`), unlike the
  variant for single texts (`462`). The mutant of `match_ckks_scale` has this
  form: `TextsStayUsable` fails, sums that could be computed are refused.
- Checks for polynomials without a degree take coefficients as `int`
  (`engine_advanced.cpp:449`, `AsInt` in the model): a Chebyshev polynomial with coefficients between
  -1 and 1 is refused.
- A bootstrap asks for key levels counted from `max_level()`, and its stages are
  counted from `get_max_key_switching_level()`. The two differ by one unless the
  engine uses all its primes. With one prime more (`FullLevel = 15`) TLC finds
  `KeysSuffice` violated: a rotation key of the least accepted level is refused
  by the first partial sum.
- Only the table in `require_bootstrap_stage_count` keeps a stage from having
  a single outer group, or none, whose products would be left out: with the
  table of medium keys for large ones, which is the mutant of `stage_counts`,
  messages are lost.
  `test/ckks/engine/bootstrap_sparse` builds such stages, but compares only their deltas.
- Nothing compares `2 * stage_count + 9` with the levels of the engine.
- `negate` and `subtract` of data in NTT form reduce their *argument* in place
  (`core.cpp:1016`, `544`). Values stay the same modulo `q`.
- Residues drift. All presets use one more level: rescaling a fresh text removes
  a prime of about 60 bits and leaves primes of about 40. `mont_subtract` adds
  `2q` once, so residues as low as `-q/4` come out; `guard` does not touch them,
  sums add them up, and nothing but a product or a rescaling brings them back.
  Decoding adds `q` once and then reads unsigned words. With `MaxTerms = 8` and
  `MaxDrift = 8` TLC finds `DecodeCorrect` violated in `leveled_text`: 12209 is rescaled
  to -5 modulo 29 and doubled three times, and the residue -40 decodes to a
  number unrelated to the text. Up to four quarters of drift (two doublings of
  a text just rescaled) nothing breaks, which is what the runs check.
- Representatives are never canonical. Even where a name says `reduce_2q_to_q`,
  results may be negative, and the exit from Montgomery form may return `q`
  itself. Every property here is stated modulo `q` for that reason.

## Only model-checked, not modelled

Only model-checked: liveness (`CallsReturn`, and that part of the refinements of
`KernelCalls`), which is out of this prover's reach; what the bootstrap computes
(`MessageKept`); of the key switch its ranges (`SwitchTypeOK`), which for negative residues need
more of the moduli than `4 q < R`, and the phase of the result
(`KeySwitchCorrect`): the proofs cover what the sums decrypt to and the rounding of the
division, not the inverse transform between the two, where negative sums may
double at every stage, and the bound on the noise depends on the product of the
special primes against that of a partition; products of negative operands modulo large primes. The library's
induction theorems cannot be instantiated here, so induction over data goes by
least counterexample, as in `PolynomialsProofs` and for the sums, powers and
tables of the transform.

Not modelled:

- floating point: the FFT, scales as doubles, the precision of encodings, and
  with it how well the sine approximates a fraction;
- matrices and sums over slots (`engine_multiply_matrix.cpp`), apart from the
  diagonals of the bootstrap; they follow the pattern of `apply_butterfly`;
- of the bootstrap: texts of several units, which are the loop over the units;
  the change to a sparse secret and back in `mod_raise_`, key switches as in
  `KeySwitch`; who deletes its texts;
- random sampling, serialisation and other I/O, debug printing, the search for
  primes, `BigInt` (its use in decoding is modelled as integers);
- the partition cache: its entries are pure functions of their keys, and
  nothing in the library calls `clear`, which empties one cache of two;
- code without callers: `create_key_switcher_single_from_ntt`, the branches for
  flexible chains (a constant is false) and the split and unit variants of the
  NTT.

## Plan

Done, in this order: the pool with its abstract specification and proofs; the
two processors; the kernels, the transform, the product; the key switch; leveled
texts with their abstract specification and proofs; rotations in batches; the
engine; polynomials with their proofs; the bootstrap with the proof about its
keys; the proofs about the engine, its scales first; the refinements of `KernelCalls`
by the pool and of `RingText` by residues; the digits, lifts, partitions, key, products and
divisions of the key switch; the stages and levels of the bootstrap. Next:

1. `Partitions`: the partition cache and the parameters derived from it.
2. Matrix products and sums over slots, and `mod_down_then_decompose`, which
   hoists rotations.
3. Proofs: the ranges of the key switch for moduli of the presets, and with
   them the inverse transform before the division and the phase of the result;
   `MessageKept` of the bootstrap.
