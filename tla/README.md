# sregex in TLA+

A verification project for sregex, the streaming regex engine of `src/`. It
models the parser with its lexer and LALR automaton, the compiler, the Pike VM and
the capture vectors it works on, the Thompson VM, the machine code that the
Just-in-Time compiler makes of it, and the memory pool. TLC checks them on small
regexes, streams, chunks and pools; TLAPS proves facts about
all programs, streams, chunks and pools.

Line numbers below are those of the files in `src/src/sregex/`.

## The system

| Component | Files | State it keeps | Operations |
|---|---|---|---|
| Parser | `sre_yyparser.y`, `.c`, `.h` | none between calls; the two stacks, the lookahead and the group counters within one | `sre_regex_parse`, `sre_regex_parse_multi` |
| Syntax trees | `sre_regex.[ch]` | trees in a pool | `sre_regex_create`, dump |
| Compiler | `sre_regex_compiler.c` | the program: code, leading bytes, tags | `sre_regex_compile` |
| Bytecode | `sre_vm_bytecode.[ch]` | (records only) | dump |
| Pike VM | `sre_vm_pike.c` | `sre_vm_pike_ctx_t`: thread lists, free lists, pending match, look-behind flags, tag, stream offset | `create_ctx`, `exec` |
| Capture vectors | `sre_capture.[ch]` | reference-counted vectors, a free list | `create`, `update`, `decr_ref` |
| Thompson VM | `sre_vm_thompson.[ch]` | two thread arrays, tag | `create_ctx`, `exec` |
| Thompson JIT | `sre_vm_thompson_jit.c`, `sre_vm_thompson_x64.dasc`, `.h` | machine code, `prog->uniq_threads`; in a context two thread lists, `first_buf` | `jit_compile`, `jit_create_ctx`, handler, `jit_free` |
| Memory pool | `sre_palloc.[ch]` | blocks, large allocations, clean-ups | `create`, `palloc`, `pnalloc`, `pfree`, `reset`, `destroy` |
| Command line tool | `sre_cli.c` | none | runs the three engines over its argument, whole and byte by byte |

How they interact. The parser allocates a tree in a pool, the compiler turns the
tree into a program in the same pool, and a virtual machine's context refers to
the program and to a pool. Everything is called synchronously by one caller:
there are no threads, no callbacks (but for pool clean-ups) and no persistence.
The interleaving that matters is that of the caller's calls of `exec`: a stream
comes in chunks, the caller discards each chunk when the call returns, and all
that a later call knows of it is in the context. A program is not read-only: the
"visited" tags of a walk over it are kept in its instructions, so contexts over
one program share them.

What is hard:

- *Streaming.* A chunk may end anywhere; assertions look one byte behind and one
  byte ahead; an empty match must not be found twice; the extra step at the end
  of the stream is made once, and only with `eof`.
- *Priorities.* The lists of threads are in the order of a backtracker's choices;
  a match cuts off what follows it in one list and not what is in the other.
- *Sharing.* Threads share captures until one writes; references are counted by
  hand at every branch, death and match.
- *Tags.* Visits are marked with a number that goes up with each byte, goes back
  by one around the continuation of an assertion, and outlives calls and searches.
- *The leading-byte skip* throws the current threads away when they look like
  those a search starts with.
- *Allocation failure* may end a call between any two steps.
- *State within a token*: a class carries two flags from element to element, the
  lexer reads ahead of what it returns, and a bad token leaves `yylval` as it was.
- *Compile-time walks*: the machine code's threads, their look-aheads and their
  numbers are fixed by one walk in which each instruction is seen once.
- *Reset*: a pool hands its blocks out again, with the counts and `current` of its
  earlier life.

What makes each component correct:

- Pike VM: whatever the chunks, the matches are those of a backtracking search of
  the whole stream; the caller is told to keep enough; a call returns; thread
  lists are disjoint and no longer than the program; rounds start with fresh tags.
- Capture vectors: a vector somebody else holds is neither written nor recycled.
- Compiler: the program means what the tree means; the leading bytes are those a
  match can start with.
- Thompson VM: the same yes or no as a backtracking search, within arrays of
  `prog->len` threads; JIT: the same within lists of `prog->uniq_threads`.
- Memory pool: pieces are disjoint and inside their block; what malloc gave is freed
  once; a reset pool serves again, from all its blocks.
- Parser: the tree means what the syntax means and has its groups; the first wrong
  regex and token are blamed; the lexer stays inside the regex.

## Modules

| Module | Models | Notes |
|---|---|---|
| `Bytecode` | `sre_vm_bytecode.h` | what a well-formed program is; EXTENDed by both machines |
| `SreCapture` | `sre_capture.c` | operators on a heap `[cell, free]`; a capture is an index, `NoCapture` is NULL |
| `PikeVM` | `sre_vm_pike.c` | the state machine; no RECURSIVE operator |
| `StreamMatcher` | what `README.markdown` promises of `sre_vm_pike_exec` | the abstract specification |
| `RegexTree` | `sre_regex.[ch]` | the nodes, and case folding of ranges |
| `Regex` | the tree around several regexes, and the meaning of a regex by backtracking | RECURSIVE: for TLC only |
| `RegexCompiler` | `sre_regex_compiler.c` | RECURSIVE: for TLC only |
| `Acceptance` | what a program means: the places, a pc and a position, that a search comes to | an abstract specification; EXTENDed by `ThompsonVM` and `JITImage`, as both machines' answers are compared with it |
| `ThompsonVM` | `sre_vm_thompson.c` | the state machine, with several contexts over one program |
| `Tokens` | the interface of `yylex` and `yyparse` | token numbers and `YYSTYPE` |
| `Lexer` | `yylex` | `NextToken(s, p)`, on bytes; RECURSIVE: for TLC only |
| `Parser` | `yyparse`, `sre_regex_parse`, `sre_regex_parse_multi` | the state machine; `yylex` is the constant `Lex` |
| `RegexSyntax` | what `README.markdown` promises of the parser | a grammar read from the left, classes element by element: no tables, stacks or flags |
| `JITImage` | what is compiled: paths, states, thread numbers; what a path must say of the code | EXTENDed by the two below |
| `JITCompiler` | the walks of `sre_vm_thompson_x64.dasc` | RECURSIVE: for TLC only |
| `ThompsonJIT` | `sre_vm_thompson_jit.c` and the code emitted | the state machine |
| `Recognizer` | what `README.markdown` promises of a Thompson VM | the abstract specification |
| `Palloc` | `sre_palloc.c` | the state machine, one action per function and outcome |
| `Allocator` | what a pool promises | the abstract specification |
| `Samples` | (instances for TLC) | the regexes, their programs, and the streams; compiles with `RegexCompiler` |
| `MCPikeVM` | (instances for TLC) | compares with `Regex`, refines `StreamMatcher` |
| `MCThompsonVM` | (instances for TLC) | compares with `Regex` |
| `MCThompsonJIT` | (instances for TLC) | compiles with `JITCompiler`, refines `Recognizer` |
| `MCParser` | (instances for TLC) | composes `Parser` with `Lexer`, compares with `RegexSyntax` |
| `MCPalloc` | (instances for TLC) | the requests |
| `PikeVMProofs`, `PikeThreadsProofs`, `PikeCapturesProofs`, `AcceptanceProofs`, `ThompsonVMProofs`, `ThompsonJITProofs`, `ParserProofs`, `PallocProofs` | theorems | see "Proofs" |

The chain from a regex to an answer is composed in the instances: `MCParser` runs the
parser over the lexer and gives the trees a meaning with `Regex!Ways`; the samples are
such trees, `RegexCompiler` compiles them, the two interpreters run the programs, and
`JITCompiler` takes the same programs on to `ThompsonJIT`. Everything is compared with
the one reference, `Regex!Ways`; `ThompsonVM` and `ThompsonJIT` are compared with `Acceptance`
as well, which is about the program, not the regex, and is what the theorems speak of.

### PikeVM and the code

The control state of `sre_vm_pike_exec` is `at`. Each value is a place in the C
code; each action goes from one place to the next:

| `at` | Place | Actions |
|---|---|---|
| `idle` | no call | `ExecAfterEof` (165), `ExecEmptyChunk` (179-190), `ExecFirstBuffer` (202-217), `ExecResume` (232) |
| `loop` | head of the byte loop (235-309) | `LoopEnd`, `LoopStep`, `LoopSkip` |
| `clear-skipped`, `skipped` | the skip to a leading byte (286-307) | `ClearThread`, `ClearedSkipped`, `Skipped` |
| `threads` | the while loop over `clist` (314-567) | `ThreadDies`, `ThreadConsumes`, `AssertionFails`, `AssertionHold`, `ThreadMatches`, `StepDone` |
| `add`, `return` | `sre_vm_pike_add_thread` (756-942) and its return | `Add...`; then `Seeded`, `Restarted`, `Consumed`, `ConsumedToMatch`, `Asserted`, `AddFails` at the call sites |
| `clear-matched`, `clear-leftover` | `sre_vm_pike_clear_thread_list` at 551 and 575 | `ClearThread`, `StepDone`, `StepNext` |
| `finish` | after the loop (583-688) | `FinishMatch`, `FinishDeclined`, `FinishAgain` |

State: `clist`, `nlist` are the two lists and `temp` the local one of an
assertion; a list is the sequence of its threads with its `count` and the thread
its tail pointer addresses, because the code leaves both to be kept by hand.
`pool` and `heap` are the thread cells and the captures with their free lists.
`marks` are `pc->tag`, `progTag` is `prog->tag`, `tag` is `ctx->tag`. The
variable `matched` is both the local and `ctx->matched`: they differ only in a
call that returns `SRE_ERROR`, after which the caller makes no more calls.
`initial` is `initial_states` and its count. `site`, `call`, `stack` and `rc` are
the recursion of `add_thread`: it is tail recursion except for the first branch
of a `SPLIT`, so that the stack holds the second branches, and its other
arguments (list, position, `pcap`) depend only on the call site.

The caller: `base` is where the next chunk begins in the stream, `from` where the
search in progress began (one past an empty match), `out` what the last call
returned. It feeds a chunk of each kind in `ChunkKinds`; after a match it goes on
at the end of the match, as the tests' driver and `sre_cli.c` do; it stops after
`SRE_ERROR`. It does not cut a stream it has already declared to end (`lastChunk`).

Data: bytes are three model values (a, b and newline); an IN or NOTIN instruction
has a set of bytes instead of ranges; positions are integers; pools are
allocations that succeed or, with `PoolMayFail`, may not. `sre_vm_pike_create_ctx`
is `Init`: a creation that fails leaves no context.

### ThompsonVM and the code

| `at` | Place | Actions |
|---|---|---|
| `idle` | no call | `Create` (25-60), `Exec` (76-86) |
| `seed`, `byte`, `assert` | inside `sre_vm_thompson_add_thread` (273-346), called from 83, from the opcodes that consume (130, 155, 163, 171), from 229 | `AddVisited`, `AddPasses`, `AddWaits`; then `Seeded`, `Consumed`, `Asserted` |
| `loop` | head of the byte loop (88-98) | `LoopEnd`, `LoopStep` |
| `threads` | the loop over `clist` (100-246) | `ThreadConsumes`, `ThreadDies`, `AssertionHold`, `ThreadMatches`; `StepDone` (250-257) |
| `finish` | after the loop (260-269) | `Finish` |

`contexts` are the contexts in the order of their creation, each with its stream,
its tag and the threads it keeps between calls; the program's tags (`marks`,
`progTag`) are shared by them. `i`, `clist`, `nlist`, `sp` are the locals of the
running call. The calls of the recursive `add_thread` that are still to be made
are the stack `todo`: each call marks its instruction before it makes others, in
order, and does nothing after them. `next_threads` is empty between calls, except
after a match, when the context is discarded as `README.markdown:374` demands;
`InUse` is that demand. With `Together` FALSE the caller uses one context after
the other, as `sre_cli.c` does.

### Lexer, Parser and the code

`Lexer` is a function: the token at an offset of a regex, a sequence of bytes that
ends with a NUL. The two dialects of an escape, inside brackets and outside, are one
operator with the argument `strict`. A class being read is `[ranges, dash, fixed]`,
which is its list of ranges, `seen_dash` and `no_dash`. Counts are read into an int of
`IntWidth` bits.

| Place in `sre_yyparser.c` | Actions |
|---|---|
| `sre_regex_parse_multi` before the first regex (3455-3483) | `Begin`, `BeginFails` |
| `yysetstate`, the stack is full (1236-1300) | `ExtendStack`, `Exhausted` |
| `yybackup` (1312-1340) | `ReadToken`, `ReadRefused` |
| shift (1342-1372) | `Shift` |
| `yyerrlab` (1736) | `SyntaxError` |
| `yyreduce` (1390-1730) | `Reduce`, `ReduceRefused`, `ReduceClassRefused` |
| rule 2, and the callers of `yyparse` (3398-3440, 3484-3557) | `AcceptLast`, `AcceptOne`, `AcceptRefused` |

The tables are those of the generated file. `yyss` and `yyvs` are the stacks of states
and values; a value remembers the member of `YYSTYPE` it was written through, so that
reading another one shows. `ncaps`, `saved_ncaps` and `multi_ncaps` number the groups
over the regexes of one call. A call whose `scarce` is set may have any allocation
refused. `sre_regex_parse` is the call of one regex.

### ThompsonJIT and the code

| `at` | Place in `sre_vm_thompson_x64.h` | Actions |
|---|---|---|
| `idle` | no call | `JitCompile`, `JitFree`, `CreateCtx` (`sre_vm_thompson_jit.c`), `Exec` (prologue 986-1022) |
| `first_buf`, `path` | the code of a path (493-856): that of the start, that of a thread | `SkipState`, `StateMatches`, `AddThread`, `PathEnds` |
| `sp_loop` | the loop over the bytes (1028-1068) | `LoopEnd`, `RunCurThreads` |
| `run_thread` | the loop over CTL (1070-1141), the test of a path's byte (522-646), the handlers of look-aheads (1163-1228) | `RunNextThread`, `CallPath`, `CallMatch`, `RunThreadsDone` |

`prog` is what the compiler has worked out: the code, the path of each pc as the list
of its states (`sre_vm_thompson_state_t`: a pc and the assertions on the way there), the
numbers of the threads that several states add, and `uniq_threads`. Look-behinds
are settled by the path, look-aheads make another thread and are settled by its
handler in the next step. `clist` is CTL, `nlist` TL, `added` the register ADDED, `ct`
the thread and `st` the state of its path; `pcode` is what the caller's `*pcode` leads to. `Current` is what the register C holds: in the
last step the byte before, or anything if the chunk is empty. As
`prog->uniq_threads` is counted up by each compilation, the model compiles several times.

### Palloc and the code

A block is `[last, failed]`, with offsets for pointers; `large` is the list of large
requests with, for each record, the piece of a block it lies in; `mallocs` is what
malloc has given out and `given` what the callers hold. `Small` is the search of
`sre_palloc` and `sre_pnalloc` and, behind it, `sre_palloc_block`; `PallocLargeReuses` and
`PallocLargeRecords` are the two ends of `sre_palloc_large`, `PallocFails` its and the
block's failures, `Pfree`, `ResetPool`, `DestroyPool` the functions of those names.
`NextCurrent` leaves open which of several admissible blocks `current` becomes in a
chain where the counts of failures do not fall; the proof shows that they do fall.

## Runs

`MaxLen` bounds the streams: all streams over three bytes up to that length.
`TagLimit` bounds the number of calls of the Pike VM, `MaxContexts` the contexts of
the Thompson VM and of the machine code, whose calls need no bound; `TagModulus` stays
out of reach. Deadlock is not checked where the system stops when the caller does:
after `SRE_ERROR`, at `TagLimit`, when the last context's stream is over, or when a parse
has returned; the caller of a pool can always go on, and `palloc` checks it.

| Run | Programs, inputs | Shows |
|---|---|---|
| `whole` | 23 programs; whole streams, `MaxLen` 3 | `MatchesReference`, `OneThreadPerPc` |
| `chunks` | 15 programs without `\b`, `\B` and 5 with; every cut, `MaxLen` 3 | `StreamingMatches`, `DiscardIsSafe` |
| `memory` | 23 programs; every cut and empty chunks, allocations fail, `pending_matched` NULL or not, `MaxLen` 2 | `TypeOK`, `RefsCoverHolders`, `FreeCapturesUnused`, `ThreadsOwnedOnce`, `AppendsAtTail`, `WritesAreUnshared`, `RoundsAreFresh`, `CallsReturn` |
| `chained_lookahead` | `\b^b`, `a\b\b\n`, `a$^\n`; every cut | `StreamingMatches` is violated |
| `pathological` | `(?:a?\|\B)*b`; whole streams | `ListsAreBounded` is violated |
| `thompson_chunks` | the 20 programs of `chunks`; every cut, `MaxLen` 3, one context | `AnswersAreRight`, `MatchesAreReal`, `NoMatchIsMissed`, `ThreadsFit` |
| `thompson_streams` | the same; two contexts in turn, empty chunks, `MaxLen` 1 | `TypeOK`, `WalksAreFresh`, `CallsReturn` |
| `thompson_together` | `a`, `ab`; two contexts at once, whole streams | `AnswersAreRight` is violated |
| `jit` | the 23 programs, `(?:a?\|\B)*b` and 4 that mix look-aheads; every cut, `MaxLen` 3, compiled up to twice | `Recognizes`, `AnswersAsMeant`, `MatchesAreReal`, `ListsFit`, `TypeOK`, `CallsReturn` |
| `jit_pruned` | `^?a`; every cut | `Recognizes` is violated |
| `parser` | all regexes of up to 4 pieces, classes of up to 3 elements in both cases, 31 escapes in three surroundings, longer regexes, several at once, with and without memory | `AnswersAreRight`, `ClassesAreRight`, `StackFits`, `ReadsStayInside`, `Answered` |
| `palloc` | blocks of 128 bytes, requests of 33, 64 and 65 bytes, 6 callers, 2 pieces of malloc at a time | `Promise`, `Contained`, `AllRecorded`, `OnlyTiredAreSkipped`, `TypeOK` |

Why the bounds are enough to mean something. Three bytes are a match with a byte
before it and one after it, two matches in a row, or a match and a longer one
that supersedes it; every cut of them puts a chunk boundary before, inside and
after each of these. The programs have between them every opcode, both loop
kinds, groups in loops, two regexes, every assertion, empty matches and leading
bytes. With streams of two bytes `memory` still has captures shared by three
holders, recycled captures and threads, lists spliced by assertions, and searches
that follow a match; its mutants show that each invariant notices a slip there.

`MatchesReference` is refinement: a run of `PikeVM` is, under the identity on the
caller's variables, a behaviour of `StreamMatcher`, whose match is the first of
`Regex!Ways`, a backtracker that tries the alternatives in the order Perl does.
It compares the id and every slot of `ovector`, so priorities, greediness and
groups are part of it. `StreamingMatches` is the same step by step, leaving out the
searches after a match of a regex with `\b` or `\B`, which go by a look-behind context
that may be stale (the `seen_word` below).

`DiscardIsSafe` says what the range in `ovector` after `SRE_AGAIN` is for: a
match found later begins in the bytes to come, or no earlier than the least start
that `ovector[0]` or the pending match gives.

`AnswersAreRight` compares the yes or no of the Thompson VM with the same
backtracker: `SRE_OK` only for a stream that has a match, `SRE_DECLINED` only for one
that has none. It does not say when `SRE_OK` is returned: the code returns it one
step after the byte that completes the match, so possibly a call later. A
context can be used for one stream only, so a second context is what it takes to
find tags left behind; streams of one byte make two or three steps, enough for
the second stream's tags to meet them.

`MatchesAreReal` and `NoMatchIsMissed` are the two halves of the same comparison with
`Acceptance` in the place of the regex: the closure of the first place under the
instructions, with all branches taken and the assertions read on the whole stream. That
leaves the compiler aside, and knows of no tags, lists, threads or chunks. `(?:a|\b)ab` is
among the programs because it takes the tag that is put back behind an
assertion (228) to find its match. There two threads of one list wait at one instruction,
harmlessly: `ThreadsFit` is about the length of the arrays.

`Recognizes` is the same promise as refinement: the calls of `ThompsonJIT` are those
of `Recognizer`, where several streams may be fed in turn. `jit` has one context,
because contexts of the machine code share nothing that changes: the code is read-only
and the thread bits are in a register. `ListsFit` is about what the C code does not
test: the lists have an entry for each number that the compile-time walk gave out, and
nothing but the bits keeps a number from being added twice. `AnswersAsMeant` is the same
refinement with `Acceptance` in the place of the regex, and is what is proved;
`MatchesAreReal` is its half about `SRE_OK`, for which less has to be supposed. The slips of
their mutants take the beginning of a chunk for that of the stream, and test `$` by the
register C where there is no byte. (No variable of `ThompsonJIT` has the name of a bound
variable of the modules it extends: TLC would take the table `Meanings` for one that
depends on the state, and make it anew in each.)

In the `parser` run `AnswersAreRight` compares a parse with `RegexSyntax`: the tree is
run by the backtracker on all words over a and b up to three bytes, and two longer ones
in capitals, with all groups; an error must be that of the first wrong regex, at the
first token there that no regex continues with. Four pieces are enough for a
group around an alternative, a quantifier on a quantifier and every pair of states of the
automaton that a short regex reaches; the rest is in the longer ones. The stack begins with
4 entries and may grow to 14 (`InitDepth`, `MaxDepth`, which are 200 and 10000), so that it
grows twice and is exhausted by seven nested groups. `IntWidth` 16 leaves the counts below
500 alone. `ClassesAreRight` compares a class token with the set of its elements, so that
what `seen_dash` and `no_dash` do to them is checked. `StackFits` is about the stacks of
`yyparse`: they have an entry for the next push, hold a state for each value, and a
reduction reads the members of `YYSTYPE` that were written. `ReadsStayInside` is about the
parser, given what `LexAssumption` says of a call of `yylex`; the runs evaluate that
assumption on the modelled lexer at every offset of every regex, which is why the escapes
are also given cut short.

A block of 128 bytes holds one piece of 64 bytes or, behind its short header, two of
33: blocks are left half full, passed over, and searched again. `MaxFailed` 1 and
`MaxSearched` 0 (4 and 3 in the code) make a block tired at the second failure and leave a
freed record out of sight when a newer one is in front of it. With `MaxBlocks` 6 the pool
has tired blocks before and after a reset.

Fairness. `Spec` has weak fairness of `Machine`, all the steps inside a call: the
call runs on the caller's own thread and nothing in it waits, so that it goes on
as long as it has a step. The caller owes nothing: no fairness on `Call`.
`CallsReturn` is about the loops inside a call, the recursion through visited
splits among them. In `Parser` all steps are those of one call, and `Spec` has weak
fairness of `Next`. `Palloc` promises nothing in time and has no fairness.

### Disagreements between the code and its documents

- `chained_lookahead`. `sre_vm_pike.c:851-853` and `871-872` evaluate the
  look-behind of an assertion reached through another assertion. At the first byte
  of a chunk they use `seen_newline`, or nothing, and the flags are only set after
  a match (the update at 681-686 is under `#if 0`). `\b^b` is found in `"\nb"` and not
  in `"\n"`, `"b"`.
- `pathological`. Taking the tag back (507) makes instructions of the running
  round new again. In `(?:a?|\B)*b` on `"aab"` a byte and an assertion renew each other
  and the loop at 314 never ends: the lists grow until the pool is exhausted.
  `CallsReturn` is over programs without such a loop.
- `thompson_together`. The tag of a context is read from the program when the context
  is created (56), not when it first runs. Two contexts for `a`, the first run on
  the empty stream: the second declines `"a"`.
- `jit_pruned`. The compiler of the machine code visits an instruction once per path
  (`sre_vm_thompson_x64.h:867`) and keeps the assertions of the first way there. In
  `^?a` the way past `^` comes first: on `"ba"` the machine code declines, where the
  interpreter finds the a.

Others came up that no run is about; those of the Pike VM, the Thompson VM and the
parser are modelled as the code has them.

Pike VM. The `seen_word` a search leaves is OR-ed into that of the thread at the first
byte of every later chunk (472-473, 484-485): on `"a"`, `"\n"`, `"b"` the second search
for `a|\bb` misses the `b`. The position from which the look-behind flags are set is slot 1,
the end of the first regex's match, whichever regex matched (532, 891). An empty chunk
after an empty match clears `empty_capture` (181), after which the same empty match is
reported again. The greatest end in the provisional `ovector` (721) is read without the
offset of the regex.

Thompson VM. `\A`, `^` and `\b` compare `sp` with the beginning of the running call's chunk
(303, 312, 321): `a$^\n` matches `"a"`, `"\n"`, and not `"a\n"`. The tag wraps (98): with
the 32 bits of the code, `ab` is not found behind 2^32 - 3 other bytes. The cause of
`pathological` (228 there) makes `ThreadsFit` fail, and the threads go into an array of
`prog->len` entries without a test (340).

Machine code. A handler tests `\b` and leaves `\B` out when both are asked for (1195-1219):
`a\b\B` is found in `"a"`. Its test of `$` reads the register C in the last step when `\z`
is there too (1180-1193): `a$\z` is not found in `"a"`. A thread number that only one state
has gets no bit, but two threads at that state's path, one with a look-ahead and one
without, run the path twice in one step: `(?:a$|[ab])\n(?:a|b|\n)` puts nine threads into a
list of eight, so that `ListsFit` is not true of every program. It is of those in which each
number that the paths of such threads add has a bit (`JITImage!RepeatsHaveBits`).
`prog->uniq_threads` counts up over compilations (`sre_vm_thompson_jit.c`), and is 0 in a
context made before the first. When `mprotect` fails `*pcode` keeps the address of memory
that is unmapped. The machine code is mmapped and does not go with the pool.

Parser. `({0,1}:a)` is read as `(?:a)` and `a*{0,1}` as `a*?`, as the lexer gives `{0,1}` the
token of `?`. `\o{18}` ends at the 8. A caseless class whose new ranges are refused
becomes empty, as the action tests the node (1671-1675); a refusal in the lexer is
reported as a syntax error at the token. Counts wrap in an int (3277, 3310), which is undefined in C,
so that a huge one may pass for a small one. Nesting is limited by `YYMAXDEPTH`.
Counted repetition of what may be empty is unrolled, so that its iterations are counted
differently from Perl's: the words matched are the same.

Memory pool. `sre_reset_pool` restores neither `current`, nor the counts, nor the list of
clean-ups. A pool whose size is no multiple of 8 can hand out memory behind a block (165),
and one smaller than its header and a record makes `sre_palloc_large` call itself for ever:
`SizesAssumption` excludes both.

## Proofs

The first section of `PikeVMProofs` has the lemmas about the heap: taking, recycling, updating,
adding and dropping a reference keep `Pools(...)`, the type of a heap whose free
list names its own cells, for every type of vector; and what each leaves of the
other cells.

The theorems about the machines hold for all programs that are `WellFormed`, all
streams, chunk kinds and bounds; those about the Pike VM with or without a pool that fails.

**Pike VM, types.** `PikeVMProofs` proves `TypeCorrect`, `Spec => []TypeOK`. `TypeOK` is
more than types: it is the memory safety of the pointers of
the machine. Every program counter in a thread, a pending branch, a call or the
initial states is an instruction that is executed, so that `pc + 1`, `x` and `y`
never leave the program; every thread and every pending branch has a capture,
none is NULL; lists have only cells that exist; and the regex id of a capture,
which `sre_vm_pike_prepare_matched_captures` uses as an index, is one of the
program's, whatever the id that a recycled capture brings along.
It is its own inductive invariant. Three parts of it are there for that:
`CallHolds => call.cap # NoCapture` (a call has a capture until it hands it on),
`site \in {"byte", "assert"} => t # NoThread` (those call sites have a running
thread, which they free), and `site = "none" <=> at \notin {"add", "return"}`.
The proof has one lemma per action or group of actions, and the theorem combines
them.

**Pike VM, threads.** `PikeThreadsProofs` has four theorems.
`ThreadsNeverShared` (`ThreadsOwnedOnce`): a thread's cell is in one place of one list, or
running, or free. `TailsAreRight` (`AppendsAtTail`): the tail pointer that is kept by hand
addresses the last thread whenever something is appended through it. The invariant says who
owns the cells at each place of the code, the lists being sequences without repetition that
are disjoint. `RoundsBeginFresh` (`RoundsAreFresh`): with `FreshTags`, an order between the
tags of the instructions, of the program and of the context, at each place of the code. Its
hypothesis `[]TagsDoNotWrap` is needed, as nothing in the code guards the wrap of the tag.
`OneThreadEach`: of a program without look-aheads no list has two threads at one
instruction (`OneThreadPerPc`), because every thread of the list under construction is
at an instruction that carries the current tag. Through a look-ahead the machine adds under the
previous tag, and what is marked then depends on the program (`pathological` has no
bound at all), so that with look-aheads `OneThreadPerPc` stays with TLC.

**Pike VM, captures.** `PikeCapturesProofs` has three, each from the one before.
`HoldersAreCounted` (`RefsCoverHolders`): a vector has at least as many references as
there are threads, pending branches, calls and matches that hold it. The invariant counts
the holders as the cardinality of a set of places, in such a form that each
action adds or removes known members. `FreeCapturesAreUnused` (`FreeCapturesUnused`): the free list has
no vector twice, and only vectors without references. `WritesAreNeverShared`
(`WritesAreUnshared`): a vector that is written has no other holder. References may be too many,
as the code leaks some, so that equality is not what is proved.

**Thompson VM.** `ThompsonVMProofs` proves `TypeCorrect`: threads and
walks stay at instructions that are executed, whatever the number of contexts
and the way the caller mixes them; a context never gets past the end of its
stream, and `sp` never past the end of the chunk. `TypeOK` is its own inductive
invariant here too; `at = "byte" => sp < size` and `i <= Len(clist)` at the calls of
`add_thread` are there for that. `WalksBeginFresh` (`WalksAreFresh`) needs `[]TagsDoNotWrap` and
`~Together`: the program and the last context agree about the tag only as long as the older
contexts rest, and `thompson_together` shows what happens otherwise.
`ThreadsAlwaysFit` (`ThreadsFit`): without look-aheads the threads of a list are at different
instructions, so that an array of `prog->len` entries is enough, whatever the tags and the contexts.

**Thompson VM, answers.** `ThompsonVMProofs` also proves that the machine, with its tags,
lists and chunks, answers as `Acceptance` defines. `MatchesAreFound` (`MatchesAreReal`) rests
on the invariant `Real`: every thread and every pending walk is at a place that is
`Reachable`, and the word a thread has seen is the stream's. It needs nothing of the tags,
which can only cut a search short. `MatchesAreNotMissed` (`NoMatchIsMissed`) rests on `Whole`:
there is a set of places that have been searched through, closed under the
steps of the program but for the threads and walks that are still pending; every instruction that
carries the tag of a walk is in it at the walk's position. When a stream is over
nothing is pending, the set is closed and has the first place, so that it has all that are
reachable, and no match is among them. `Reachable` is the `Closure` of the first place, which is
defined by iteration, as often as there are places. `AcceptanceProofs` shows by counting that
it is closed and the least such set (`ClosureLeast`, `ReachableLeast`): a round that changes
anything adds a place.

Three hypotheses, each of which the code needs. `SeesBack`: `add_thread` compares a look-behind
with the beginning of the running call's chunk (303, 312, 321), so that behind a look-ahead at
the first byte of a chunk it is wrong (`a$^\n`); either the program has no look-behind that follows a look-ahead without a
byte in between, or the streams come whole. For `MatchesAreNotMissed` also `~Together`, as
`thompson_together` shows, and `[]TagsDoNotWrap`, as `ab` behind 2^32 - 3 bytes shows.

**Machine code.** `ThompsonJITProofs` proves `TypeCorrect`, for every set of images that are
`WellFormedImage`: the code runs only while it is mapped, never takes the path of a thread
that has none, reads no byte outside of the chunk, and `added` holds no more than the threads
that have a bit. The invariant adds `prog \in Images`: what the compiler made does not change
while contexts use it, though it is freed and made again in between. Each action is
brought back to one of two lemmas, `InsideCall` and `ReturnStep`.
`ListsAlwaysFit` (`ListsFit`): where `RepeatsHaveBits` holds, a list has each number at most once,
so that `uniq_threads` entries are enough. The invariant says where what has been added
in this step came from: it has a bit in `added`, or it is in one place only, of a path that has been
run. `RepeatsHaveBits` holds of all programs of the `jit` run but `\ba*?`, whose match ends
the call before the second thread comes, and `(?:a|\b)ab`, where the second thread's `\b`
and the first thread's byte exclude each other.

**Machine code, answers.** `MatchesAreFound` (`MatchesAreReal`) and `AnswersAreMeant`
(`AnswersAsMeant`) say that the machine code answers as `Acceptance` defines; the second is
the refinement of `Recognizer`, step by step. What they need of the compiler is in
`WellFormedImage`: `TruePaths`, each state of a path has the assertions of some way there
through the code (`Ways`, a `Closure` over pcs with sets of assertions). Two invariants.
`Right`: what a thread waits for is so. Its path was begun at a place that is reachable
(`Begins`), by a way whose look-behinds held, so that if its look-aheads hold, its pc is
reachable at the next byte; and the word it has seen is the stream's. `Whole`, the other
direction: each byte or match that a search comes to at the running position has a thread
whose look-aheads hold (`Heard`), no match lies before it, and what the threads that
have run lead to has its thread in the new list (`Passed`, `Served`). So no match is left
when the last step is over. An index that is already in `added` has a thread in that list
(`AddedWaits`), which is why adding it no second time loses nothing. No count of steps is in them: chunks may be
empty, contexts may alternate, and the code may be freed and compiled again.

`AnswersAreMeant` supposes `Precise`, three conditions on the paths, and the code needs each:
that they are whole (`WholePaths`; `jit_pruned` has one that is not), that no state asks for
`\b` and `\B` at once (`MatchesAreFound` supposes only this one; `a\b\B` breaks both), nor for
`$` and `\z` (`a$\z` breaks it).

**Parser.** `ParserProofs` proves `StacksFit` (`StackFits`) and `ReadsInside`
(`ReadsStayInside`). The stack of states is a path of the automaton, from the
beginning of which each state's least depth is known; so a reduction finds as many entries as
its rule is long, the states beneath tell which symbol each value belongs to, and the symbol
which member of `YYSTYPE` it was written through. What the tables must fulfil for that
is `CallsAssumption`, and what `yylex` must, `LexAssumption`; TLC evaluates both in the `parser` run.

**Memory pool.** `PallocProofs` proves of the pool all that the run checks, for all blocks whose size is a
multiple of the alignment and holds a record, all requests, callers and limits:
`TypeCorrect`, `PiecesAreContained`, `MallocsAreRecorded`, `OnlyTiredBlocksAreSkipped`, and
`PoolKeepsPromise`, that `Palloc` implements `Allocator`. The properties are not inductive;
`IInv` adds that records lie in blocks, that memory of malloc has one caller, that nothing
begins inside a header, that without a pool nobody has anything, and that
the counts of failures fall along the chain from `current` on, without which a tired block
could hide one that is not. Its centre is the lemma `SmallServes`: the piece that the search
or a new block yields begins where all in its block have ended. The proof has a lemma per
action that gives the invariant and the step of `Allocator`.

The assumption of the virtual machines' theorems is the `ConstantsAssumption` of the module: the
programs are well-formed, as the compiler makes them (TLC evaluates it in every run on the
compiled programs), the streams are sequences of bytes; for the machine code, likewise,
`ImagesAssumption` and `JITAssumption`.

Only model-checked: `MatchesReference`, `StreamingMatches`, `AnswersAreRight` in both runs,
`ClassesAreRight` and `Recognizes`, whose promises are
recursive definitions over trees and so out of the prover's reach, as are the lexer, the
compilers and what `RegexSyntax` says (that a program accepts what its regex means is thus
what TLC shows: `AnswersAreRight` and `Recognizes` meet the theorems about answers in the program); `DiscardIsSafe`; `OneThreadPerPc` and `ThreadsFit`
for programs with look-aheads; `CallsReturn` and `Answered`, being liveness.

## Not modelled

Of the machine code: the encoding of instructions and registers, DynASM, which is
vendored, and `threads_added` in memory, for programs with more than 64 threads that are
added twice (`JITImage!RegisterBits`). Of the pool: clean-up handlers, which nothing in the
library installs, `sre_pcalloc`'s zeroes and the build for valgrind. Of the parser: debug
output and the texts of errors. Of the compiler: the allocations of `sre_regex_compile`.
Of the Pike VM: calls after `SRE_ERROR` (the code leaves the context half way, and the
documentation calls the error fatal) and two contexts over one program. Dumps only print. The
command line tool calls what is modelled, whole and byte by byte, and prints; tests,
benchmarks and build files hold no state.

## Plan

1. The Pike VM's answers: that a match it reports is a path through the program
   (as `MatchesAreFound` is), then that it is the first in the order of priorities.
2. Bounds for the threads of programs with look-aheads (`ThreadsFit`, `OneThreadPerPc`).
3. `PikeStreams`: two `PikeVM` contexts that share the tags of one program.
4. The thread bits in memory, as a second representation of `added`.
