# Verification of the intercepted DRPC client connection

This directory models the two implementations of the "intercepted
connection" in this repository in TLA+. It model-checks them with TLC and
proves the main invariants of the first one with TLAPS.

## The system

The repository holds two near-duplicate implementations of one idea: a
`ClientConn` that wraps a `drpc.Conn` and runs a chain of caller-supplied
interceptors around every `Invoke` (unary call) and `NewStream`.

| Part | Source | What it does |
|---|---|---|
| drcpclient compiler | `src/drcpclient/clientconn.go` 50-168 | `WithChainUnary/StreamInterceptor` append to two lists. `newDialOptions` applies the options and then compiles both chains with `chainUnaryClientInterceptors` and `chainStreamClientInterceptors`. Each compiler captures `n` and builds a closure that folds the list right to left into `chained` closures. |
| drcpclient ClientConn | `clientconn.go` 1-49 | `NewClientConnWithOptions` dials, then builds the options. `Invoke` and `NewStream` call the compiled chain, or the connection directly when no chain exists. |
| drpcinterceptors compiler | `src/unnamed/part_001` 59-183 | Same lists. `NewDialOptions` does not compile. `ChainXClientInterceptors` switch on the list length: nil for 0, the interceptor itself for 1, a closure chain for 2 or more. |
| drcpclientconn ClientConn | `part_001` 1-58 | Calls the supplier, copies the options and compiles them with `initInterceptors`. `Invoke` and `NewStream` wrap the connection in a `next` adapter. |
| tests | `part_000`, `part_001` 184-338 | Two interceptors record `before`, call `next` and record `after`. The expected record is `[1-before, 2-before, 2-after, 1-after]`. |
| drpc.Conn, drpcpool, drpcwire | external | The connection, the pool and the wire protocol used by the tests. Not modelled. |

The interceptors interact with the wrapper only through calls. The wrapper
calls the first closure, and each closure calls its interceptor with the
next closure as `next`. The last `next` is the terminal `Conn.Invoke` or
`Conn.NewStream`. Results travel back up the Go call stack.

## Modules

- `DrcpClient.tla` models `src/drcpclient`.
- `DrcpClientConn.tla` models `part_001`.
- `ChainSpec.tla` is the abstract specification of what an intercepted
  connection promises (spec sections 4.1 and 5), independent of either
  implementation.
- `MCDrcpClient.tla` and `MCDrcpClientConn.tla` instantiate the two models
  for TLC.
- `DrcpClientProofs.tla` and `DrcpClientConnProofs.tla` hold the TLAPS
  proofs of typing, chain order and refinement.
- `CallRecord.tla` defines what a call's event record `trace[c]` says (its
  last terminal result, `LastTerm`, and whether every interceptor passed its
  result on, `Clean`), with lemmas on appending to it.
- `DrcpClientResultProofs.tla` and `DrcpClientConnResultProofs.tla` prove
  what callers get back (`ResultFidelity`, `NoPanic`).

Both implementation modules use the same representation.

- **State.** Each call is its Go call stack, `stack[c]`: a sequence of
  frames, innermost last.
  - An interceptor frame `[fn |-> "icpt", k, pos, id, calls, got]` is the
    `pos`-th interceptor of the list of kind `k`. `calls` counts how often it
    has called `next`, and `got` is what its last `next` returned.
  - The terminal frame `[fn |-> "term", k]` is the in-flight connection
    call.
  - The forwarding closures (`chained`) hold no state. Calling closure p is
    the operator `Callee`: it pushes interceptor p's frame, or the
    terminal's when p is past the chain.
  - `dopts` holds the two lists and the compiled chains. A chain is the
    record `[present, n]`: whether the field is non-nil, and the length the
    closure captured.
  - `result[c]` is what the caller got back.
  - `trace[c]` is the record the test interceptors keep.
- **Interceptors** are user code. In the model an interceptor may call
  `next` up to `MaxNext` times, which covers retrying interceptors. It then
  returns what it got, an error of its own (`errI`), or success.
  In `DrcpClientConn` an interceptor may also call `Invoke` or `NewStream`
  on the `*ClientConn` it is handed (`part_001` 38, 47). That call runs a
  whole chain on top of the same Go stack (`NestedCall`), up to
  `MaxDepth` frames deep.
- **Actions.**

  | Action | Models |
  |---|---|
  | `NewClientConnWithOptions` | Dial fails, or the options are built from any pair of bounded lists and compiled. |
  | `Invoke(c)`, `NewStream(c)` (both `Call(c, k)`) | Enter the chain, call the terminal directly, or panic on an index past the slice. |
  | `CallNext(c)` | The top interceptor calls `next`. |
  | `NestedCall(c, k)` | The top interceptor calls `Invoke`/`NewStream` on its conn handle (`DrcpClientConn` only). |
  | `InterceptorReturn(c)` | The top interceptor returns. |
  | `TerminalReturn(c)` | The connection returns `ok` or `errT`. |

  `Return` pops a frame and hands its result to the frame below, or to the
  caller.
- **Abstraction of the options.** Options are represented by the two lists
  they accumulate. This is exactly what the option closures compute:
  appends in order, one list per kind. The lists range over all sequences
  up to `MaxInts` long.
- **Abstract specification.** In `ChainSpec` a call is a stack of links
  `[k, i]`. Link i ≤ n of kind k is the i-th interceptor, and link n+1 is
  the connection. A call is issued at link 1 (`Issue`). The running
  interceptor moves to the next link (`Proceed`) or starts a chain at link
  1 (`Nest`). The innermost link returns (`Finish`), and the caller gets an
  outcome when the outermost does. Its `Spec` adds weak fairness of
  `Finish`.
- **Refinement mapping.** `DrcpClientConn` instantiates `ChainSpec` as
  `Abstract` with `lists` the two lists of `dopts` and `active[c]` the
  stack mapped frame by frame by `AbsLinks`: a frame's kind, and its link
  `Link(f)` (its position, or n+1 for the terminal).

## Runs

| Run | Checks | Shows |
|---|---|---|
| `drcpclient_unary` (`MCDrcpClient.cfg`) | TypeOK, UnaryChainOrder, ResultFidelity | One caller, lists of up to 2, interceptors that call `next` twice. The chain runs in configured order, and an error unwinds unchanged through retries. |
| `drcpclient_concurrent` (`MCDrcpClientConcurrent.cfg`) | same | Two concurrent callers on one ClientConn do not interfere (spec P7). |
| `drcpclientconn` (`MCDrcpClientConn.cfg`) | TypeOK, ChainOrder, ResultFidelity, NoPanic | The second implementation is correct for both kinds, in the nil, single and chained cases of its switch, with two concurrent callers. |
| `drcpclientconn_nested` (`MCDrcpClientConnNested.cfg`) | TypeOK, ChainOrder, ResultFidelity, NoPanic | Interceptors that call back into the ClientConn, up to 4 frames deep. Every nested call runs its own chain from link 1, and results still reach the right frame. |
| `drcpclientconn_live` (`MCDrcpClientConnLive.cfg`) | ChainSpecRefined | The ClientConn, nested calls included, implements `ChainSpec` under the refinement mapping. Its fairness part adds that, under the assumed fairness of returns, every issued call gets a result. |
| `drcpclient_stream_order` | StreamChainOrder | **Violated.** With unary `<<>>` and stream `<<A>>`, `NewStream` skips A (`clientconn.go:156` uses `len(d.unaryInts)`). |
| `drcpclient_stream_panic` | NoPanic | **Violated.** With unary `<<A>>` and stream `<<>>`, `NewStream` panics indexing `d.streamInts[0]` (line 161). |
| `drcpclient_nil_chain` | ChainNilWhenEmpty | **Violated.** The unary chain is non-nil for an empty list, contrary to its doc comment and spec §4.1. |

The properties:

- `ChainOrder`, `UnaryChainOrder` and `StreamChainOrder`: frame j of a call
  is the j-th configured interceptor, and the terminal lies only beneath
  all of them. Because this holds at every moment of every call, it implies
  the entry order `[I1..IN]` and, by stack discipline, the exit order in
  reverse (spec P1, P6). In `DrcpClientConn` it also covers nested calls:
  a frame either starts a chain at link 1 or is the next link of the frame
  below it.
- `ResultFidelity` (spec P5, §7): if every interceptor passed on what it
  got, the caller receives what the last terminal call returned.
- `NoPanic`: no call indexes past its interceptor slice.
- `ChainSpecRefined` is `Abstract!Spec`, the abstract specification under
  the refinement mapping.

Every property of a passing run has a mutant in `PROJECT.json`, and TLC
finds the mutant's violation:

- the chain folded the wrong way;
- a closure that drops errors;
- an off-by-one in the retry bound;
- the stream chain taking the unary length;
- the interceptor handed the raw `Conn` instead of the ClientConn, so a
  nested call skips the chain.

**Bounds.**

- Two interceptor identities are enough to make a wrong order visible.
- Lists of length ≤ 2 cover the cases 0, 1 and ≥2 of the compiler's switch,
  and unequal list lengths.
- `MaxNext = 2` (one caller) gives retries. `MaxNext = 1` with two callers
  gives interleavings.
- The nested and live runs use one caller, `MaxNext = 1` and
  `MaxDepth = 4`. Depth 4 allows a chain of two interceptors to start a
  nested call that reaches its own terminal, or two nested calls in a row.
  More retries or callers make the trace history explode.
- Symmetry is taken over the interceptor identities and over the callers,
  because no property names a particular one. The live run uses none,
  because symmetry is unsound for liveness checking.
- Deadlock checking is off. Every caller issues one call, so the program
  really does stop.

**Fairness.** `LiveSpec` assumes weak fairness of each caller's return
steps (`InterceptorReturn(c) \/ TerminalReturn(c)`). Each caller runs on
its own goroutine, and the Go scheduler keeps a runnable goroutine running.
The interceptors and the `Conn` are assumed to return, because nothing in
this layer can force them to. Nothing forces a caller to issue a call, or
an interceptor to call `next`, so those steps get no fairness. The safety
runs assume no fairness.

## Proofs

`DrcpClientProofs.tla` proves two theorems for all values of the
constants, under `ConstantsAssumption` (`MaxInts ∈ Nat`,
`MaxNext ∈ Nat \ {0}`):

- `TypeCorrect`: `Spec => []TypeOK`.
- `UnaryChainOrderHolds`: `Spec => []UnaryChainOrder`.

TypeOK is not inductive by itself. `Pop` and `Callee` stay in range only
because of two further invariants:

- `DoptsInv`: after the dial, the chains are the ones compiled from the
  lists.
- `StackInv`:
  - a stack exists only for an issued call of a ready connection;
  - the captured chain length is at most the list length;
  - every frame below the top is an interceptor;
  - every interceptor's position is within the chain.

`TypeInv == TypeOK /\ DoptsInv /\ StackInv` is inductive. There is one
lemma per action (`CallTypeInv`, `CallNextTypeInv`, `ReturnTypeInv`, ...).
The sequence facts they share are stated once, in `PopProperties` and
`CalleeType`. For the order, `UnaryOrderInv` adds that frame j has
position j.

`DrcpClientConnProofs.tla` proves four theorems about the second
implementation, nested calls included:

- `ConnInvariant`: `Spec => []Inv`.
- `ConnTypeCorrect`: `Spec => []TypeOK`.
- `ConnChainOrderHolds`: `Spec => []ChainOrder`.
- `RefinesChainSpec`: `Spec => Abstract!SafeSpec`, the safety part of
  `ChainSpec` under the refinement mapping.

The inductive invariant is `Inv == TypeOK /\ DoptsInv /\ StackInv`.
`StackInv` states `FramesOK` for every stack:

- every frame is the interceptor at its position in its list;
- every frame below the top is an interceptor;
- the first frame is link 1 of the caller's kind;
- each frame either starts a chain at link 1 or is the next link of the
  frame below;
- `got` holds only an outcome that `ChainSpec` knows.

`FramesOK` is stated over the lists as a parameter. That way the lemmas
about the stack operations (`ReplaceTopFramesOK`, `PushFramesOK`,
`PopFramesOK`) do not depend on the state. `AbsLinksReplace`,
`AbsLinksAppend` and `AbsLinksPop` show how the mapping follows `Bumped`,
`Append` and `Pop`.

Each action then has a step lemma, for example `CallStep`, `CallNextStep`,
`NestedCallStep` and `ReturnStep`. Each one proves that the action keeps
`Inv` and is the matching `ChainSpec` step:

- `Call` is `Issue`;
- `CallNext` is `Proceed`;
- `NestedCall` is `Nest`;
- both returns are `Finish`;
- a stutter is a stutter.

`NextStep` combines them, and the theorems follow by PTL. `DoptsInv` is
what makes `Invoke` and `NewStream` enter the chain at an existing index.
Without it, the panic branch would be reachable.

### What callers get back

`DrcpClientConnResultProofs.tla` proves, for all constants:

- `ResultsInvariant`: `Spec => [](Inv /\ ResultsInv)`.
- `ConnNoPanic`: `Spec => []NoPanic`.
- `ConnResultFidelity`: `Spec => []ResultFidelity`.

`DrcpClientResultProofs.tla` proves `ClientResultFidelity`:
`Spec => []ResultFidelity` for the first implementation, on top of
`TypeInv`. Its `NoPanic` is false (run `drcpclient_stream_panic`), so it
is not a theorem.

`ResultFidelity` talks about the caller's result only, and it is not
inductive. A frame's `got` goes stale while the frame waits on a later
`next`, and it is overwritten before that frame runs again. So `ResultsInv`
claims, for every call whose record is `Clean`:

- the running interceptor's `got`, once set, is the last terminal result of
  the record;
- the caller's result, once given, is the last terminal result.

It also says that a call's result is a return value or none (which gives
`NoPanic`) and that a call with frames has no result yet. In `DrcpClient` it further says that a
call not issued has no stack and no result. `HasLast`, that a last terminal
event exists, keeps `LastTerm`'s CHOOSE in range.

The step lemmas follow the actions:

- entering a frame adds no terminal event and no `after` event, so the
  record's `LastTerm` and `Clean` keep their values;
- a terminal return appends a terminal event whose result becomes both the
  new `LastTerm` and the `got` of the frame below;
- an interceptor return appends an `after` event. If the record stays
  `Clean`, the result passed down equals the `got` that the invariant
  already ties to `LastTerm`.

`ResultsInv` was checked by TLC on every passing safety configuration
before it was proved.

### Only model-checked

Only TLC checks the following:

- the fairness part of `ChainSpecRefined`, because TLAPS does not handle
  ENABLED or liveness here;
- the violations.

## Not modelled

- The wire protocol, the pool, encodings and payloads. Payload fidelity
  (P4) reduces to the terminal's result being handed back, which is
  ResultFidelity.
- Contexts and cancellation: the layer only passes them through.
- The option closures one by one: they are abstracted to the lists they
  build.
- Nested calls in `DrcpClient`. `clientconn.go:36` also hands the
  interceptor the ClientConn, so nesting is possible there. It works the
  same way as in `DrcpClientConn`, and the defects of `DrcpClient` already
  show without nesting.

## Plan for later work

1. Show that `DrcpClient` refines `ChainSpec` for the unary chain, where
   its stream chain is correct.
2. The option fold as a recursive operator in a TLC-only module, checked
   against the two-list abstraction.
