# TLA+ models of the SmartOracle replay core

This directory holds TLA+ models of the state-materialisation core of
`src/SmartOracle_backend`, the TLC configurations that check them, and
`PROJECT.json`, which records the components, runs, mutants, the source lines
each definition models, the findings and the hazards.

## The system and how its parts interact

SmartOracle replays historical Ethereum transactions in a modified geth VM and
records, for each call frame, the account state the frame read and wrote.

- **TouchCache** (`hunter/trace/account_state.go`, type `AccountState`). It
  keeps maps of touched storage slots, balances, nonces and code, and a
  *committed baseline* (`CommitedAccountState`). The baseline is a deep copy of
  the maps taken by `CommitAccountState`, and the hooks also update it directly
  on a field's first touch.
- **LazyLoader** (`core/vm/interpreter.go`). `beforeOpcodeExecutionHook` runs
  before SLOAD, SSTORE, BALANCE, EXTCODE* and the CALL family. On a field's
  first touch, in RPC mode, it fetches the value as of block-1 from the
  provider, writes it into the StateDB, and records it in the touched map and
  the baseline. `CheckAndSetBalance` re-records the live balance on every call.
  `CheckAndSetCode` has a repair branch: it writes the cached code back when the
  StateDB's code is empty.
- **SnapshotManager** (`opcodeExecutionHook`). Around CALL, CALLCODE,
  DELEGATECALL, STATICCALL, CREATE and CREATE2:
  - it exports a snapshot of the touched maps and executes the opcode;
  - if the opcode returns an error, it calls `RevertAccountState`, which
    restores every touched slot and balance from the snapshot, or from the
    baseline when the snapshot lacks it, and in RPC mode writes the result back
    into the StateDB;
  - otherwise it refreshes the touched balances, and for creates the code, of
    `from` and `to`.
  The `Run` loop breaks on any error the hook returns (interpreter.go:243).
- **Replay drivers**:
  - `hunter/cmd/replayBlock.go` and `replayWithTxHash.go` replay a block's
    transactions in RPC mode, against one StateDB that starts empty, and commit
    the cache after every transaction.
  - `hunter/cmd/replay.go` builds a fresh StateDB from each transaction's
    recorded allocation. It shares one AccountState across transactions and
    never commits it.
- **CallFrameRecorder / DiffReconciler** (`eth/tracers/txTracer/txTracer.go`).
  It builds the call tree. For watched frames it records PreState on first
  access and PostState at frame end, reading only the StateDB. It also tracks
  Created/Deleted sets and JUMPI branches.
- **Provider** (`hunter/rpc/provider.go`). It answers Get*At for `block-1`.
  A failed dial is `log.Fatal`; a failed request yields a zero value.
- **Token extraction** (`hunter/invariant/token.go`, `hunter/cmd/utils.go`).
  After `replayTxListInv`'s transaction, `ParseTxTree` collects every frame's
  `To` and the holders and contracts of every ERC-20 Transfer log. For each
  watched frame, `getBalanceTree` then runs `balanceOf` for every such token
  and holder, on StateDBs rebuilt from the frame's PreState and PostState. It
  also records ether rows, then strips every account but the target.
- **ABI parser** (`hunter/parser`): not built by any package of the
  repository.

## Modules

### `TouchCache` (with `MC_TouchCache`)

The VM is the environment: it chooses which opcode the top frame runs next,
and whether each frame succeeds or fails.

**State.**

| Variable | Corresponds to |
|---|---|
| `dbStorage`, `dbBalance`, `dbCode`, `dbNonce` | the replay's StateDB |
| `touched*Map`, `commited*Map` | AccountState's maps and its committed baseline; the value `NONE` is a missing Go map key |
| `callstack` | the running frames; each frame holds its hook snapshot (`snap`), the VM journal snapshot (`vm`) and a ghost snapshot (`real`) |
| `realStorage`, `realBalance`, `realCode`, `realNonce` | ghost: the state a full-state EVM executing the same steps would hold, starting from the provider's block-1 state |
| `panicked` | the process died: a nil dereference, or the provider's `log.Fatal` |
| `failing` | the top frame's `Run` loop broke on an opcode error |

Code is abstracted to a count of copies of one byte string (`Blob`), so that
the append in `UpdateTouchedCode` remains visible.

**Actions.**

| Action | Models |
|---|---|
| `TxStart(to)` | a transaction starts; in RPC mode the target's code, balance and nonce are loaded (`SetCodeBalanceNonce`) |
| `SLoad`, `SStore`, `Balance`, `ExtCode` | the corresponding pre-hooks; under STATICCALL an SSTORE runs its pre-hook (`SStorePreHook`) and then fails |
| `Call(kind, to, v)` | CALL/CALLCODE/DELEGATECALL/STATICCALL: pre-hook, snapshot, then a refused CALL with value under STATICCALL, an immediate failure for lack of balance, or entering the callee (CALLCODE and DELEGATECALL in the caller's context) |
| `Create(kind, x, v)` | CREATE/CREATE2: snapshot, then failing at once for lack of balance, or `evm.create`'s creator nonce bump, journal snapshot, nonce 1 for `x`, transfer |
| `Return(ok)` | the VM's success or journal revert, then the caller's `OpcodeExecutionHook` |
| `TxEnd(ok)` | the VM's transaction rollback, then `CommitAccountState` |
| `ProviderDialFails` | a lazy fetch is due (`NeedsFetch`: some field the next hook can touch is untouched) and the provider's `ethclient.Dial` fails: `log.Fatal` ends the process |

Every action is a whole handler: for example, `Call` contains the pre-hook's
`CheckAndSetCode`, `CheckAndSetBalance` and `CheckAndSetNonce`, the
snapshot, and, on immediate failure, the hook's revert.

**Assumptions about code outside the repository.**
- The transaction set-up (`ApplyMessageTrace`) loads its target the way the
  CALL pre-hook does, through `SetCodeBalanceNonce`.
- `evm.create` follows upstream geth. It checks the balance first, then bumps
  the creator's nonce, then takes the journal snapshot, and then gives the new
  account nonce 1. The bump therefore survives a failure of the create itself.
- The opcodes enforce STATICCALL's write protection. Geth moved that check
  out of `Run` and into the opcodes, and the `Run` loop here has none.
  SSTORE, CREATE and CALL with value then fail with an error of their own,
  which the hook sees whatever `SubcallErrorReported` says. A frame is
  `static` when it or one of its callers was entered by STATICCALL.

**Constant `SubcallErrorReported`.** `opCall` and `opCreate` are not in this
repository:
- In upstream geth they report a failed sub-call by pushing 0 and return a nil
  error. The hook's revert then never runs: `FALSE`.
- The hook is written as if they return the error (spec section 4.2): `TRUE`.
  Then `Run` breaks, and the caller fails as well.

Both are checked.

**Provider faults (constant `ProviderFaults`).** Every `Get*At` of
`hunter/rpc/provider.go` dials the endpoint again; a dial error is `log.Fatal`.
A request error, on the other hand, is discarded (`value, _ :=`), and the
provider returns a zero value (a zero balance, nil code, a zero slot). That
zero is the soft failure the spec accepts. It is not modelled: it agrees with
the history only where the historical value is zero, and elsewhere a run would
only restate that the replayed state then differs from the chain's. Only the
dial failure is a fault, and it is enabled exactly when the next hook would
fetch.

**Drivers.** `RequireRPC = TRUE` is `replayBlock`/`replayWithTxHash`: one
StateDB for the block, filled through the provider, and `CommitAccountState`
after every transaction. `RequireRPC = FALSE` is `replay.go`: each
transaction's StateDB is its input allocation (`InputAlloc`), and the shared
AccountState is never committed (`CommitsAfterTx`).

### `TxTracer` (with `MC_TxTracer`)

This module models the recorder as `hunter/cmd/replayInv.go` runs it: one
transaction on a StateDB built from its full allocation, with
`SetIsRecordState` and one watched address. That is the only driver that
switches state recording on; the RPC drivers build their tracer without it.
No lazy-loading hooks run here, so the tracer reads a complete StateDB.

**State.**

| Variable | Corresponds to |
|---|---|
| `storage`, `balance`, `code`, `nonce` | the StateDB the tracer reads through `t.env.StateDB` |
| `vmstack` | the VM's frames: context address, code address, tracer frame id, journal snapshot |
| `frames` | the `trace.CallFrame`s, in creation order: `IsState`, `PreState`, `PostState`, `Created`, `Deleted`, error, whether closed, `Logs` (ERC-20 Transfer logs, as a set), `PreTokenBalance`/`PostTokenBalance` and their ether rows; plus two ghosts: `entry`, the world state just before the frame's value transfer (for the transaction, before the sender's nonce bump), and, for a watched frame, `exit`, the state `handleCallEnd` read |
| `callstack`, `statedCall` | `t.callstack` and `t.statedCall`, as frame ids |
| `halted` | the top frame executed SELFDESTRUCT |
| `tracerPanic` | `lookupStorage` dereferenced a nil account |
| `extracted` | `replayTxListInv` has run the token extraction |

**Actions.** Each action is the VM step together with every hook it calls.

| Action | Models |
|---|---|
| `Start(kind, to, v)` | the sender's nonce bump; for a creation transaction (`kind = "CREATE"`, allowed by the constant `TxKinds`) `evm.create`'s new contract at the free address `to` with nonce 1; the transfer; then `CaptureStart`: seed `from`/`to`, undo the transfer and the bump (`UndoNonceBump`, `Nonce--`) in PreState, and for a creation mark `to` Created |
| `SLoad`, `SStore` | `CaptureState`'s `lookupStorage` in every stated frame, then the opcode |
| `AccountOp(a)` | BALANCE/EXTCODE*: `lookupAccount` in every stated frame |
| `SelfDestruct(b)` | lookup of `b`, `Deleted[self]` in every stated frame, the SELFDESTRUCT child frame, the balance move; the frame stops |
| `Call(kind, to, v)` | CALL/DELEGATECALL: lookup of `to`; if `CanTransfer` fails, nothing more; otherwise the transfer, then `CaptureEnter` (stated only for CALL to a watched address, or from one while a stated frame is open, inheriting the parent's addresses) |
| `Create(x, v)` | CREATE: lookup and `Created[x]` in every stated frame, then, if the balance suffices, the creator's nonce bump, the new account (nonce 1) and `CaptureEnter` (never stated) |
| `Return(ok)`, `End(ok)` | the VM's revert or code deposit, then `CaptureExit`/`CaptureEnd` with `handleCallEnd` |
| `LogTransfer(p, q)` | LOG3 of a Transfer from `p` to `q`: `CaptureState` appends it to the innermost frame's `Logs`, with the running contract as its address |
| `Extract` | after the transaction, whatever its error: `ParseTxTree` (`RelatedAddress`, `RelatedToken`, a walk over `Calls` via the recursive `TreeIds`), then `getBalanceTree`: for each watched frame of the tree, `getBalance` on its PreState and PostState, `recordEth`, `removeUnrelatedState` |

`BalanceOf` models one `balanceOf` execution on the StateDB that
`MakeOffTheChainStateDBWithAccountState` rebuilds from a State. A token's
`balanceOf(h)` is taken to read one slot, `BalanceSlot[h]`. An account
missing from the State, or without code, returns no data; `SetString`
rejects that, so there is no entry. A slot the State does not hold reads 0.
Which token code runs is outside the repository. A reverting `balanceOf` is
not modelled (see the hazard at utils.go:189). Logs other than Transfer are
not modelled, because `parseEvent` ignores them. Since `removeUnrelatedState`
strips PreState and PostState, the recorder's properties are stated over the
states before `Extract`.

Each frame record also holds `calls`, the ids of its finished sub-calls in
the order `CaptureExit` appended them (`AppendCall`, txTracer.go:287).

The pair of `CaptureEnter`/`CaptureExit` calls that `opSelfdestruct` emits
runs with no step in between. It is never stated (its type is not CALL), so
it records no state, but it does append a closed SELFDESTRUCT frame, whose
`To` is the beneficiary, to the current frame's `Calls` (`SelfDestructCall`).
`ParseTxTree` later reads that `To`.

### `CallTree` (abstract)

What the recorder promises (spec section 4.3): frames are entered and left in
stack order (`Begin`, `Enter(w)`, `Exit`, `Finish`, and `Leaf` for a frame
entered and left at once); a frame that returns
becomes the last child of the frame below it; and `stated` is, by
definition, the open frames that record state (`SelectSeq` over `open`). It
has no push or pop of a stated stack. `TxTracer` instantiates it as `CT` with
the mapping:
- `open` is `t.callstack` without closed frames (the root stays in
  `t.callstack` after `CaptureEnd`);
- `calls` is every frame's `calls`;
- `watched` is every frame's `IsState`;
- `stated` is `t.statedCall`.

`CallTreeRefined` (`CT!Spec`) is checked in `tracer_prestate`. Every VM step
that does not enter or leave a frame is a stuttering step of `CallTree`.

## Runs

| Run | Expect | Shows |
|---|---|---|
| `cache_rpc` | pass | TypeOK, `TouchedStorageIsTrue` and `TouchedBalanceIsTrue` in RPC mode with errors reported, CREATE endowments excluded (`CreateValue = {0}`) and provider failures enabled: every touched slot and balance agrees between the cache, the StateDB and a full-state EVM whenever an opcode can run (about 1,088,000 distinct states, 75 seconds). What this covers is the success path: lazy loads, SSTORE baselines, value transfers, nested calls and the refresh after each successful call. With errors reported, a cache revert sets the frame failing, and every enclosing frame fails until the transaction ends; with `MaxTx = 1` no transaction follows a commit. So no checked state ever follows a revert or a commit. Those paths are where the two properties break: `failed_subcall`, `failed_tx_rpc` and `revert_panic`. The stale snapshot balances a resync writes back (interpreter.go:304) are real, but the error cascade undoes them before anything reads them |
| `balance_endowment` | violation | a CREATE endowment is overwritten by the block-1 balance on the new address's first balance touch |
| `failed_tx_rpc` | violation | with two transactions: a slot loaded by a failed transaction is committed as touched while the VM's rollback removed it, and the next transaction sees 0 |
| `code_resurrect` | violation | code deployed by a failed transaction is written back by `CheckAndSetCode`'s repair branch in the next transaction |
| `revert_panic` | violation | a contract created in a sub-call that then fails makes `GetCommittedBalance` dereference nil |
| `failed_subcall` | violation | with upstream geth's error convention, a slot written in a failed sub-call stays cached with the value the VM undid |
| `create_nonce_refetch` | violation | `CreatorNonceIsTrue`: a CALL into a contract whose constructor is still running makes `CheckAndSetNonce` replace its nonce 1 with the block-1 nonce 0. A CREATE in that constructor then derives its address (interpreter.go:313) from 0, not 1. No endowment is needed (`CreateValue = {0}`) |
| `tracer_prestate` | pass | TypeOK, `PreStateIsEntryState` (every recorded account and slot of a watched frame holds its value at the frame's entry, through CaptureStart's nonce and value adjustment, CaptureEnter's value adjustment, inheritance and first-access-only lookups while sub-calls change state), `NoTracerPanic` (every context that runs SLOAD/SSTORE under a watched frame was looked up first), `TokenDeltaIsTrue` (for every token and holder, and every ether row, present in both of a watched frame's tables, post minus pre is the change the VM made between the frame's entry and exit, although the tables are computed on partial states where untouched slots read 0), and `CallTreeRefined`: the pushes and conditional pops of `t.statedCall` and the appends to `Calls` implement `CallTree`. Message calls only (`TxKinds = {"CALL"}`): a creation transaction breaks `PreStateIsEntryState` at its first step, as `tracer_create_tx` shows (about 1,700,000 distinct states, 2 minutes 20 seconds; `MaxFrames = 4` takes far longer) |
| `tracer_created_pruned` | violation | a contract whose constructor touches storage stays in PreState: `Exists` counts recorded slots, even those with value 0 |
| `tracer_create_tx` | violation | `CreatedPruned` with creation transactions (`TxKinds = {"CREATE"}`) whose new contract `x` is watched: `CaptureStart` runs after `evm.create` has set the contract's nonce to 1, so `lookupAccount` records nonce 1, `Exists` holds and the contract stays in the root frame's finalised PreState |
| `tracer_deleted_excluded` | violation | a contract created and self-destructed under a watched frame is in Deleted but pruned from PreState |
| `tracer_failed_frame_unchanged` | violation | (the sender's nonce bump of a failed transaction is exempt, like the gas the spec names) a failed watched frame that attempted a CREATE, even one refused for lack of balance, lists the empty address in PostState but not in PreState |

Every property of a passing run has a mutant in `PROJECT.json`. Each mutant is
a plausible bug in the modelled code, and TLC reports it as a violation:
- `UpdateTouchedCode` recording empty code;
- `SLoadHook` refetching a touched slot;
- `CheckAndSetBalance` refetching a touched balance;
- `SeedPreState` applying the value adjustment with swapped signs;
- `CaptureStart` without `Nonce--` (`UndoNonceBump`);
- `lookupAccount` re-reading an account already in PreState;
- `handleCallEnd` re-reading every slot of an account for PostState, not only
  the slots PreState recorded (caught by `TokenDeltaIsTrue`);
- CaptureState's CALL case not looking up the callee;
- `CaptureExit` popping `t.statedCall` for an unstated frame too.

## Bounds

The bounds are in `MC_TouchCache` and the `.cfg` files:
- Three addresses: two deployed contracts (a1 holding balance 1) and one fresh
  address (a3), which a CREATE can deploy to. Each failure mode needs a caller,
  a callee and a created account, so three is the smallest set that contains
  them all.
- One storage key whose block-1 value (1) differs from the SSTORE values
  {0, 2}, so a lost or stale value is always visible.
- Value transfers {0, 1}.
- Call depth 3 (a transaction frame plus two nested calls, the shape every
  finding needs).
- At most 5 opcodes per transaction, and 1 or 2 transactions.

For `TxTracer` (`MC_TxTracer`, `tracer_*.cfg`):
- Four addresses: the sender `s`, the watched contract `t`, an unwatched
  contract `c` and an empty address `x` for CREATE. Covering both ways a frame
  becomes stated takes a watched and an unwatched contract: a call to `t`, and
  a call from `t` while a stated frame is open.
- One key, SSTORE value 2, and values {0, 1}. Every holder's token balance
  is in that key (`MCBalanceSlot`), so any write to a token shows in its
  table. Transfer logs name the sender `s` (`LogParty = {s}`); the holders
  that calls add (`t`, `c`, `x`) make the table wider, not different.
- At most 3 VM frames, 3 call frames (a SELFDESTRUCT frame counts) and 5 opcodes per transaction. A mutant
  of every passing property is caught within these bounds, and each finding
  needs at most two frames and two opcodes.

No symmetry is used, because the addresses have different historical state.
Deadlock checking is off, because a replay ends after `MaxTx` transactions and
the process ends on a panic. In `TxTracer` the
model stops after its one transaction, as `replayTxListInv` replays one
transaction per StateDB.

## Fairness

`TouchCache` has no liveness property. The replay is one sequential thread:
the hooks run synchronously inside the interpreter loop, and gas bounds every
frame, so weak fairness on `Next` would be the justified assumption. Under it,
the only question worth asking is whether the batch finishes. It does
unless `ethclient.Dial` fails, and then `log.Fatal` ends it in one step
(`ProviderDialFails`). A property over that step would only restate the
`log.Fatal` at provider.go:26, so the disagreement with the spec's soft
provider errors is listed as a hazard instead.

`TxTracer` has no liveness property. Its runs are bounded by `MaxOps` and
`MaxFrames`, so every frame closes in the model by construction. Checking
`CallTree` with weak fairness on `Exit` and `Finish` passed, but took four
times as long, and it showed nothing that the bounds do not already force.

## Not modelled yet (plan for later sittings)

- **CREATE address derivation**: `Create` chooses the fresh address and does
  not hash the nonce. `CreatorNonceIsTrue` checks the nonce the derivation
  reads. `replay.go`'s mode (`RequireRPC = FALSE`) is modelled, but no run
  instantiates it. Its code resurrection goes through the same repair branch
  as `code_resurrect`.
- **No passing nonce property in `TouchCache`**: every run where nonces could be checked is
  cut short by `create_nonce_refetch`'s refetch. A failed CREATE's nonce bump
  also outlives `RevertAccountState`'s nonce loop, which restores the
  pre-bump nonce. That mismatch is masked in the model: with errors reported,
  the creator's frame fails as well; with upstream geth's convention, the hook
  never reverts.
- **SELFDESTRUCT in `TouchCache`**: its `executeHook` is not in this
  repository.
- **In `TxTracer`**:
  - logs other than ERC-20 Transfer, and `clearFailedLogs`. Nothing calls
    `clearFailedLogs`, so a failed frame keeps its logs and `ParseTxTree`
    reads them;
  - JUMPI branch records and `CallLocation`. `CallLocation` is the stale
    or zero `tmpCallLocation` for a frame entered while no watched frame is
    open, or entered by CREATE (see the hazard at txTracer.go:231). Neither
    the spec nor any reader of the field says what it should hold, so no
    property states it;
  - STATICCALL/CALLCODE;
  - CREATE2, whose only difference is address derivation;
  - a property that a successful watched frame's PostState lists every
    account that still exists (see the reverted-SELFDESTRUCT hazard).
- **The recorder over the lazy StateDB**: a tracer reading a StateDB that
  `TouchCache` fills on demand. No driver of this repository combines them.
- **An abstract full-state EVM** with a refinement mapping: a touched field's
  view is the StateDB value; an untouched field's view is the provider's
  value.
- **Not modelled at all**:
  - JSON dumps. `replayBlock` dumps only after its loop, so a consensus
    error from `ApplyMessageTrace` (replayBlock.go:93) discards the traces of
    the block's earlier transactions. The pre-execution checks that raise it
    are outside the repository;
  - BLOCKHASH: `getHashRPCFn` (utils.go:44) ignores the header request's
    error, and hashing the resulting nil header gives a wrong non-zero hash;
  - ABI parsing (`hunter/parser`). No package of the repository imports
    it. It uses `vm.ExternalTx`, `vm.InternalTx` and `vm.Event`, which the
    repository's `core/vm` does not define. The spec puts ABI decoding out
    of scope;
  - in the token extraction: `BalanceMsg`'s ABI packing, `executeMsg`'s gas
    and fee setup, and `ApplyMessage`'s consensus errors, which end the
    process through `os.Exit(100)` (utils.go:195). Reverting or multi-slot `balanceOf`
    implementations are also not modelled.
