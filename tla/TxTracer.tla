---------------------------- MODULE TxTracer ----------------------------
(***************************************************************************)
(* The CallFrameRecorder and DiffReconciler of                             *)
(* eth/tracers/txTracer/txTracer.go, with state recording switched on as   *)
(* hunter/cmd/replayInv.go does it (SetIsRecordState, one watched address  *)
(* set, a StateDB built from the transaction's full allocation, no lazy    *)
(* loading hooks).                                                         *)
(*                                                                         *)
(* The VM is the environment: it chooses the opcode the top frame runs and *)
(* whether each frame succeeds.  The world state (storage, balance, code,  *)
(* nonce) is the StateDB the tracer reads through t.env.StateDB.  A frame  *)
(* record holds the trace.CallFrame fields the recorder writes (IsState,   *)
(* PreState, PostState, Created, Deleted, Error, Logs, the token tables)   *)
(* and two ghost fields: entry, the world state just before the frame's    *)
(* value transfer (for the transaction, before its sender's nonce bump),   *)
(* and, for a frame that records state, exit, the state handleCallEnd      *)
(* read.  Logs are ERC-20 Transfer logs; gas, JUMPI branches and call      *)
(* locations are not modelled.                                             *)
(*                                                                         *)
(* After the transaction, replayTxListInv runs the token extraction of     *)
(* hunter/invariant/token.go and hunter/cmd/utils.go over the finished     *)
(* tree: Extract.                                                          *)
(***************************************************************************)
EXTENDS Integers, Sequences, FiniteSets, SequencesExt

CONSTANTS
    Addr,          \* accounts
    Key,           \* storage keys
    NONE,          \* a missing Go map key
    Sender,        \* the transaction's externally owned sender
    Target,        \* the watched addresses (AddTargetAddress)
    InitStorage,   \* the transaction's allocation
    InitBalance,
    InitCode,
    InitNonce,
    StoreVal,      \* values SSTORE writes
    CallValue,     \* values a CALL, CREATE or transaction transfers
    MaxDepth,      \* bound on VM frames
    MaxFrames,     \* bound on call frames per transaction
    MaxOps,        \* bound on opcodes per transaction
    BalanceSlot,   \* the slot a token's balanceOf(h) reads, for each holder h
    LogParty,      \* the holders a Transfer log may name
    TxKinds        \* "CALL": message calls; "CREATE": creation transactions

ASSUME Sender \in Addr /\ Target \subseteq Addr /\ NONE \notin Nat
ASSUME BalanceSlot \in [Addr -> Key] /\ LogParty \subseteq Addr
ASSUME TxKinds \subseteq {"CALL", "CREATE"}

VARIABLES
    storage, balance, code, nonce,   \* the StateDB
    vmstack,     \* VM frames: ctx, code address, tracer frame id, journal snapshot
    frames,      \* trace.CallFrame records, indexed by creation order
    callstack,   \* t.callstack, as frame ids
    statedCall,  \* t.statedCall, as frame ids
    halted,      \* the top VM frame executed SELFDESTRUCT
    ops,         \* opcodes executed so far
    tracerPanic, \* the recorder dereferenced a nil account
    extracted    \* replayTxListInv has run the token extraction

vars == <<storage, balance, code, nonce, vmstack, frames, callstack, statedCall,
          halted, ops, tracerPanic, extracted>>

\* Code is empty (0) or one non-empty byte string (Blob).
Blob == 1
Opt(S) == S \cup {NONE}

World == [storage |-> storage, balance |-> balance, code |-> code, nonce |-> nonce]

WorldRec == [storage : [Addr -> [Key -> Nat]], balance : [Addr -> Nat],
             code : [Addr -> {0, Blob}], nonce : [Addr -> Nat]]

Account == [balance : Opt(Nat), code : {0, Blob}, nonce : Nat, storage : [Key -> Opt(Nat)]]

\* An empty trace.State.
NoState == [a \in Addr |-> NONE]

\* An ERC-20 Transfer log (topic 0 the Transfer signature, three topics):
\* the emitting contract and the two holders it names.
LogRec == [address : Addr, from : Addr, to : Addr]

\* A token-balance table, token -> holder -> amount, NONE where it has no
\* entry; and its absence (PreTokenBalance of a frame that records nothing).
Table == [Addr -> [Addr -> Opt(Nat)]]
NoTable == [a \in Addr |-> [h \in Addr |-> NONE]]

FrameRec ==
    [type : {"CALL", "DELEGATECALL", "CREATE", "SELFDESTRUCT"}, from : Addr,
     to : Opt(Addr),
     isState : BOOLEAN, pre : [Addr -> Opt(Account)],
     post : [Addr -> Opt(Account)], created : SUBSET Addr,
     deleted : SUBSET Addr, err : BOOLEAN, closed : BOOLEAN,
     calls : Seq(Nat), logs : SUBSET LogRec,
     preTok : Table, postTok : Table,
     preEth : [Addr -> Opt(Nat)], postEth : [Addr -> Opt(Nat)],
     entry : WorldRec, exit : WorldRec]

TypeOK ==
    /\ storage \in [Addr -> [Key -> Nat]]
    /\ balance \in [Addr -> Nat]
    /\ code \in [Addr -> {0, Blob}]
    /\ nonce \in [Addr -> Nat]
    /\ vmstack \in Seq([ctx : Addr, codeAddr : Addr, init : BOOLEAN,
                        id : Nat, snap : WorldRec])
    /\ frames \in Seq(FrameRec)
    /\ callstack \in Seq(DOMAIN frames)
    /\ statedCall \in Seq(DOMAIN frames)
    /\ halted \in BOOLEAN
    /\ ops \in 0..MaxOps
    /\ tracerPanic \in BOOLEAN
    /\ extracted \in BOOLEAN

StatedIds == Range(statedCall)

(***************************************************************************)
(* Account records and their lookups.                                      *)
(***************************************************************************)

\* Account.Exists: a looked-up storage key counts, whatever its value.
Exists(acct) ==
    \/ acct.nonce > 0
    \/ acct.code # 0
    \/ \E k \in Key : acct.storage[k] # NONE
    \/ acct.balance # 0

NewAccount(a, w) ==
    [balance |-> w.balance[a], code |-> w.code[a], nonce |-> w.nonce[a],
     storage |-> [k \in Key |-> NONE]]

\* Mutant: lookupAccount re-reading an account already in the PreState.
lookupAccountOverwrite(pre, a, w) == [pre EXCEPT ![a] = NewAccount(a, w)]

\* lookupAccount: add a to the PreState unless it is already there.
lookupAccount(pre, a, w) ==
    IF pre[a] # NONE THEN pre ELSE [pre EXCEPT ![a] = NewAccount(a, w)]

\* lookupStorage; the caller checks that pre[a] exists (else nil dereference).
lookupStorage(pre, a, k, w) ==
    IF pre[a].storage[k] # NONE THEN pre
    ELSE [pre EXCEPT ![a].storage[k] = w.storage[a][k]]

\* Mutant: the value adjustments applied with their signs swapped.
SeedPreStateSwapped(from, to, v, inherit, w) ==
    LET p0 == lookupAccount(lookupAccount(NoState, from, w), to, w)
        p1 == [a \in Addr |-> IF a \in inherit \ {from, to} /\ p0[a] = NONE
                                THEN NewAccount(a, w) ELSE p0[a]]
    IN  [[p1 EXCEPT ![to].balance = @ + v] EXCEPT ![from].balance = @ - v]

\* The PreState seeded by CaptureStart / CaptureEnter for a stated frame:
\* from and to, then the inherited parent addresses, then the value
\* adjustments, in the code's order.
SeedPreState(from, to, v, inherit, w) ==
    LET p0 == lookupAccount(lookupAccount(NoState, from, w), to, w)
        p1 == [a \in Addr |-> IF a \in inherit \ {from, to} /\ p0[a] = NONE
                                THEN NewAccount(a, w) ELSE p0[a]]
        p2 == [p1 EXCEPT ![to].balance = @ - v]
    IN  [p2 EXCEPT ![from].balance = @ + v]

NewFrame(type, from, to, isState, pre, entry) ==
    [type |-> type, from |-> from, to |-> to, isState |-> isState,
     pre |-> pre, post |-> NoState, created |-> {}, deleted |-> {},
     err |-> FALSE, closed |-> FALSE, calls |-> << >>, logs |-> {},
     preTok |-> NoTable, postTok |-> NoTable, preEth |-> NoState,
     postEth |-> NoState, entry |-> entry, exit |-> entry]

\* Mutant: PostState re-reading every slot of an account, not only the
\* slots its PreState recorded.
handleCallEndAllKeys(f, w) ==
    LET post == [a \in Addr |->
                   IF f.pre[a] = NONE \/ a \in f.deleted THEN NONE
                   ELSE [balance |-> w.balance[a], code |-> w.code[a],
                         nonce |-> w.nonce[a],
                         storage |-> [k \in Key |-> w.storage[a][k]]]]
        pre == [a \in Addr |->
                  IF a \in f.created /\ f.pre[a] # NONE /\ ~Exists(f.pre[a])
                  THEN NONE ELSE f.pre[a]]
    IN  [f EXCEPT !.post = post, !.pre = pre]

\* handleCallEnd: PostState from the live StateDB for every PreState address
\* not Deleted, then drop the Created addresses whose PreState does not
\* Exist.
handleCallEnd(f, w) ==
    LET post == [a \in Addr |->
                   IF f.pre[a] = NONE \/ a \in f.deleted THEN NONE
                   ELSE [balance |-> w.balance[a], code |-> w.code[a],
                         nonce |-> w.nonce[a],
                         storage |-> [k \in Key |->
                                        IF f.pre[a].storage[k] = NONE THEN NONE
                                        ELSE w.storage[a][k]]]]
        pre == [a \in Addr |->
                  IF a \in f.created /\ f.pre[a] # NONE /\ ~Exists(f.pre[a])
                  THEN NONE ELSE f.pre[a]]
    IN  [f EXCEPT !.post = post, !.pre = pre]

(***************************************************************************)
(* CaptureState's state-recording loop over t.statedCall, one operator per *)
(* case of its switch, each a loop over the stated frames.  It runs       *)
(* before the opcode, so it reads the current StateDB.                    *)
(***************************************************************************)
\* SLOAD / SSTORE of slot k of contract c.
CaptureStateStorage(c, k) ==
    [i \in DOMAIN frames |->
       IF i \in StatedIds
       THEN [frames[i] EXCEPT !.pre = lookupStorage(@, c, k, World)]
       ELSE frames[i]]

\* lookupStorage assumes lookupAccount(c) was done in every stated frame.
StorageLookupPanics(c) == \E i \in StatedIds : frames[i].pre[c] = NONE

\* BALANCE / EXTCODESIZE / EXTCODECOPY / EXTCODEHASH of a.
CaptureStateAccount(a) ==
    [i \in DOMAIN frames |->
       IF i \in StatedIds
       THEN [frames[i] EXCEPT !.pre = lookupAccount(@, a, World)]
       ELSE frames[i]]

\* SELFDESTRUCT by c to beneficiary b.
CaptureStateSelfDestruct(c, b) ==
    [i \in DOMAIN frames |->
       IF i \in StatedIds
       THEN [frames[i] EXCEPT !.pre = lookupAccount(@, b, World),
                                !.deleted = @ \cup {c}]
       ELSE frames[i]]

\* Mutant: the CALL case not looking the callee up.
CaptureStateCallNoLookup(a) == frames

\* CALL / DELEGATECALL to a.
CaptureStateCall(a) ==
    [i \in DOMAIN frames |->
       IF i \in StatedIds
       THEN [frames[i] EXCEPT !.pre = lookupAccount(@, a, World)]
       ELSE frames[i]]

\* CREATE of the predicted address x.
CaptureStateCreate(x) ==
    [i \in DOMAIN frames |->
       IF i \in StatedIds
       THEN [frames[i] EXCEPT !.pre = lookupAccount(@, x, World),
                                !.created = @ \cup {x}]
       ELSE frames[i]]

(***************************************************************************)
(* The call hooks.  w is the StateDB the hook reads: after the value       *)
(* transfer on entry, after the VM's revert on exit.  entry is the ghost   *)
(* state before the transfer.                                              *)
(***************************************************************************)

\* Mutant: CaptureStart not undoing the sender's nonce bump.
UndoNonceBumpMissing(pre, from) == pre

\* CaptureStart's PreState[from].Nonce--: the state transition has already
\* bumped the sender's nonce.
UndoNonceBump(pre, from) == [pre EXCEPT ![from].nonce = @ - 1]

\* CaptureStart for a transaction from -> to with value v (isRecordState):
\* a creation transaction makes the root frame a CREATE, and, when it is
\* stated, marks to Created after the PreState is seeded.
CaptureStart(from, to, create, v, w, entry) ==
    LET isState == to \in Target
        pre == IF isState THEN UndoNonceBump(SeedPreState(from, to, v, {}, w), from)
               ELSE NoState
        root == NewFrame(IF create THEN "CREATE" ELSE "CALL", from, to, isState,
                         pre, entry)
    IN  /\ frames' = << [root EXCEPT !.created = IF isState /\ create THEN {to}
                                                ELSE {}] >>
        /\ callstack' = << 1 >>
        /\ statedCall' = IF isState THEN << 1 >> ELSE << >>

\* CaptureEnter on the frames fs left by CaptureState.
CaptureEnter(fs, typ, from, to, v, w, entry) ==
    LET flag1 == to \in Target
        flag2 == statedCall # << >> /\ from \in Target
        isState == typ = "CALL" /\ (flag1 \/ flag2)
        inherit == IF flag2
                   THEN {a \in Addr : fs[Last(statedCall)].pre[a] # NONE}
                   ELSE {}
        pre == IF isState THEN SeedPreState(from, to, v, inherit, w)
               ELSE NoState
        id == Len(fs) + 1
    IN  /\ frames' = Append(fs, NewFrame(typ, from, to, isState, pre, entry))
        /\ callstack' = Append(callstack, id)
        /\ statedCall' = IF isState THEN Append(statedCall, id) ELSE statedCall

\* processOutput: the frame's Error is set when err is non-nil, and a failed
\* CREATE loses its To (output and revert reason are not modelled).
processOutput(f, failed) ==
    [f EXCEPT !.err = failed,
              !.to = IF failed /\ f.type = "CREATE" THEN NONE ELSE @]

\* Mutant: t.statedCall popped whether or not the closing frame is stated.
PopStatedAlways(f) == Front(statedCall)

\* The pop of t.statedCall when the closing frame f records state.
PopStated(f) == IF f.isState THEN Front(statedCall) ELSE statedCall

\* Closing frame id of fs: processOutput's error, then handleCallEnd if
\* stated.
CloseFrame(fs, id, failed, w) ==
    LET f == [processOutput(fs[id], failed) EXCEPT !.closed = TRUE]
    IN  /\ frames' = [fs EXCEPT ![id] = IF f.isState
                                        THEN handleCallEnd([f EXCEPT !.exit = w], w)
                                        ELSE f]
        /\ statedCall' = PopStated(f)

\* The popped frame appended to the Calls of the frame below it.
AppendCall ==
    LET parent == callstack[Len(callstack) - 1]
    IN  [frames EXCEPT ![parent].calls = Append(@, Last(callstack))]

\* CaptureExit: pop t.callstack, close the popped frame and append it to
\* its caller's Calls.
CaptureExit(failed, w) ==
    /\ CloseFrame(AppendCall, Last(callstack), failed, w)
    /\ callstack' = Front(callstack)

\* The CaptureEnter / CaptureExit pair opSelfdestruct emits, from the
\* self-destructing context to the beneficiary b: a SELFDESTRUCT frame,
\* never stated (typ # CALL), closed at once without error and appended to
\* the Calls of the current frame.
SelfDestructCall(fs, from, b) ==
    LET id == Len(fs) + 1
        leaf == [NewFrame("SELFDESTRUCT", from, b, FALSE, NoState, World)
                   EXCEPT !.closed = TRUE]
    IN  Append([fs EXCEPT ![Last(callstack)].calls = Append(@, id)], leaf)

\* CaptureEnd: close the root frame.
CaptureEnd(failed, w) ==
    /\ CloseFrame(frames, 1, failed, w)
    /\ UNCHANGED callstack

(***************************************************************************)
(* The VM (geth's EVM.Call / EVM.create / opSelfdestruct, outside this     *)
(* repository) driving the hooks above.                                    *)
(***************************************************************************)
\* NewTxTracer, then SetIsRecordState (AddTargetAddress is the constant
\* Target): no call frame and nothing stated yet.
NewTxTracer ==
    /\ frames = << >>
    /\ callstack = << >>
    /\ statedCall = << >>
    /\ tracerPanic = FALSE

\* replayTxListInv: a StateDB made from the transaction's allocation.
Init ==
    /\ storage = InitStorage
    /\ balance = InitBalance
    /\ code = InitCode
    /\ nonce = InitNonce
    /\ vmstack = << >>
    /\ NewTxTracer
    /\ halted = FALSE
    /\ ops = 0
    /\ extracted = FALSE

Transfer(w, from, to, v) ==
    [w EXCEPT !.balance[from] = @ - v, !.balance[to] = @ + v]

Top == Last(vmstack)
Ctx == Top.ctx
HasCode(t) == t.init \/ code[t.codeAddr] # 0

\* The top frame can execute another opcode.
Running ==
    /\ vmstack # << >>
    /\ HasCode(Top)
    /\ ~halted
    /\ ~tracerPanic
    /\ ops < MaxOps

SetWorld(w) ==
    /\ storage' = w.storage
    /\ balance' = w.balance
    /\ code' = w.code
    /\ nonce' = w.nonce

\* The transaction: the sender's nonce bump, then for a message call the
\* transfer, or for a creation transaction evm.create's snapshot, the new
\* contract at the free address to (fresh storage, nonce 1) and the
\* transfer; then CaptureStart.
Start(kind, to, v) ==
    /\ frames = << >>
    /\ to # Sender
    /\ balance[Sender] >= v
    /\ kind = "CREATE" => code[to] = 0 /\ nonce[to] = 0
    /\ LET create == kind = "CREATE"
           bumped == [World EXCEPT !.nonce[Sender] = @ + 1]
           made == IF create
                   THEN [bumped EXCEPT !.storage[to] = [k \in Key |-> 0],
                                       !.nonce[to] = 1]
                   ELSE bumped
           w == Transfer(made, Sender, to, v)
       IN  /\ SetWorld(w)
           /\ vmstack' = << [ctx |-> to, codeAddr |-> to, init |-> create,
                             id |-> 1, snap |-> bumped] >>
           /\ CaptureStart(Sender, to, create, v, w, World)
    /\ UNCHANGED <<halted, ops, tracerPanic>>

\* SLOAD / SSTORE: CaptureState's lookupStorage in every stated frame, which
\* dereferences nil when the context is missing from one of them; then the
\* opcode, writing newVal for an SSTORE.
StorageOp(k, newVal) ==
    /\ Running
    /\ IF StorageLookupPanics(Ctx)
       THEN /\ tracerPanic' = TRUE
            /\ UNCHANGED <<frames, storage>>
       ELSE /\ frames' = CaptureStateStorage(Ctx, k)
            /\ storage' = IF newVal = NONE THEN storage
                          ELSE [storage EXCEPT ![Ctx][k] = newVal]
            /\ UNCHANGED tracerPanic
    /\ ops' = ops + 1
    /\ UNCHANGED <<balance, code, nonce, vmstack, callstack, statedCall, halted>>

SLoad(k) == StorageOp(k, NONE)
SStore(k, v) == StorageOp(k, v)

\* BALANCE / EXTCODE* of a: only the tracer's lookup changes state.
AccountOp(a) ==
    /\ Running
    /\ frames' = CaptureStateAccount(a)
    /\ ops' = ops + 1
    /\ UNCHANGED <<storage, balance, code, nonce, vmstack, callstack, statedCall,
                   halted, tracerPanic>>

\* LOG3 of an ERC-20 Transfer from p to q: CaptureState appends the log,
\* with the executing contract as its address, to the Logs of the innermost
\* frame of t.callstack.  Their order and repetitions are output only
\* (ParseTxTree reads each log on its own), so Logs is kept as a set.
LogTransfer(p, q) ==
    /\ Running
    /\ frames' = [frames EXCEPT ![Last(callstack)].logs =
                    @ \cup {[address |-> Ctx, from |-> p, to |-> q]}]
    /\ ops' = ops + 1
    /\ UNCHANGED <<storage, balance, code, nonce, vmstack, callstack, statedCall,
                   halted, tracerPanic>>

\* SELFDESTRUCT to b: CaptureState's lookup of b and Deleted mark, the
\* tracer's SELFDESTRUCT child frame, then the balance moves to b and the
\* frame stops.
SelfDestruct(b) ==
    /\ Running
    /\ Len(frames) < MaxFrames
    /\ frames' = SelfDestructCall(CaptureStateSelfDestruct(Ctx, b), Ctx, b)
    /\ balance' = [[balance EXCEPT ![b] = @ + balance[Ctx]] EXCEPT ![Ctx] = 0]
    /\ halted' = TRUE
    /\ ops' = ops + 1
    /\ UNCHANGED <<storage, code, nonce, vmstack, callstack, statedCall, tracerPanic>>

\* CALL / DELEGATECALL to a: CaptureState, then either CanTransfer fails (no
\* frame, no CaptureEnter) or the VM snapshots, transfers and enters.
Call(kind, to, v) ==
    /\ Running
    /\ Len(vmstack) < MaxDepth
    /\ Len(frames) < MaxFrames
    /\ kind = "DELEGATECALL" => v = 0
    /\ LET fs == CaptureStateCall(to)
           from == Ctx
       IN  IF balance[from] < v
           THEN /\ frames' = fs
                /\ UNCHANGED <<storage, balance, code, nonce, vmstack, callstack,
                               statedCall>>
           ELSE LET w == Transfer(World, from, to, v)
                IN  /\ SetWorld(w)
                    /\ vmstack' = Append(vmstack,
                         [ctx |-> IF kind = "CALL" THEN to ELSE from,
                          codeAddr |-> to, init |-> FALSE,
                          id |-> Len(fs) + 1, snap |-> World])
                    /\ CaptureEnter(fs, kind, from, to, v, w, World)
    /\ ops' = ops + 1
    /\ UNCHANGED <<halted, tracerPanic>>

\* CREATE at the predicted address x: CaptureState, then either CanTransfer
\* fails, or the VM bumps the creator's nonce, snapshots, creates x (fresh
\* storage, nonce 1), transfers and enters the init code.  The guard is
\* geth's collision check.
Create(x, v) ==
    /\ Running
    /\ Len(vmstack) < MaxDepth
    /\ Len(frames) < MaxFrames
    /\ x # Sender
    /\ code[x] = 0 /\ nonce[x] = 0
    /\ \A i \in DOMAIN vmstack : vmstack[i].ctx # x
    /\ LET fs == CaptureStateCreate(x)
           from == Ctx
       IN  IF balance[from] < v
           THEN /\ frames' = fs
                /\ UNCHANGED <<storage, balance, code, nonce, vmstack, callstack,
                               statedCall>>
           ELSE LET bumped == [World EXCEPT !.nonce[from] = @ + 1]
                    w == Transfer([bumped EXCEPT !.storage[x] = [k \in Key |-> 0],
                                                 !.nonce[x] = 1], from, x, v)
                IN  /\ SetWorld(w)
                    /\ vmstack' = Append(vmstack,
                         [ctx |-> x, codeAddr |-> x, init |-> TRUE,
                          id |-> Len(fs) + 1, snap |-> bumped])
                    /\ CaptureEnter(fs, "CREATE", from, x, v, w, bumped)
    /\ ops' = ops + 1
    /\ UNCHANGED <<halted, tracerPanic>>

\* The state a frame leaves: its journal snapshot when it failed, else the
\* live state with the deployed code of a CREATE.
ExitWorld(t, ok) ==
    IF ~ok THEN t.snap
    ELSE IF t.init THEN [World EXCEPT !.code[t.ctx] = Blob]
    ELSE World

\* A frame may fail only while it runs code and has not self-destructed.
MayFail(ok) == ~ok => (HasCode(Top) /\ ~halted)

\* A sub-call returns: the VM's revert or code deposit, then CaptureExit.
Return(ok) ==
    /\ Len(vmstack) >= 2
    /\ ~tracerPanic
    /\ MayFail(ok)
    /\ SetWorld(ExitWorld(Top, ok))
    /\ vmstack' = Front(vmstack)
    /\ CaptureExit(~ok, ExitWorld(Top, ok))
    /\ halted' = FALSE
    /\ UNCHANGED <<ops, tracerPanic>>

\* The transaction's frame returns: the VM's revert, then CaptureEnd.
End(ok) ==
    /\ Len(vmstack) = 1
    /\ ~tracerPanic
    /\ MayFail(ok)
    /\ SetWorld(ExitWorld(Top, ok))
    /\ vmstack' = << >>
    /\ CaptureEnd(~ok, ExitWorld(Top, ok))
    /\ halted' = FALSE
    /\ UNCHANGED <<ops, tracerPanic>>

(***************************************************************************)
(* The token extraction replayTxListInv runs on the finished tree          *)
(* (hunter/invariant/token.go, hunter/cmd/utils.go).                       *)
(***************************************************************************)
\* The frames of the tree below frame i, i included: the walk of
\* ParseTxTree and getBalanceTree over Calls.
RECURSIVE TreeIds(_)
TreeIds(i) == {i} \cup UNION {TreeIds(c) : c \in Range(frames[i].calls)}

TreeLogs == UNION {frames[i].logs : i \in TreeIds(1)}

\* ParseTxTree: every frame's To, and both holders of every Transfer log.
RelatedAddress ==
    {frames[i].to : i \in {j \in TreeIds(1) : frames[j].to # NONE}}
        \cup {l.from : l \in TreeLogs} \cup {l.to : l \in TreeLogs}

\* ParseTxTree: the contract that emitted each Transfer log.
RelatedToken == {l.address : l \in TreeLogs}

\* One balanceOf(h) call to token tok on the StateDB that
\* MakeOffTheChainStateDBWithAccountState builds from st: an account
\* without code returns no data, which SetString rejects (no entry); a slot
\* st does not hold reads 0 in the fresh StateDB.
BalanceOf(st, tok, h) ==
    IF st[tok] = NONE \/ st[tok].code = 0 THEN NONE
    ELSE IF st[tok].storage[BalanceSlot[h]] = NONE THEN 0
    ELSE st[tok].storage[BalanceSlot[h]]

\* getBalance: one balanceOf per related token and related address.
getBalance(st) ==
    [tok \in Addr |-> [h \in Addr |->
        IF tok \in RelatedToken /\ h \in RelatedAddress
        THEN BalanceOf(st, tok, h) ELSE NONE]]

\* recordEth: the ether balance of every account of the state.
recordEth(st) == [a \in Addr |-> IF st[a] = NONE THEN NONE ELSE st[a].balance]

\* removeUnrelatedState: drop every account but the target, and blank the
\* target's code, nonce and balance.
removeUnrelatedState(st) ==
    [a \in Addr |->
       IF st[a] = NONE \/ a \notin Target THEN NONE
       ELSE [st[a] EXCEPT !.code = 0, !.nonce = 0, !.balance = NONE]]

\* getBalanceTree on one frame that records state: the token tables of its
\* PreState and PostState, the ether rows, then the stripping.
ExtractFrame(f) ==
    [f EXCEPT !.preTok = getBalance(f.pre), !.postTok = getBalance(f.post),
              !.preEth = recordEth(f.pre), !.postEth = recordEth(f.post),
              !.pre = removeUnrelatedState(f.pre),
              !.post = removeUnrelatedState(f.post)]

\* getBalanceTree from the root.
getBalanceTree ==
    [i \in DOMAIN frames |->
       IF i \in TreeIds(1) /\ frames[i].isState THEN ExtractFrame(frames[i])
       ELSE frames[i]]

\* replayTxListInv after executeMsg returns, whatever its error:
\* InitTokenHandler, ParseTxTree and getBalanceTree over the root frame.
Extract ==
    /\ frames # << >>
    /\ frames[1].closed
    /\ ~extracted
    /\ frames' = getBalanceTree
    /\ extracted' = TRUE
    /\ UNCHANGED <<storage, balance, code, nonce, vmstack, callstack, statedCall,
                   halted, ops, tracerPanic>>

\* The transaction under the tracer.
VMStep ==
    \/ \E kind \in TxKinds, to \in Addr, v \in CallValue : Start(kind, to, v)
    \/ \E p, q \in LogParty : LogTransfer(p, q)
    \/ \E k \in Key : SLoad(k)
    \/ \E k \in Key, v \in StoreVal : SStore(k, v)
    \/ \E a \in Addr : AccountOp(a)
    \/ \E b \in Addr : SelfDestruct(b)
    \/ \E kind \in {"CALL", "DELEGATECALL"}, to \in Addr, v \in CallValue :
         Call(kind, to, v)
    \/ \E x \in Addr, v \in CallValue : Create(x, v)
    \/ \E ok \in BOOLEAN : Return(ok)
    \/ \E ok \in BOOLEAN : End(ok)

Next == (VMStep /\ UNCHANGED extracted) \/ Extract

Spec == Init /\ [][Next]_vars

\* The call tree the recorder promises (CallTree): the open frames are the
\* frames of t.callstack not yet closed, and the stated frames are
\* t.statedCall.
CT == INSTANCE CallTree
        WITH open <- SelectSeq(callstack, LAMBDA i : ~frames[i].closed),
             calls <- [i \in DOMAIN frames |-> frames[i].calls],
             watched <- [i \in DOMAIN frames |-> frames[i].isState],
             stated <- statedCall

(***************************************************************************)
(* Properties.                                                             *)
(***************************************************************************)

\* acct, as recorded for a, agrees with the state w.
AgreesWith(acct, a, w) ==
    /\ acct.balance = w.balance[a]
    /\ acct.code = w.code[a]
    /\ acct.nonce = w.nonce[a]
    /\ \A k \in Key : acct.storage[k] \in {NONE, w.storage[a][k]}

\* The PreState the recorder builds for a watched frame (CaptureStart,
\* CaptureEnter's seeding, inheritance and value adjustment, and every
\* later lookupAccount / lookupStorage from CaptureState) holds, for every
\* recorded account and slot, the value it had when the frame was entered,
\* before the value transfer, however much the frame and its sub-calls
\* changed it before the first access.
PreStateIsEntryState ==
    ~extracted =>
    \A i \in DOMAIN frames :
        frames[i].isState =>
            \A a \in Addr :
                frames[i].pre[a] # NONE =>
                    AgreesWith(frames[i].pre[a], a, frames[i].entry)

\* lookupStorage never dereferences an account missing from a stated
\* frame's PreState: every context that executes SLOAD/SSTORE while a
\* watched frame is open was looked up in that frame first.
NoTracerPanic == ~tracerPanic

ExistedAt(a, w) ==
    \/ w.nonce[a] # 0
    \/ w.code[a] # 0
    \/ w.balance[a] # 0
    \/ \E k \in Key : w.storage[a][k] # 0

\* Spec: an address created in a watched frame that had no code, storage or
\* balance before must not appear in the finalised PreState
\* (handleCallEnd's pruning by Account.Exists).
CreatedPruned ==
    ~extracted =>
    \A i \in DOMAIN frames :
        LET f == frames[i] IN
        f.isState /\ f.closed =>
            \A x \in f.created :
                ~ExistedAt(x, f.entry) => f.pre[x] = NONE

\* Spec: an address in a finalised watched frame's Deleted set is present
\* in its PreState and absent from its PostState.
DeletedExcluded ==
    ~extracted =>
    \A i \in DOMAIN frames :
        LET f == frames[i] IN
        f.isState /\ f.closed =>
            \A a \in f.deleted : f.pre[a] # NONE /\ f.post[a] = NONE

\* Spec: the VM has rolled back a failed frame, so its PostState equals its
\* PreState, except for what the transaction pays whatever its outcome: the
\* spec names gas, and the sender's nonce bump is of the same kind.
FailedFrameUnchanged ==
    ~extracted =>
    \A i \in DOMAIN frames :
        LET f == frames[i] IN
        f.isState /\ f.closed /\ f.err =>
            \A a \in Addr :
                IF i = 1 /\ a = Sender /\ f.pre[a] # NONE /\ f.post[a] # NONE
                THEN f.post[a] = [f.pre[a] EXCEPT !.nonce = @ + 1]
                ELSE f.post[a] = f.pre[a]

\* Spec section 4.4: the token extraction builds, for every watched frame, a
\* token-balance delta table.  getBalance runs balanceOf on StateDBs rebuilt
\* from the frame's PreState and PostState, which hold only the slots the
\* frame touched (an untouched slot reads 0 in both); the ether rows come
\* from the same states.  For every token and holder with an entry in both
\* tables, and every account with an ether row in both, the reported
\* change is the change the VM made between the frame's entry and exit.
TokenDeltaIsTrue ==
    \A i \in DOMAIN frames :
        LET f == frames[i] IN
        extracted /\ f.isState =>
            /\ \A tok, h \in Addr :
                 f.preTok[tok][h] # NONE /\ f.postTok[tok][h] # NONE =>
                    f.postTok[tok][h] - f.preTok[tok][h] =
                        f.exit.storage[tok][BalanceSlot[h]]
                          - f.entry.storage[tok][BalanceSlot[h]]
            /\ \A a \in Addr :
                 f.preEth[a] # NONE /\ f.postEth[a] # NONE =>
                    f.postEth[a] - f.preEth[a] =
                        f.exit.balance[a] - f.entry.balance[a]

\* Spec section 4.3: t.callstack, t.statedCall and every frame's Calls,
\* maintained by CaptureStart, CaptureEnter, CaptureExit and CaptureEnd
\* with pushes, conditional pops and appends, form the call tree of the VM
\* execution: each sub-call becomes, when it returns, the next child of the
\* frame that made it; t.statedCall is at every step exactly the open frames
\* with IsState, innermost last.
CallTreeRefined == CT!Spec

=============================================================================
