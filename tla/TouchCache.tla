------------------------------ MODULE TouchCache ------------------------------
(***************************************************************************)
(* The touch cache (hunter/trace/account_state.go, type AccountState) and *)
(* the interpreter hooks that feed it (core/vm/interpreter.go): lazy      *)
(* loading of storage, balance, code and nonce on first touch, the cache  *)
(* snapshot taken around every CALL/DELEGATECALL/CREATE/CREATE2 opcode,   *)
(* the revert that restores it when the opcode reports an error, and the  *)
(* committed baseline refreshed after each replayed transaction           *)
(* (hunter/cmd/replayBlock.go).                                            *)
(*                                                                         *)
(* The VM itself is the environment: it chooses which opcode runs next in *)
(* the frame on top of the call stack, whether a frame succeeds or fails, *)
(* and journals its own state so that a failed frame's writes are undone. *)
(* Beside the replayed StateDB (db* variables) the model keeps the state  *)
(* a full-state EVM executing the same steps would hold (real* variables, *)
(* initially the provider's state as of the previous block).  The         *)
(* properties say when the replayed state and the cache agree with it.    *)
(***************************************************************************)
EXTENDS Integers, Sequences, FiniteSets

CONSTANTS
    Addr,          \* account addresses
    Key,           \* storage slots
    NONE,          \* absence of a key in a Go map
    RequireRPC,    \* AccountState.requireRPC: lazy fetch from the provider
    HistStorage,   \* provider answers as of block-1: [Addr -> [Key -> Nat]]
    HistBalance,   \* [Addr -> Nat]
    HistCode,      \* [Addr -> Nat], 0 is empty code, n>0 is n copies of Blob
    HistNonce,     \* [Addr -> Nat]
    StoreVal,      \* values an SSTORE may write
    CallValue,     \* values a CALL may transfer
    CreateValue,   \* values a CREATE or CREATE2 may transfer
    MaxDepth,      \* bound on the call depth explored
    MaxOps,        \* bound on the opcodes executed per transaction
    MaxTx,         \* bound on the transactions replayed in one session
    SubcallErrorReported, \* a failed sub-call makes the CALL/CREATE opcode
                          \* itself return an error (else it pushes 0)
    ProviderFaults        \* the provider's ethclient.Dial may fail

ASSUME RequireRPC \in BOOLEAN /\ SubcallErrorReported \in BOOLEAN
ASSUME ProviderFaults \in BOOLEAN
ASSUME NONE \notin Nat
ASSUME MaxDepth \in Nat \ {0} /\ MaxOps \in Nat /\ MaxTx \in Nat \ {0}

(* The deployed code of a CREATE: one copy of the init code's output.     *)
Blob == 1

CallKinds == {"CALL", "CALLCODE", "DELEGATECALL", "STATICCALL"}
CreateKinds == {"CREATE", "CREATE2"}

VARIABLES
    dbStorage, dbBalance, dbCode, dbNonce,         \* the replay's StateDB
    realStorage, realBalance, realCode, realNonce, \* the full-state EVM (ghost)
    touchedStorageMap, touchedBalanceMap, touchedCodeMap, touchedNonceMap,
    commitedStorageMap, commitedBalanceMap, commitedCodeMap, commitedNonceMap,
    callstack,   \* frames of the running transaction, top at the end
    ops,         \* opcodes executed in the running transaction
    txCount,     \* transactions replayed so far
    panicked,    \* the process died (a nil dereference, or log.Fatal)
    failing      \* the top frame's Run loop broke on an opcode error

db == <<dbStorage, dbBalance, dbCode, dbNonce>>
realState == <<realStorage, realBalance, realCode, realNonce>>
cache == <<touchedStorageMap, touchedBalanceMap, touchedCodeMap, touchedNonceMap>>
commited == <<commitedStorageMap, commitedBalanceMap, commitedCodeMap, commitedNonceMap>>
vars == <<db, realState, cache, commited, callstack, ops, txCount, panicked, failing>>

Opt(S) == S \cup {NONE}
EmptyStorageMap == [a \in Addr |-> [k \in Key |-> NONE]]
EmptyAccountMap == [a \in Addr |-> NONE]
ZeroIfNone(v) == IF v = NONE THEN 0 ELSE v

Frame == [kind: {"TX"} \cup CallKinds \cup CreateKinds,
          ctx: Addr, from: Addr, to: Addr, static: BOOLEAN,
          snap: [storage: [Addr -> [Key -> Opt(Nat)]], balance: [Addr -> Opt(Nat)],
                 code: [Addr -> Opt(Nat)], nonce: [Addr -> Opt(Nat)]],
          vm: [storage: [Addr -> [Key -> Nat]], balance: [Addr -> Int],
               code: [Addr -> Nat], nonce: [Addr -> Nat]],
          real: [storage: [Addr -> [Key -> Nat]], balance: [Addr -> Int],
                 code: [Addr -> Nat], nonce: [Addr -> Nat]]]

TypeOK ==
    /\ dbStorage \in [Addr -> [Key -> Nat]]
    /\ dbBalance \in [Addr -> Nat]
    /\ dbCode \in [Addr -> Nat]
    /\ dbNonce \in [Addr -> Nat]
    /\ realStorage \in [Addr -> [Key -> Nat]]
    /\ realBalance \in [Addr -> Int]
    /\ realCode \in [Addr -> Nat]
    /\ realNonce \in [Addr -> Nat]
    /\ touchedStorageMap \in [Addr -> [Key -> Opt(Nat)]]
    /\ touchedBalanceMap \in [Addr -> Opt(Nat)]
    /\ touchedCodeMap \in [Addr -> Opt(Nat \ {0})]
    /\ touchedNonceMap \in [Addr -> Opt(Nat)]
    /\ commitedStorageMap \in [Addr -> [Key -> Opt(Nat)]]
    /\ commitedBalanceMap \in [Addr -> Opt(Nat)]
    /\ commitedCodeMap \in [Addr -> Opt(Nat \ {0})]
    /\ commitedNonceMap \in [Addr -> Opt(Nat)]
    /\ callstack \in Seq(Frame) /\ Len(callstack) <= MaxDepth
    /\ ops \in 0..MaxOps /\ txCount \in 0..MaxTx
    /\ panicked \in BOOLEAN /\ failing \in BOOLEAN

-----------------------------------------------------------------------------
(* AccountState helpers, as pure functions of the maps they change.       *)

(* IsTouchedStorage / IsTouchedBalance / IsTouchedCode / IsTouchedNonce:  *)
(* the key is in the map (the blockNumber argument is ignored).            *)
IsTouchedStorage(m, a, k) == m[a][k] # NONE
IsTouchedBalance(m, a) == m[a] # NONE
IsTouchedCode(m, a) == m[a] # NONE
IsTouchedNonce(m, a) == m[a] # NONE

(* GetCode: the cached code (nil when untouched).                         *)
GetCode(m, a) == m[a]

(* UpdateTouchedStorage / UpdateTouchedBalance overwrite the entry.       *)
UpdateTouchedStorage(m, a, k, v) == [m EXCEPT ![a][k] = v]
UpdateTouchedBalance(m, a, b) == [m EXCEPT ![a] = b]
UpdateTouchedNonce(m, a, n) == [m EXCEPT ![a] = n]

(* GetCommitedNonce: a uint64 map read, so a missing account reads 0.     *)
GetCommitedNonce(cn, a) == ZeroIfNone(cn[a])

(* Mutant: the append loop also records an empty code under the key.     *)
UpdateTouchedCodeStoresEmpty(m, a, c) ==
    [m EXCEPT ![a] = IF @ = NONE THEN c ELSE @ + c]

(* UpdateTouchedCode appends the bytes of code to what the map holds; an  *)
(* empty code never creates the key.                                       *)
UpdateTouchedCode(m, a, c) ==
    IF c = 0 THEN m ELSE [m EXCEPT ![a] = IF @ = NONE THEN c ELSE @ + c]

(* ExportSnapshot: a copy of the four touched maps.                       *)
ExportSnapshot(ts, tb, tc, tn) ==
    [storage |-> ts, balance |-> tb, code |-> tc, nonce |-> tn]

(* CommitAccountState / deepCopy: the baseline becomes a copy of the maps.*)
CommitAccountState ==
    /\ commitedStorageMap' = touchedStorageMap
    /\ commitedBalanceMap' = touchedBalanceMap
    /\ commitedCodeMap' = touchedCodeMap
    /\ commitedNonceMap' = touchedNonceMap

(* RevertAccountState(snapshot, statedb, resetStateDB): every touched     *)
(* storage slot, balance and nonce goes back to the snapshot's value, or  *)
(* to the committed baseline's when the snapshot lacks it; with           *)
(* resetStateDB the restored value is also written into the StateDB.      *)
(* GetCommittedStorage and GetCommitedNonce read a missing entry as zero; *)
(* GetCommittedBalance of a missing account dereferences nil and panics   *)
(* (the storage loop has run by then, the nonce loop has not).            *)
RevertAccountState(snap, ts, tb, tn, cs, cb, cn, dbS, dbB, dbN, resetStateDB) ==
    LET rs == [a \in Addr |-> [k \in Key |->
                 IF ts[a][k] = NONE THEN NONE
                 ELSE IF snap.storage[a][k] # NONE THEN snap.storage[a][k]
                 ELSE ZeroIfNone(cs[a][k])]]
        panic == \E a \in Addr : tb[a] # NONE /\ snap.balance[a] = NONE
                                               /\ cb[a] = NONE
        rb == [a \in Addr |->
                 IF tb[a] = NONE THEN NONE
                 ELSE IF snap.balance[a] # NONE THEN snap.balance[a]
                 ELSE cb[a]]
        rn == [a \in Addr |->
                 IF tn[a] = NONE THEN NONE
                 ELSE IF snap.nonce[a] # NONE THEN snap.nonce[a]
                 ELSE GetCommitedNonce(cn, a)]
    IN [storage |-> rs,
        balance |-> IF panic THEN tb ELSE rb,
        nonce |-> IF panic THEN tn ELSE rn,
        dbStorage |-> IF resetStateDB
                      THEN [a \in Addr |-> [k \in Key |->
                              IF rs[a][k] = NONE THEN dbS[a][k] ELSE rs[a][k]]]
                      ELSE dbS,
        dbBalance |-> IF resetStateDB /\ ~panic
                      THEN [a \in Addr |-> IF rb[a] = NONE THEN dbB[a] ELSE rb[a]]
                      ELSE dbB,
        dbNonce |-> IF resetStateDB /\ ~panic
                    THEN [a \in Addr |-> IF rn[a] = NONE THEN dbN[a] ELSE rn[a]]
                    ELSE dbN,
        panic |-> panic]

-----------------------------------------------------------------------------
(* Interpreter hooks (core/vm/interpreter.go).                             *)

(* Mutant: the provider is asked again on every touch, not the first.    *)
FetchedBalanceAlways(a) ==
    IF RequireRPC THEN HistBalance[a] ELSE dbBalance[a]

(* The StateDB value of a's balance after CheckAndSetBalance(a): fetched  *)
(* from the provider on first touch in RPC mode, else the live value.     *)
FetchedBalance(a) ==
    IF ~IsTouchedBalance(touchedBalanceMap, a) /\ RequireRPC THEN HistBalance[a] ELSE dbBalance[a]

(* CheckAndSetBalance: the baseline is written on first touch only, the   *)
(* touched map on every call.                                              *)
CheckAndSetBalance(a) ==
    [touched |-> UpdateTouchedBalance(touchedBalanceMap, a, FetchedBalance(a)),
     commited |-> IF ~IsTouchedBalance(touchedBalanceMap, a)
                  THEN UpdateTouchedBalance(commitedBalanceMap, a, FetchedBalance(a))
                  ELSE commitedBalanceMap,
     db |-> [dbBalance EXCEPT ![a] = FetchedBalance(a)]]

(* The StateDB code of a after CheckAndSetCode(a): fetched on first touch *)
(* in RPC mode; once touched, a nil StateDB code is replaced by the       *)
(* cached code.                                                            *)
FetchedCode(a) ==
    CASE ~IsTouchedCode(touchedCodeMap, a) /\ RequireRPC -> HistCode[a]
      [] IsTouchedCode(touchedCodeMap, a) /\ dbCode[a] = 0 -> GetCode(touchedCodeMap, a)
      [] OTHER -> dbCode[a]

CheckAndSetCode(a) ==
    [touched |-> IF ~IsTouchedCode(touchedCodeMap, a)
                 THEN UpdateTouchedCode(touchedCodeMap, a, FetchedCode(a))
                 ELSE touchedCodeMap,
     commited |-> IF ~IsTouchedCode(touchedCodeMap, a)
                  THEN UpdateTouchedCode(commitedCodeMap, a, FetchedCode(a))
                  ELSE commitedCodeMap,
     db |-> [dbCode EXCEPT ![a] = FetchedCode(a)]]

(* The StateDB nonce of a after CheckAndSetNonce(a): fetched from the     *)
(* provider on first touch in RPC mode, else the live value.              *)
FetchedNonce(a) ==
    IF ~IsTouchedNonce(touchedNonceMap, a) /\ RequireRPC THEN HistNonce[a] ELSE dbNonce[a]

(* CheckAndSetNonce: like CheckAndSetBalance, the baseline is written on  *)
(* first touch only and the touched map on every call.                    *)
CheckAndSetNonce(a) ==
    [touched |-> UpdateTouchedNonce(touchedNonceMap, a, FetchedNonce(a)),
     commited |-> IF ~IsTouchedNonce(touchedNonceMap, a)
                  THEN UpdateTouchedNonce(commitedNonceMap, a, FetchedNonce(a))
                  ELSE commitedNonceMap,
     db |-> [dbNonce EXCEPT ![a] = FetchedNonce(a)]]

(* SetCodeBalanceNonce: CheckAndSetCode, CheckAndSetBalance, then         *)
(* CheckAndSetNonce; the three touch disjoint state.                      *)
SetCodeBalanceNonce(a) ==
    [code |-> CheckAndSetCode(a), balance |-> CheckAndSetBalance(a),
     nonce |-> CheckAndSetNonce(a)]

(* Mutant: SLOAD fetches again although the slot is already touched.     *)
SLoadHookRefetch(a, k) ==
    LET v == IF RequireRPC THEN HistStorage[a][k] ELSE dbStorage[a][k]
    IN /\ dbStorage' = [dbStorage EXCEPT ![a][k] = v]
       /\ touchedStorageMap' = [touchedStorageMap EXCEPT ![a][k] = v]
       /\ commitedStorageMap' = [commitedStorageMap EXCEPT ![a][k] = v]

(* beforeOpcodeExecutionHook, SLOAD: on first touch fetch (RPC) into the  *)
(* StateDB and record the value in the touched map and the baseline.      *)
SLoadHook(a, k) ==
    IF IsTouchedStorage(touchedStorageMap, a, k)
    THEN UNCHANGED <<dbStorage, touchedStorageMap, commitedStorageMap>>
    ELSE LET v == IF RequireRPC THEN HistStorage[a][k] ELSE dbStorage[a][k]
         IN /\ dbStorage' = [dbStorage EXCEPT ![a][k] = v]
            /\ touchedStorageMap' = UpdateTouchedStorage(touchedStorageMap, a, k, v)
            /\ commitedStorageMap' = UpdateTouchedStorage(commitedStorageMap, a, k, v)

(* beforeOpcodeExecutionHook, SSTORE: on first touch fetch (RPC) and      *)
(* record the pre-write value in the baseline only; then executeHook      *)
(* writes v to the StateDB and records it as touched.                     *)
SStoreHook(a, k, v) ==
    /\ commitedStorageMap' =
         IF IsTouchedStorage(touchedStorageMap, a, k) THEN commitedStorageMap
         ELSE UpdateTouchedStorage(commitedStorageMap, a, k,
                 IF RequireRPC THEN HistStorage[a][k] ELSE dbStorage[a][k])
    /\ dbStorage' = [dbStorage EXCEPT ![a][k] = v]
    /\ touchedStorageMap' = UpdateTouchedStorage(touchedStorageMap, a, k, v)

(* beforeOpcodeExecutionHook, SSTORE, alone: what remains of an SSTORE    *)
(* whose execution fails (the pre-hook's fetch and baseline).             *)
SStorePreHook(a, k) ==
    IF IsTouchedStorage(touchedStorageMap, a, k)
    THEN UNCHANGED <<dbStorage, commitedStorageMap>>
    ELSE LET v == IF RequireRPC THEN HistStorage[a][k] ELSE dbStorage[a][k]
         IN /\ dbStorage' = [dbStorage EXCEPT ![a][k] = v]
            /\ commitedStorageMap' = UpdateTouchedStorage(commitedStorageMap, a, k, v)

(* Value transfer performed by the VM when a call or create is entered.   *)
Transfer(bal, from, to, v) == [bal EXCEPT ![from] = @ - v, ![to] = @ + v]
CanTransfer(bal, from, v) == bal[from] >= v

-----------------------------------------------------------------------------
Init ==
    /\ dbStorage = IF RequireRPC THEN [a \in Addr |-> [k \in Key |-> 0]] ELSE HistStorage
    /\ dbBalance = IF RequireRPC THEN [a \in Addr |-> 0] ELSE HistBalance
    /\ dbCode = IF RequireRPC THEN [a \in Addr |-> 0] ELSE HistCode
    /\ dbNonce = IF RequireRPC THEN [a \in Addr |-> 0] ELSE HistNonce
    /\ realStorage = HistStorage
    /\ realBalance = HistBalance
    /\ realCode = HistCode
    /\ realNonce = HistNonce
    /\ touchedStorageMap = EmptyStorageMap
    /\ touchedBalanceMap = EmptyAccountMap
    /\ touchedCodeMap = EmptyAccountMap
    /\ touchedNonceMap = EmptyAccountMap
    /\ commitedStorageMap = EmptyStorageMap
    /\ commitedBalanceMap = EmptyAccountMap
    /\ commitedCodeMap = EmptyAccountMap
    /\ commitedNonceMap = EmptyAccountMap
    /\ callstack = << >>
    /\ ops = 0
    /\ txCount = 0
    /\ panicked = FALSE
    /\ failing = FALSE

Top == callstack[Len(callstack)]
RealNow == [storage |-> realStorage, balance |-> realBalance, code |-> realCode,
            nonce |-> realNonce]
DbNow == [storage |-> dbStorage, balance |-> dbBalance, code |-> dbCode, nonce |-> dbNonce]

(* An opcode may run in the frame on top of the stack.                    *)
Running == ~panicked /\ ~failing /\ callstack # << >> /\ ops < MaxOps

(* The maps a revert writes, taken from a RevertAccountState result.      *)
ApplyRevert(r) ==
    /\ touchedStorageMap' = r.storage
    /\ touchedBalanceMap' = r.balance
    /\ touchedNonceMap' = r.nonce
    /\ dbStorage' = r.dbStorage
    /\ dbBalance' = r.dbBalance
    /\ dbNonce' = r.dbNonce
    /\ panicked' = r.panic

(* The success branch of opcodeExecutionHook: the touched balances of     *)
(* from and to are refreshed after CALL, CALLCODE and CREATE, their       *)
(* nonces after these and CREATE2, and the deployed code of to is appended      *)
(* after CREATE and CREATE2, all with the StateDB's values.               *)
SuccessRefresh(kind, from, to, tb, tc, tn, bal, code, non) ==
    [balance |-> IF kind \in {"CALL", "CALLCODE", "CREATE"}
                 THEN UpdateTouchedBalance(UpdateTouchedBalance(tb, from, bal[from]), to, bal[to])
                 ELSE tb,
     nonce |-> IF kind \in {"CALL", "CALLCODE", "CREATE", "CREATE2"}
               THEN UpdateTouchedNonce(UpdateTouchedNonce(tn, from, non[from]), to, non[to])
               ELSE tn,
     code |-> IF kind \in CreateKinds THEN UpdateTouchedCode(tc, to, code[to]) ELSE tc]

(* opcodeExecutionHook after operation.execute has returned: ts/tb/tc/tn  *)
(* are the touched maps and dbS/dbB/dbC/dbN the StateDB as the VM leaves  *)
(* them.                                                                   *)
(* An error reverts the cache to the snapshot taken before execute, and   *)
(* the Run loop of the calling frame then breaks on that error.           *)
OpcodeExecutionHook(err, kind, from, to, snap, ts, tb, tc, tn, dbS, dbB, dbC, dbN) ==
    LET ok == SuccessRefresh(kind, from, to, tb, tc, tn, dbB, dbC, dbN) IN
    /\ dbCode' = dbC
    /\ touchedCodeMap' = IF err THEN tc ELSE ok.code
    /\ failing' = err
    /\ IF err
       THEN ApplyRevert(RevertAccountState(snap, ts, tb, tn, commitedStorageMap,
                                           commitedBalanceMap, commitedNonceMap,
                                           dbS, dbB, dbN, RequireRPC))
       ELSE /\ touchedBalanceMap' = ok.balance
            /\ touchedNonceMap' = ok.nonce
            /\ touchedStorageMap' = ts
            /\ dbStorage' = dbS
            /\ dbBalance' = dbB
            /\ dbNonce' = dbN
            /\ UNCHANGED panicked

(* replay.go (executeRegularMsgsTx): every transaction runs on a fresh    *)
(* StateDB made from its recorded input allocation, i.e. the state a      *)
(* full-state EVM holds before it.                                         *)
InputAlloc == RealNow

(* replayBlock and replayWithTxHash (RPC mode) commit the cache after     *)
(* every transaction; replay.go shares one AccountState across its loop   *)
(* and never commits it.                                                   *)
CommitsAfterTx == RequireRPC

(* A transaction starts.  replayBlock keeps one StateDB for the block and *)
(* the transaction's target must have its code, balance and nonce fetched *)
(* before it can run (the message application, outside this repository,  *)
(* is taken to go through SetCodeBalanceNonce like the CALL pre-hook);    *)
(* replay.go builds a fresh StateDB                                        *)
(* from the transaction's input allocation instead.                        *)
TxStart(to) ==
    /\ ~panicked /\ callstack = << >> /\ txCount < MaxTx
    /\ LET rb == SetCodeBalanceNonce(to).balance
           rc == SetCodeBalanceNonce(to).code
           rn == SetCodeBalanceNonce(to).nonce
           vm == IF RequireRPC
                 THEN [storage |-> dbStorage, balance |-> rb.db, code |-> rc.db, nonce |-> rn.db]
                 ELSE InputAlloc
       IN /\ dbStorage' = vm.storage
          /\ dbBalance' = vm.balance
          /\ dbCode' = vm.code
          /\ dbNonce' = vm.nonce
          /\ touchedBalanceMap' = IF RequireRPC THEN rb.touched ELSE touchedBalanceMap
          /\ commitedBalanceMap' = IF RequireRPC THEN rb.commited ELSE commitedBalanceMap
          /\ touchedCodeMap' = IF RequireRPC THEN rc.touched ELSE touchedCodeMap
          /\ commitedCodeMap' = IF RequireRPC THEN rc.commited ELSE commitedCodeMap
          /\ touchedNonceMap' = IF RequireRPC THEN rn.touched ELSE touchedNonceMap
          /\ commitedNonceMap' = IF RequireRPC THEN rn.commited ELSE commitedNonceMap
          /\ callstack' = << [kind |-> "TX", ctx |-> to, from |-> to, to |-> to, static |-> FALSE,
                              snap |-> ExportSnapshot(touchedStorageMap, touchedBalanceMap',
                                                      touchedCodeMap', touchedNonceMap'),
                              vm |-> vm, real |-> RealNow] >>
    /\ UNCHANGED <<realState, touchedStorageMap, commitedStorageMap, ops, txCount, panicked, failing>>

SLoad(k) ==
    /\ Running
    /\ SLoadHook(Top.ctx, k)
    /\ ops' = ops + 1
    /\ UNCHANGED <<dbBalance, dbCode, dbNonce, realState, touchedBalanceMap, touchedCodeMap,
                   touchedNonceMap, commitedBalanceMap, commitedCodeMap, commitedNonceMap,
                   callstack, txCount, panicked, failing>>

(* SSTORE: the pre-hook, then executeHook.  Under STATICCALL the write is  *)
(* refused (ErrWriteProtection) after the pre-hook has run, and Run       *)
(* breaks.                                                                 *)
SStore(k, v) ==
    /\ Running
    /\ IF Top.static
       THEN /\ SStorePreHook(Top.ctx, k)
            /\ failing' = TRUE
            /\ UNCHANGED <<realStorage, touchedStorageMap>>
       ELSE /\ SStoreHook(Top.ctx, k, v)
            /\ realStorage' = [realStorage EXCEPT ![Top.ctx][k] = v]
            /\ UNCHANGED failing
    /\ ops' = ops + 1
    /\ UNCHANGED <<dbBalance, dbCode, dbNonce, realBalance, realCode, realNonce,
                   touchedBalanceMap, touchedCodeMap, touchedNonceMap, commitedBalanceMap,
                   commitedCodeMap, commitedNonceMap, callstack, txCount, panicked>>

(* BALANCE a *)
Balance(a) ==
    /\ Running
    /\ LET r == CheckAndSetBalance(a)
       IN /\ touchedBalanceMap' = r.touched
          /\ commitedBalanceMap' = r.commited
          /\ dbBalance' = r.db
    /\ ops' = ops + 1
    /\ UNCHANGED <<dbStorage, dbCode, dbNonce, realState, touchedStorageMap, touchedCodeMap,
                   touchedNonceMap, commitedStorageMap, commitedCodeMap, commitedNonceMap,
                   callstack, txCount, panicked, failing>>

(* EXTCODESIZE / EXTCODEHASH / EXTCODECOPY a *)
ExtCode(a) ==
    /\ Running
    /\ LET r == CheckAndSetCode(a)
       IN /\ touchedCodeMap' = r.touched
          /\ commitedCodeMap' = r.commited
          /\ dbCode' = r.db
    /\ ops' = ops + 1
    /\ UNCHANGED <<dbStorage, dbBalance, dbNonce, realState, touchedStorageMap, touchedBalanceMap,
                   touchedNonceMap, commitedStorageMap, commitedBalanceMap, commitedNonceMap,
                   callstack, txCount, panicked, failing>>

(* CALL / CALLCODE / DELEGATECALL / STATICCALL to `to` with value v: the *)
(* pre-hook loads the callee's code, balance and nonce, the execution     *)
(* hook exports a snapshot, and the opcode refuses a CALL with value      *)
(* under STATICCALL, or the VM fails at once for lack of balance, or it   *)
(* enters the callee (journal snapshot, then transfer; CALLCODE and       *)
(* DELEGATECALL run to's code in the caller's context, and CALLCODE's     *)
(* transfer is from the caller to itself); a failure reaches the hook at  *)
(* once.                                                                   *)
Call(kind, to, v) ==
    /\ Running /\ Len(callstack) < MaxDepth
    /\ kind \in {"DELEGATECALL", "STATICCALL"} => v = 0
    /\ LET c == Top.ctx
           rb == SetCodeBalanceNonce(to).balance
           rc == SetCodeBalanceNonce(to).code
           rn == SetCodeBalanceNonce(to).nonce
           snap == ExportSnapshot(touchedStorageMap, rb.touched, rc.touched, rn.touched)
           payee == IF kind = "CALLCODE" THEN c ELSE to
           refused == Top.static /\ kind = "CALL" /\ v # 0
       IN /\ commitedCodeMap' = rc.commited
          /\ commitedBalanceMap' = rb.commited
          /\ commitedNonceMap' = rn.commited
          /\ IF ~refused /\ CanTransfer(rb.db, c, v)
             THEN /\ callstack' = Append(callstack,
                        [kind |-> kind, ctx |-> IF kind \in {"CALLCODE", "DELEGATECALL"} THEN c ELSE to,
                         from |-> c, to |-> to, static |-> Top.static \/ kind = "STATICCALL",
                         snap |-> snap,
                         vm |-> [storage |-> dbStorage, balance |-> rb.db, code |-> rc.db,
                                 nonce |-> rn.db],
                         real |-> RealNow])
                  /\ dbBalance' = Transfer(rb.db, c, payee, v)
                  /\ realBalance' = Transfer(realBalance, c, payee, v)
                  /\ touchedBalanceMap' = rb.touched
                  /\ touchedCodeMap' = rc.touched
                  /\ touchedNonceMap' = rn.touched
                  /\ dbCode' = rc.db
                  /\ dbNonce' = rn.db
                  /\ UNCHANGED <<dbStorage, touchedStorageMap, panicked, failing>>
             ELSE /\ OpcodeExecutionHook(refused \/ SubcallErrorReported, kind, c, to, snap,
                                         touchedStorageMap, rb.touched, rc.touched, rn.touched,
                                         dbStorage, rb.db, rc.db, rn.db)
                  /\ UNCHANGED <<callstack, realBalance>>
    /\ ops' = ops + 1
    /\ UNCHANGED <<realStorage, realCode, realNonce, commitedStorageMap, txCount>>

(* CREATE / CREATE2 of a fresh address x with endowment v: no pre-hook;  *)
(* the execution hook exports a snapshot and the VM (evm.create) either   *)
(* fails at once for lack of balance, or bumps the creator's nonce, takes *)
(* its journal snapshot, gives x nonce 1, transfers v and enters x's init *)
(* code.  The bump is made before the snapshot, so it outlives a failure  *)
(* of the create itself.  Under STATICCALL the opcode refuses to create  *)
(* (ErrWriteProtection), an error of its own that the hook always sees.   *)
Create(kind, x, v) ==
    /\ Running /\ Len(callstack) < MaxDepth
    /\ dbCode[x] = 0 /\ realCode[x] = 0 /\ dbNonce[x] = 0 /\ realNonce[x] = 0 /\ x # Top.ctx
    /\ LET c == Top.ctx
           snap == ExportSnapshot(touchedStorageMap, touchedBalanceMap, touchedCodeMap,
                                  touchedNonceMap)
           dbBumped == [dbNonce EXCEPT ![c] = @ + 1]
           realBumped == [realNonce EXCEPT ![c] = @ + 1]
       IN IF ~Top.static /\ CanTransfer(dbBalance, c, v)
          THEN /\ callstack' = Append(callstack,
                     [kind |-> kind, ctx |-> x, from |-> c, to |-> x, static |-> FALSE, snap |-> snap,
                      vm |-> [storage |-> dbStorage, balance |-> dbBalance, code |-> dbCode,
                              nonce |-> dbBumped],
                      real |-> [RealNow EXCEPT !.nonce = realBumped]])
               /\ dbNonce' = [dbBumped EXCEPT ![x] = 1]
               /\ realNonce' = [realBumped EXCEPT ![x] = 1]
               /\ dbBalance' = Transfer(dbBalance, c, x, v)
               /\ realBalance' = Transfer(realBalance, c, x, v)
               /\ UNCHANGED <<dbStorage, dbCode, cache, panicked, failing>>
          ELSE /\ OpcodeExecutionHook(Top.static \/ SubcallErrorReported, kind, c, x, snap,
                                      touchedStorageMap,
                                      touchedBalanceMap, touchedCodeMap, touchedNonceMap,
                                      dbStorage, dbBalance, dbCode, dbNonce)
               /\ UNCHANGED <<callstack, realBalance, realNonce>>
    /\ ops' = ops + 1
    /\ UNCHANGED <<realStorage, realCode, commited, txCount>>

(* The frame on top returns to its caller, whose opcodeExecutionHook      *)
(* completes.  On success the VM deploys a created contract's code; on    *)
(* failure it restores its journal snapshot, and the opcode reports the   *)
(* failure as an error only when SubcallErrorReported.  A frame whose Run *)
(* loop broke on an error can only fail.                                   *)
Return(ok) ==
    /\ ~panicked /\ Len(callstack) >= 2
    /\ ok => ~failing
    /\ LET f == Top
           deployed == IF f.kind \in CreateKinds THEN [dbCode EXCEPT ![f.to] = Blob] ELSE dbCode
       IN /\ callstack' = SubSeq(callstack, 1, Len(callstack) - 1)
          /\ IF ok
             THEN /\ realCode' = IF f.kind \in CreateKinds THEN [realCode EXCEPT ![f.to] = Blob]
                                                              ELSE realCode
                  /\ UNCHANGED <<realStorage, realBalance, realNonce>>
                  /\ OpcodeExecutionHook(FALSE, f.kind, f.from, f.to, f.snap, touchedStorageMap,
                                         touchedBalanceMap, touchedCodeMap, touchedNonceMap,
                                         dbStorage, dbBalance, deployed, dbNonce)
             ELSE /\ realStorage' = f.real.storage
                  /\ realBalance' = f.real.balance
                  /\ realCode' = f.real.code
                  /\ realNonce' = f.real.nonce
                  /\ OpcodeExecutionHook(SubcallErrorReported, f.kind, f.from, f.to, f.snap,
                                         touchedStorageMap, touchedBalanceMap, touchedCodeMap,
                                         touchedNonceMap, f.vm.storage, f.vm.balance, f.vm.code,
                                         f.vm.nonce)
    /\ UNCHANGED <<commited, ops, txCount>>

(* The top-level call ends: a failed transaction is rolled back by the VM *)
(* alone (no hook sees it); replayBlock then commits the account state.   *)
TxEnd(ok) ==
    /\ ~panicked /\ Len(callstack) = 1
    /\ ok => ~failing
    /\ IF ok THEN UNCHANGED <<db, realState>>
       ELSE /\ dbStorage' = callstack[1].vm.storage
            /\ dbBalance' = callstack[1].vm.balance
            /\ dbCode' = callstack[1].vm.code
            /\ dbNonce' = callstack[1].vm.nonce
            /\ realStorage' = callstack[1].real.storage
            /\ realBalance' = callstack[1].real.balance
            /\ realCode' = callstack[1].real.code
            /\ realNonce' = callstack[1].real.nonce
    /\ IF CommitsAfterTx THEN CommitAccountState ELSE UNCHANGED commited
    /\ callstack' = << >>
    /\ ops' = 0
    /\ txCount' = txCount + 1
    /\ failing' = FALSE
    /\ UNCHANGED <<cache, panicked>>

(* The next step asks the provider (RPC mode): the SLOAD/SSTORE pre-hook  *)
(* for an untouched slot of the running contract, CheckAndSetBalance,     *)
(* CheckAndSetCode or CheckAndSetNonce for an untouched account (BALANCE, *)
(* EXTCODE*, the CALL pre-hook, or the next transaction's target).  An account with empty    *)
(* code is never recorded as touched, so it is fetched on every access.   *)
NeedsFetch ==
    /\ RequireRPC /\ ~panicked
    /\ \/ Running /\ \E k \in Key : ~IsTouchedStorage(touchedStorageMap, Top.ctx, k)
       \/ /\ Running \/ (callstack = << >> /\ txCount < MaxTx)
          /\ \E a \in Addr : ~IsTouchedBalance(touchedBalanceMap, a)
                             \/ ~IsTouchedCode(touchedCodeMap, a)
                             \/ ~IsTouchedNonce(touchedNonceMap, a)

(* Every Get*At of the provider dials the endpoint first, and a failed    *)
(* ethclient.Dial is log.Fatal: the process exits in the middle of the    *)
(* hook, leaving the batch unfinished.  (A failed request after the dial  *)
(* is ignored by the hooks and yields a zero value, which the spec        *)
(* accepts as a soft failure.)                                             *)
ProviderDialFails ==
    /\ ProviderFaults /\ NeedsFetch
    /\ panicked' = TRUE
    /\ UNCHANGED <<db, realState, cache, commited, callstack, ops, txCount, failing>>

Next ==
    \/ ProviderDialFails
    \/ \E to \in Addr : TxStart(to)
    \/ \E k \in Key : SLoad(k)
    \/ \E k \in Key, v \in StoreVal : SStore(k, v)
    \/ \E a \in Addr : Balance(a)
    \/ \E a \in Addr : ExtCode(a)
    \/ \E kind \in CallKinds, to \in Addr, v \in CallValue : Call(kind, to, v)
    \/ \E kind \in CreateKinds, x \in Addr, v \in CreateValue : Create(kind, x, v)
    \/ \E ok \in BOOLEAN : Return(ok)
    \/ \E ok \in BOOLEAN : TxEnd(ok)

Spec == Init /\ [][Next]_vars

-----------------------------------------------------------------------------
(* Properties.  They are stated in the states where the VM may run an    *)
(* opcode next: a transaction is running and no Run loop is breaking on   *)
(* an error (between two transactions replay.go rebuilds its StateDB).    *)
Observable == callstack # << >> /\ ~failing

(* Every storage slot the cache records as touched holds, in the cache,   *)
(* the replay's StateDB and a full-state EVM alike, the same value, while *)
(* no frame is failing: the hooks' lazy SLOAD loads and SSTORE baselines, *)
(* across nested calls and creates that succeed and the snapshots taken   *)
(* around them, never leave a stale slot.  A cache revert is not covered  *)
(* where the opcode reports a sub-call's failure, since every enclosing   *)
(* frame then fails with it; the revert and commit paths are checked by   *)
(* the failed_subcall and failed_tx_rpc runs, where this breaks.          *)
TouchedStorageIsTrue ==
    Observable =>
        \A a \in Addr, k \in Key :
            touchedStorageMap[a][k] # NONE =>
                /\ touchedStorageMap[a][k] = dbStorage[a][k]
                /\ dbStorage[a][k] = realStorage[a][k]

(* Every account whose balance the cache records as touched has in the    *)
(* replay's StateDB the balance a full-state EVM would give it while no   *)
(* frame is failing: the lazy fetch of CheckAndSetBalance in the BALANCE  *)
(* and CALL pre-hooks, the value transfers of nested calls and the        *)
(* refresh after each successful CALL or CALLCODE keep the StateDB true.  *)
(* A CREATE endowment is the case where it breaks (balance_endowment).   *)
TouchedBalanceIsTrue ==
    Observable =>
        \A a \in Addr : touchedBalanceMap[a] # NONE => dbBalance[a] = realBalance[a]

(* The code the VM runs for an account whose code the cache records as   *)
(* touched is the code a full-state EVM would run: the StateDB's code, or *)
(* the cached code that the repair branch of CheckAndSetCode writes back  *)
(* before every EXTCODE* and CALL when the StateDB's is empty (a revert   *)
(* undid the lazy load).  The repair must never resurrect code that the   *)
(* VM itself reverted.                                                     *)
CodeSeen(a) == IF dbCode[a] = 0 THEN touchedCodeMap[a] ELSE dbCode[a]

CodeIsTrue ==
    Observable =>
        \A a \in Addr : touchedCodeMap[a] # NONE => CodeSeen(a) = realCode[a]

(* The nonce opcodeExecutionHook reads to derive a CREATE's address       *)
(* (crypto.CreateAddress(from, GetNonce(from))), that of the running      *)
(* contract, is the chain's: the hook then records the touched balance,   *)
(* nonce and code of the address the VM really deploys to.                *)
CreatorNonceIsTrue ==
    Observable => dbNonce[Top.ctx] = realNonce[Top.ctx]

(* RevertAccountState never dereferences a missing committed balance      *)
(* (GetCommittedBalance on an account the baseline lacks).                *)
NoPanic == ~panicked

=============================================================================
