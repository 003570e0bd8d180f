----------------------------- MODULE WalletLock -----------------------------
(***************************************************************************)
(* An encrypted wallet is unlocked and locked by four kinds of threads:      *)
(*                                                                           *)
(*  - RPC commands, which hold cs_main and cs_wallet while they run          *)
(*    (CRPCTable::execute): walletpassphrase, walletlock,                    *)
(*    walletpassphrasechange, getnewaddress and updateAlias, the last        *)
(*    standing for the commands of dions.cpp that enter both sections a      *)
(*    second time by hand;                                                   *)
(*  - ThreadCleanWalletPassphrase, one for each successful walletpassphrase, *)
(*    which locks the wallet when nWalletUnlockTime has come and takes       *)
(*    neither section;                                                       *)
(*  - ThreadTopUpKeyPool, one for each walletpassphrase too, under cs_wallet;*)
(*  - the clock.                                                             *)
(*                                                                           *)
(* The master key, cs_KeyStore and cs_nWalletUnlockTime are held for single  *)
(* steps only.  What a command does between two points where another thread  *)
(* can come in is one action.                                                *)
(***************************************************************************)
EXTENDS Integers, FiniteSets

CONSTANTS
    Timeout,       \* timeouts users pass, in ticks
    MayMistype,    \* users may pass a timeout that is not a number
    KeyPoolTarget, \* -keypool
    MaxUnlocks,    \* bound: successful calls of walletpassphrase
    MaxNow         \* bound: the clock

ASSUME BoundsAssumption ==
    /\ Timeout \subseteq Nat /\ MayMistype \in BOOLEAN /\ KeyPoolTarget \in Nat
    /\ MaxUnlocks \in Nat /\ MaxNow \in Nat

VARIABLES
    unlocked,          \* vMasterKey is in memory: ~as()
    nWalletUnlockTime,
    stakingOnly,       \* fWalletUnlockStakingOnly
    clean,             \* clean[k]: the k-th ThreadCleanWalletPassphrase
    topup,             \* topup[k]: the k-th ThreadTopUpKeyPool
    pool,              \* setKeyPool.size()
    cs_main, cs_wallet,\* who is in: "free", "rpc", "topup", or "gone", a thread
                       \* that has ended without leaving
    rpc,               \* the command that runs, and where it is
    now, died          \* GetTimeMillis; the process was terminated

vars == <<unlocked, nWalletUnlockTime, stakingOnly, clean, topup, pool,
          cs_main, cs_wallet, rpc, now, died>>

Threads == 1 .. MaxUnlocks
Commands == {"walletpassphrase", "walletlock", "walletpassphrasechange",
             "getnewaddress", "updateAlias"}
NoThread == [pc |-> "none", arg |-> 0, wake |-> 0]
Idle == [cmd |-> "none", pc |-> "idle", fWasLocked |-> FALSE]

Init ==
    /\ unlocked = FALSE /\ nWalletUnlockTime = 0 /\ stakingOnly = FALSE
    /\ clean = [k \in Threads |-> NoThread]
    /\ topup = [k \in Threads |-> "none"]
    /\ pool = KeyPoolTarget
    /\ cs_main = "free" /\ cs_wallet = "free" /\ rpc = Idle
    /\ now = 1 /\ died = FALSE

-----------------------------------------------------------------------------
(* CRPCTable::execute: LOCK2(cs_main, cs_wallet), the command, and out.      *)

Call(c) ==
    /\ cs_main = "free" /\ rpc = Idle
    /\ cs_main' = "rpc"
    /\ rpc' = [Idle EXCEPT !.cmd = c, !.pc = "cs_wallet"]
    /\ UNCHANGED <<unlocked, nWalletUnlockTime, stakingOnly, clean, topup, pool,
                   cs_wallet, now, died>>

EnterWallet ==
    /\ rpc.pc = "cs_wallet" /\ cs_wallet = "free"
    /\ cs_wallet' = "rpc"
    /\ rpc' = [rpc EXCEPT !.pc = "start"]
    /\ UNCHANGED <<unlocked, nWalletUnlockTime, stakingOnly, clean, topup, pool,
                   cs_main, now, died>>

At(c, pc) == rpc.cmd = c /\ rpc.pc = pc
Goto(pc) == rpc' = [rpc EXCEPT !.pc = pc] /\ UNCHANGED <<cs_main, cs_wallet>>

Return ==
    rpc' = Idle /\ cs_main' = "free" /\ cs_wallet' = "free"

(* An exception: the scoped locks of execute are left, those entered by hand *)
(* are not, and the thread of the connection ends.                           *)
Throw ==
    /\ rpc' = Idle
    /\ cs_main' = IF rpc.cmd = "updateAlias" THEN "gone" ELSE "free"
    /\ cs_wallet' = cs_main'

Unstarted == {k \in Threads : clean[k].pc = "none" /\ topup[k] = "none"}

(* Refused when the wallet is unlocked already or the passphrase is wrong.   *)
WalletPassphraseFails ==
    /\ At("walletpassphrase", "start")
    /\ Throw
    /\ UNCHANGED <<unlocked, nWalletUnlockTime, stakingOnly, clean, topup, pool, now, died>>

WalletPassphrase ==
    /\ At("walletpassphrase", "start")
    /\ ~unlocked
    /\ Unstarted # {} /\ \E t \in Timeout : now + t <= MaxNow    \* bounds
    /\ unlocked' = TRUE
    /\ Goto("threads")
    /\ UNCHANGED <<nWalletUnlockTime, stakingOnly, clean, topup, pool, now, died>>

(* The two threads are created; what they do comes later.  (When             *)
(* params[2].get_bool() throws, stakingOnly stays as it is.)                 *)
WalletPassphraseThreads(timeout, fStaking) ==
    /\ At("walletpassphrase", "threads")
    /\ now + timeout <= MaxNow
    /\ LET k == CHOOSE k \in Unstarted : TRUE IN
         /\ clean' = [clean EXCEPT ![k] = [NoThread EXCEPT !.pc = "start", !.arg = timeout]]
         /\ topup' = [topup EXCEPT ![k] = "start"]
    /\ stakingOnly' = fStaking
    /\ Return
    /\ UNCHANGED <<unlocked, nWalletUnlockTime, pool, now, died>>

(* params[1].get_int64() throws: the wallet is unlocked, and no thread that  *)
(* would lock it has been created.                                           *)
WalletPassphraseMistyped ==
    /\ MayMistype /\ At("walletpassphrase", "threads")
    /\ LET k == CHOOSE k \in Unstarted : TRUE IN topup' = [topup EXCEPT ![k] = "start"]
    /\ Throw
    /\ UNCHANGED <<unlocked, nWalletUnlockTime, stakingOnly, clean, pool, now, died>>

WalletLock ==
    /\ At("walletlock", "start")
    /\ unlocked' = FALSE
    /\ nWalletUnlockTime' = 0
    /\ Return
    /\ UNCHANGED <<stakingOnly, clean, topup, pool, now, died>>

(* ChangeWalletPassphrase: remember, lock, derive a key from the old         *)
(* passphrase, unlock with it, derive and write the new one, lock again.     *)
ChangeBegin ==
    /\ At("walletpassphrasechange", "start")
    /\ rpc' = [rpc EXCEPT !.pc = "lock", !.fWasLocked = ~unlocked]
    /\ UNCHANGED <<unlocked, nWalletUnlockTime, stakingOnly, clean, topup, pool,
                   cs_main, cs_wallet, now, died>>
ChangeLock ==
    /\ At("walletpassphrasechange", "lock")
    /\ unlocked' = FALSE
    /\ Goto("derive")
    /\ UNCHANGED <<nWalletUnlockTime, stakingOnly, clean, topup, pool, now, died>>
ChangeWrong ==
    /\ At("walletpassphrasechange", "derive")
    /\ Throw
    /\ UNCHANGED <<unlocked, nWalletUnlockTime, stakingOnly, clean, topup, pool, now, died>>
ChangeUnlock ==
    /\ At("walletpassphrasechange", "derive")
    /\ unlocked' = TRUE
    /\ Goto("write")
    /\ UNCHANGED <<nWalletUnlockTime, stakingOnly, clean, topup, pool, now, died>>
ChangeEnd ==
    /\ At("walletpassphrasechange", "write")
    /\ unlocked' = (unlocked /\ ~rpc.fWasLocked)
    /\ Return
    /\ UNCHANGED <<nWalletUnlockTime, stakingOnly, clean, topup, pool, now, died>>

(* EnsureWalletIsUnlocked, from inside the sections entered by hand.         *)
Refused == ~unlocked \/ stakingOnly
AliasRefused ==
    /\ At("updateAlias", "start") /\ Refused
    /\ Throw
    /\ UNCHANGED <<unlocked, nWalletUnlockTime, stakingOnly, clean, topup, pool, now, died>>
AliasAllowed ==
    /\ At("updateAlias", "start") /\ ~Refused
    /\ Goto("key")
    /\ UNCHANGED <<unlocked, nWalletUnlockTime, stakingOnly, clean, topup, pool, now, died>>
NewAddress ==
    /\ At("getnewaddress", "start")
    /\ Goto("key")
    /\ UNCHANGED <<unlocked, nWalletUnlockTime, stakingOnly, clean, topup, pool, now, died>>

(* ReserveKeyFromKeyPool: fill the pool up if the wallet is unlocked, then   *)
(* take the oldest key; the transaction that follows for an alias does not   *)
(* matter here.  The tests and GenerateNewKey's own test are separate steps: *)
(* in between the wallet may get locked.                                     *)
ReserveTopUp ==
    /\ rpc.pc = "key" /\ unlocked /\ pool < KeyPoolTarget + 1
    /\ Goto("generate")
    /\ UNCHANGED <<unlocked, nWalletUnlockTime, stakingOnly, clean, topup, pool, now, died>>
ReserveGenerate ==
    /\ rpc.pc = "generate" /\ unlocked
    /\ pool' = pool + 1
    /\ Goto(IF pool' < KeyPoolTarget + 1 THEN "generate" ELSE "take")
    /\ UNCHANGED <<unlocked, nWalletUnlockTime, stakingOnly, clean, topup, now, died>>
ReserveGenerateFails ==
    /\ rpc.pc = "generate" /\ ~unlocked
    /\ Throw
    /\ UNCHANGED <<unlocked, nWalletUnlockTime, stakingOnly, clean, topup, pool, now, died>>

(* Mutant: a key is taken without looking whether there is one.              *)
ReserveTake_EmptyPool ==
    /\ \/ rpc.pc = "take"
       \/ rpc.pc = "key" /\ (~unlocked \/ pool >= KeyPoolTarget + 1)
    /\ pool' = pool - 1
    /\ Return
    /\ UNCHANGED <<unlocked, nWalletUnlockTime, stakingOnly, clean, topup, now, died>>

ReserveTake ==
    /\ \/ rpc.pc = "take"
       \/ rpc.pc = "key" /\ (~unlocked \/ pool >= KeyPoolTarget + 1)
    /\ pool > 0
    /\ pool' = pool - 1
    /\ Return
    /\ UNCHANGED <<unlocked, nWalletUnlockTime, stakingOnly, clean, topup, now, died>>
ReserveNone ==
    /\ rpc.pc = "key" /\ ~unlocked /\ pool = 0
    /\ Throw
    /\ UNCHANGED <<unlocked, nWalletUnlockTime, stakingOnly, clean, topup, pool, now, died>>

-----------------------------------------------------------------------------
(* ThreadTopUpKeyPool.  It catches nothing: if GenerateNewKey throws because *)
(* the wallet was locked meanwhile, the process is terminated.               *)

TopUpBegin(k) ==
    /\ topup[k] = "start" /\ cs_wallet = "free"
    /\ IF unlocked /\ pool < KeyPoolTarget + 1
       THEN topup' = [topup EXCEPT ![k] = "generate"] /\ cs_wallet' = "topup"
       ELSE topup' = [topup EXCEPT ![k] = "done"] /\ UNCHANGED cs_wallet
    /\ UNCHANGED <<unlocked, nWalletUnlockTime, stakingOnly, clean, pool, cs_main, rpc, now, died>>

(* Mutant: the last key made, cs_wallet is not left.                         *)
TopUpGenerate_KeepSection(k) ==
    /\ topup[k] = "generate" /\ unlocked
    /\ pool' = pool + 1
    /\ topup' = [topup EXCEPT ![k] = IF pool' < KeyPoolTarget + 1 THEN "generate" ELSE "done"]
    /\ UNCHANGED <<unlocked, nWalletUnlockTime, stakingOnly, clean, cs_main, cs_wallet,
                   rpc, now, died>>

TopUpGenerate(k) ==
    /\ topup[k] = "generate" /\ unlocked
    /\ pool' = pool + 1
    /\ IF pool' < KeyPoolTarget + 1 THEN UNCHANGED <<topup, cs_wallet>>
       ELSE topup' = [topup EXCEPT ![k] = "done"] /\ cs_wallet' = "free"
    /\ UNCHANGED <<unlocked, nWalletUnlockTime, stakingOnly, clean, cs_main, rpc, now, died>>
TopUpThrows(k) ==
    /\ topup[k] = "generate" /\ ~unlocked
    /\ died' = TRUE
    /\ unlocked' = FALSE /\ nWalletUnlockTime' = 0 /\ rpc' = Idle
    /\ clean' = [j \in Threads |-> [NoThread EXCEPT !.pc = "done"]]
    /\ topup' = [j \in Threads |-> "done"]
    /\ cs_main' = "gone" /\ cs_wallet' = "gone"
    /\ UNCHANGED <<stakingOnly, pool, now>>

-----------------------------------------------------------------------------
(* ThreadCleanWalletPassphrase, all of it under cs_nWalletUnlockTime except  *)
(* the computation of nMyWakeTime and the sleep.                             *)

CleanStart(k) ==
    /\ clean[k].pc = "start"
    /\ clean' = [clean EXCEPT ![k].pc = "enter", ![k].wake = now + clean[k].arg]
    /\ UNCHANGED <<unlocked, nWalletUnlockTime, stakingOnly, topup, pool,
                   cs_main, cs_wallet, rpc, now, died>>

(* The loop: give up when somebody has reset the time, lock when it has      *)
(* come, and otherwise sleep until it comes.                                 *)
Loop_NeverLock(k, time) ==
    IF time = 0 \/ time <= now
    THEN /\ nWalletUnlockTime' = 0
         /\ clean' = [clean EXCEPT ![k] = [NoThread EXCEPT !.pc = "done"]]
         /\ UNCHANGED unlocked
    ELSE /\ nWalletUnlockTime' = time
         /\ clean' = [clean EXCEPT ![k].pc = "asleep", ![k].wake = time]
         /\ UNCHANGED unlocked

Loop(k, time) ==
    IF time = 0 \/ time <= now
    THEN /\ nWalletUnlockTime' = 0
         /\ clean' = [clean EXCEPT ![k] = [NoThread EXCEPT !.pc = "done"]]
         /\ unlocked' = (unlocked /\ time = 0)
    ELSE /\ nWalletUnlockTime' = time
         /\ clean' = [clean EXCEPT ![k].pc = "asleep", ![k].wake = time]
         /\ UNCHANGED unlocked

(* Mutant: a thread that starts late extends the time and does not stay.     *)
CleanEnter_AlwaysExtend(k) ==
    /\ clean[k].pc = "enter"
    /\ nWalletUnlockTime' = IF nWalletUnlockTime < clean[k].wake THEN clean[k].wake
                            ELSE nWalletUnlockTime
    /\ clean' = [clean EXCEPT ![k] = [NoThread EXCEPT !.pc = "done"]]
    /\ UNCHANGED unlocked
    /\ UNCHANGED <<stakingOnly, topup, pool, cs_main, cs_wallet, rpc, now, died>>

CleanEnter(k) ==
    /\ clean[k].pc = "enter"
    /\ IF nWalletUnlockTime = 0 THEN Loop(k, clean[k].wake)
       ELSE /\ nWalletUnlockTime' = IF nWalletUnlockTime < clean[k].wake THEN clean[k].wake
                                    ELSE nWalletUnlockTime
            /\ clean' = [clean EXCEPT ![k] = [NoThread EXCEPT !.pc = "done"]]
            /\ UNCHANGED unlocked
    /\ UNCHANGED <<stakingOnly, topup, pool, cs_main, cs_wallet, rpc, now, died>>

CleanWake(k) ==
    /\ clean[k].pc = "asleep" /\ now >= clean[k].wake
    /\ Loop(k, nWalletUnlockTime)
    /\ UNCHANGED <<stakingOnly, topup, pool, cs_main, cs_wallet, rpc, now, died>>

(* Bound: the clock leaves room for the timers that are not set yet.         *)
Tick ==
    /\ now < MaxNow
    /\ \A k \in Threads : clean[k].pc = "start" => now + clean[k].arg < MaxNow
    /\ At("walletpassphrase", "threads") => \E t \in Timeout : now + t < MaxNow
    /\ now' = now + 1
    /\ UNCHANGED <<unlocked, nWalletUnlockTime, stakingOnly, clean, topup, pool,
                   cs_main, cs_wallet, rpc, died>>

-----------------------------------------------------------------------------
Command ==
    \/ EnterWallet
    \/ WalletPassphraseFails \/ WalletPassphrase
    \/ \E timeout \in Timeout, fStaking \in BOOLEAN : WalletPassphraseThreads(timeout, fStaking)
    \/ WalletPassphraseMistyped
    \/ WalletLock
    \/ ChangeBegin \/ ChangeLock \/ ChangeWrong \/ ChangeUnlock \/ ChangeEnd
    \/ AliasRefused \/ AliasAllowed \/ NewAddress
    \/ ReserveTopUp \/ ReserveGenerate \/ ReserveGenerateFails \/ ReserveTake \/ ReserveNone

TopUp(k) == TopUpBegin(k) \/ TopUpGenerate(k) \/ TopUpThrows(k)
Clean(k) == CleanStart(k) \/ CleanEnter(k) \/ CleanWake(k)

Next ==
    \/ \E c \in Commands : Call(c)
    \/ Command
    \/ \E k \in Threads : TopUp(k) \/ Clean(k)
    \/ Tick

(* Threads that can run do run, and time passes; nobody has to call.         *)
Fairness ==
    /\ WF_vars(Command)
    /\ \A k \in Threads : WF_vars(Clean(k)) /\ WF_vars(TopUp(k))
    /\ WF_vars(Tick)

Spec == Init /\ [][Next]_vars /\ Fairness

-----------------------------------------------------------------------------
(* The shape of the state; the key pool never exceeds its target by more    *)
(* than the one key TopUpKeyPool allows.                                    *)
TypeOK ==
    /\ unlocked \in BOOLEAN /\ stakingOnly \in BOOLEAN /\ died \in BOOLEAN
    /\ nWalletUnlockTime \in Nat /\ now \in Nat /\ pool \in 0 .. KeyPoolTarget + 1
    /\ clean \in [Threads -> [pc : {"none", "start", "enter", "asleep", "done"},
                              arg : Timeout \cup {0}, wake : Nat]]
    /\ topup \in [Threads -> {"none", "start", "generate", "done"}]
    /\ cs_main \in {"free", "rpc", "gone"}
    /\ cs_wallet \in {"free", "rpc", "topup", "gone"}
    /\ rpc \in [cmd : Commands \cup {"none"}, fWasLocked : BOOLEAN,
                pc : {"idle", "cs_wallet", "start", "threads", "lock", "derive", "write",
                      "key", "generate", "take"}]

(* While nWalletUnlockTime is set, a thread is asleep that will wake up in   *)
(* time to act on it, whatever walletlock, later calls of walletpassphrase   *)
(* and threads that start late did to the variable (rpcwallet.cpp 2081-2119).*)
TimerHasThread ==
    nWalletUnlockTime # 0 =>
        \E k \in Threads : clean[k].pc = "asleep" /\ clean[k].wake <= nWalletUnlockTime

(* A wallet that is unlocked with a timer set does not stay so.              *)
TimerLocks == unlocked /\ nWalletUnlockTime # 0 ~> ~unlocked

(* A command that has entered cs_main gets to its end: the key pool thread,  *)
(* the relocking threads and the command do not block each other.            *)
CallReturns == rpc.pc # "idle" ~> rpc.pc = "idle"

(* "Stores the wallet decryption key in memory for <timeout> seconds"        *)
(* (walletpassphrase): when every timeout is a number, the key does not stay *)
(* in memory for ever.                                                       *)
KeyForgotten == unlocked ~> ~unlocked

=============================================================================
