-------------------------- MODULE WalletLockProofs --------------------------
(***************************************************************************)
(* Theorems about WalletLock, for any number of walletpassphrase calls, any *)
(* timeouts and any key pool size.                                          *)
(***************************************************************************)
EXTENDS WalletLock, TLAPS

(* The fields of TypeOK that are records.                                   *)
ThreadState == [pc : {"none", "start", "enter", "asleep", "done"},
                arg : Timeout \cup {0}, wake : Nat]
CallState == [cmd : Commands \cup {"none"}, fWasLocked : BOOLEAN,
              pc : {"idle", "cs_wallet", "start", "threads", "lock", "derive", "write",
                    "key", "generate", "take"}]

(* Who is in cs_wallet while keys are made, and what follows: only one      *)
(* thread fills the key pool, and it has room for the key that comes next.  *)
Inside == rpc.pc \notin {"idle", "cs_wallet"}

Sections ==
    /\ Inside => cs_wallet = "rpc"
    /\ \A k \in Threads : topup[k] = "generate" => cs_wallet = "topup"
    /\ \A j, k \in Threads : topup[j] = "generate" /\ topup[k] = "generate" => j = k
    /\ rpc.pc = "generate" => pool < KeyPoolTarget + 1
    /\ \A k \in Threads : topup[k] = "generate" => pool < KeyPoolTarget + 1
    /\ rpc.pc = "threads" => Unstarted # {}

IInv == TypeOK /\ Sections

(* The invariant holds when the wallet is loaded.                           *)
LEMMA IInvInit == Init => IInv
<1> SUFFICES ASSUME Init PROVE IInv
  OBVIOUS
<1> USE BoundsAssumption DEF Init
<1>1. NoThread \in ThreadState
  BY DEF NoThread, ThreadState
<1>2. rpc \in CallState
  BY DEF Idle, CallState
<1>3. TypeOK
  <2>1. unlocked \in BOOLEAN /\ stakingOnly \in BOOLEAN /\ died \in BOOLEAN
    BY Zenon
  <2>2. pool \in 0 .. KeyPoolTarget + 1 /\ nWalletUnlockTime \in Nat /\ now \in Nat
    BY SMT
  <2> QED BY <1>1, <1>2, <2>1, <2>2 DEF TypeOK, ThreadState, CallState
<1>4. Sections BY DEF Sections, Inside, Idle
<1> QED BY <1>3, <1>4 DEF IInv

(* The steps of a command, in three groups.                                 *)
LEMMA EnterStep ==
    ASSUME IInv,
           \/ \E c \in Commands : Call(c)
           \/ EnterWallet \/ WalletPassphraseFails \/ WalletPassphrase \/ WalletLock
           \/ WalletPassphraseMistyped
           \/ \E timeout \in Timeout, fStaking \in BOOLEAN :
                    WalletPassphraseThreads(timeout, fStaking)
    PROVE  IInv'
<1> USE DEF IInv, TypeOK, Sections, Inside, Idle, At, Goto, Return, Throw, Unstarted
<1>1. ASSUME NEW c \in Commands, Call(c) PROVE IInv'
  <2>1. rpc' = [cmd |-> c, pc |-> "cs_wallet", fWasLocked |-> FALSE]
    BY <1>1 DEF Call
  <2>2. c \in Commands \cup {"none"} /\ FALSE \in BOOLEAN
    BY <1>1, Zenon
  <2>3. rpc' \in CallState
    BY <2>1, <2>2 DEF CallState
  <2>4. /\ cs_main' = "rpc" /\ rpc'.pc = "cs_wallet"
        /\ UNCHANGED <<unlocked, nWalletUnlockTime, stakingOnly, clean, topup, pool,
                       cs_wallet, now, died>>
    BY <1>1, <2>1 DEF Call
  <2>5. TypeOK' BY <2>3, <2>4 DEF CallState
  <2>6. Sections' BY <2>4
  <2> QED BY <2>5, <2>6
<1>2. CASE EnterWallet
  BY <1>2 DEF EnterWallet
<1>3. CASE WalletPassphraseFails
  BY <1>3 DEF WalletPassphraseFails
<1>4. CASE WalletPassphrase
  BY <1>4 DEF WalletPassphrase
<1>5. CASE WalletLock
  BY <1>5, BoundsAssumption DEF WalletLock
<1>6. ASSUME NEW timeout \in Timeout, NEW fStaking \in BOOLEAN,
             WalletPassphraseThreads(timeout, fStaking)
      PROVE  IInv'
  BY <1>6, BoundsAssumption DEF WalletPassphraseThreads, NoThread
<1>7. CASE WalletPassphraseMistyped
  BY <1>7 DEF WalletPassphraseMistyped
<1> QED BY <1>1, <1>2, <1>3, <1>4, <1>5, <1>6, <1>7

(* walletpassphrasechange, the naming command and the start of getnewaddress.*)
LEMMA ChangeStep ==
    ASSUME IInv,
           \/ ChangeBegin \/ ChangeLock \/ ChangeWrong \/ ChangeUnlock \/ ChangeEnd
           \/ AliasRefused \/ AliasAllowed \/ NewAddress
    PROVE  IInv'
<1> USE DEF IInv, TypeOK, Sections, Inside, Idle, At, Goto, Return, Throw, Unstarted
<1>1. CASE ChangeBegin BY <1>1 DEF ChangeBegin
<1>2. CASE ChangeLock BY <1>2 DEF ChangeLock
<1>3. CASE ChangeWrong BY <1>3 DEF ChangeWrong
<1>4. CASE ChangeUnlock BY <1>4 DEF ChangeUnlock
<1>5. CASE ChangeEnd BY <1>5 DEF ChangeEnd
<1>6. CASE AliasRefused BY <1>6 DEF AliasRefused
<1>7. CASE AliasAllowed BY <1>7 DEF AliasAllowed
<1>8. CASE NewAddress BY <1>8 DEF NewAddress
<1> QED BY <1>1, <1>2, <1>3, <1>4, <1>5, <1>6, <1>7, <1>8

(* The steps of ReserveKeyFromKeyPool; the pool stays within its target.     *)
LEMMA ReserveStep ==
    ASSUME IInv,
           \/ ReserveTopUp \/ ReserveGenerate \/ ReserveGenerateFails
           \/ ReserveTake \/ ReserveNone
    PROVE  IInv'
<1> USE BoundsAssumption
    DEF IInv, TypeOK, Sections, Inside, Idle, Goto, Return, Throw, Unstarted
<1>1. CASE ReserveTopUp BY <1>1 DEF ReserveTopUp
<1>2. CASE ReserveGenerate BY <1>2 DEF ReserveGenerate
<1>3. CASE ReserveGenerateFails BY <1>3 DEF ReserveGenerateFails
<1>4. CASE ReserveTake BY <1>4 DEF ReserveTake
<1>5. CASE ReserveNone BY <1>5 DEF ReserveNone
<1> QED BY <1>1, <1>2, <1>3, <1>4, <1>5

(* The steps of the threads a walletpassphrase leaves behind.               *)
LEMMA TopUpStep ==
    ASSUME IInv, NEW k \in Threads, TopUp(k)
    PROVE  IInv'
<1> USE BoundsAssumption DEF IInv, TypeOK, Sections, Inside, Unstarted
<1>1. CASE TopUpBegin(k) BY <1>1 DEF TopUpBegin
<1>2. CASE TopUpGenerate(k) BY <1>2 DEF TopUpGenerate
<1>3. CASE TopUpThrows(k) BY <1>3 DEF TopUpThrows, Idle, NoThread
<1> QED BY <1>1, <1>2, <1>3 DEF TopUp

(* A step of one relocking thread, which was started before.                *)
LEMMA CleanRest ==
    ASSUME IInv, NEW k \in Threads, clean[k].pc # "none",
           NEW s \in ThreadState, s.pc # "none",
           clean' = [clean EXCEPT ![k] = s],
           nWalletUnlockTime' \in Nat, unlocked' \in BOOLEAN,
           UNCHANGED <<stakingOnly, topup, pool, cs_main, cs_wallet, rpc, now, died>>
    PROVE  IInv'
<1>1. clean' \in [Threads -> ThreadState]
  BY DEF IInv, TypeOK, ThreadState
<1>2. Unstarted' = Unstarted
  BY DEF IInv, TypeOK, ThreadState, Unstarted
<1>3. TypeOK'
  BY <1>1 DEF IInv, TypeOK, ThreadState
<1>4. Sections'
  BY <1>2 DEF IInv, Sections, Inside
<1> QED BY <1>3, <1>4 DEF IInv

(* The relocking threads, which touch neither section.                       *)
LEMMA CleanStep ==
    ASSUME IInv, NEW k \in Threads, Clean(k)
    PROVE  IInv'
<1> DEFINE s == clean[k]
<1>0. s \in ThreadState /\ now \in Nat /\ nWalletUnlockTime \in Nat /\ unlocked \in BOOLEAN
  BY DEF IInv, TypeOK, ThreadState
<1>a. s.arg \in Timeout \cup {0} /\ s.wake \in Nat
  BY <1>0 DEF ThreadState
<1>b. s.arg \in Nat
  BY <1>a, BoundsAssumption
<1>c. [NoThread EXCEPT !.pc = "done"] \in ThreadState
  BY DEF NoThread, ThreadState
<1>d. ASSUME NEW t \in Nat
      PROVE  [s EXCEPT !.pc = "asleep", !.wake = t] \in ThreadState
  BY <1>0 DEF ThreadState
<1>1. CASE CleanStart(k)
  <2>1. s.pc = "start" /\ clean' = [clean EXCEPT ![k] = [s EXCEPT !.pc = "enter", !.wake = now + s.arg]]
    BY <1>1 DEF CleanStart
  <2>a. now + s.arg \in Nat
    BY <1>0, <1>b
  <2>2. [s EXCEPT !.pc = "enter", !.wake = now + s.arg] \in ThreadState
    BY <1>0, <2>a DEF ThreadState
  <2>3. [s EXCEPT !.pc = "enter", !.wake = now + s.arg].pc # "none"
    BY <1>0 DEF ThreadState
  <2>4. UNCHANGED <<unlocked, nWalletUnlockTime>>
    BY <1>1 DEF CleanStart
  <2> QED BY <1>0, <1>1, <2>1, <2>2, <2>3, <2>4, CleanRest DEF CleanStart
<1>l. ASSUME NEW t \in Nat, Loop(k, t)
      PROVE  /\ \E r \in ThreadState : r.pc # "none" /\ clean' = [clean EXCEPT ![k] = r]
             /\ nWalletUnlockTime' \in Nat /\ unlocked' \in BOOLEAN
  <2>1. CASE t = 0 \/ t <= now
    <3>1. unlocked' = (unlocked /\ t = 0) /\ nWalletUnlockTime' = 0
      BY <1>l, <2>1 DEF Loop
    <3>2. unlocked' \in BOOLEAN
      BY <3>1, Zenon
    <3>3. clean' = [clean EXCEPT ![k] = [NoThread EXCEPT !.pc = "done"]]
      BY <1>l, <2>1 DEF Loop
    <3> QED BY <1>c, <3>1, <3>2, <3>3 DEF NoThread
  <2>2. CASE ~(t = 0 \/ t <= now)
    <3>1. clean' = [clean EXCEPT ![k] = [s EXCEPT !.pc = "asleep", !.wake = t]]
      BY <1>l, <2>2 DEF Loop
    <3>2. [s EXCEPT !.pc = "asleep", !.wake = t].pc # "none"
      BY <1>0 DEF ThreadState
    <3> QED BY <1>0, <1>d, <1>l, <2>2, <3>1, <3>2 DEF Loop
  <2> QED BY <2>1, <2>2
<1>2. CASE CleanEnter(k)
  <2>1. /\ \E r \in ThreadState : r.pc # "none" /\ clean' = [clean EXCEPT ![k] = r]
        /\ nWalletUnlockTime' \in Nat /\ unlocked' \in BOOLEAN
    <3>1. CASE nWalletUnlockTime = 0
      BY <1>2, <1>a, <1>l, <3>1 DEF CleanEnter
    <3>2. CASE nWalletUnlockTime # 0
      BY <1>0, <1>2, <1>a, <1>c, <3>2 DEF CleanEnter, NoThread
    <3> QED BY <3>1, <3>2
  <2> QED BY <1>2, <2>1, CleanRest DEF CleanEnter
<1>3. CASE CleanWake(k)
  BY <1>0, <1>3, <1>l, CleanRest DEF CleanWake
<1> QED BY <1>1, <1>2, <1>3 DEF Clean

(* Every step keeps the inductive invariant.                                 *)
LEMMA IInvNext == IInv /\ [Next]_vars => IInv'
<1> SUFFICES ASSUME IInv, [Next]_vars PROVE IInv'
  OBVIOUS
<1>1. CASE Tick
  BY <1>1 DEF Tick, IInv, TypeOK, Sections, Inside, Unstarted
<1>2. CASE UNCHANGED vars
  BY <1>2 DEF vars, IInv, TypeOK, Sections, Inside, Unstarted
<1> QED BY <1>1, <1>2, EnterStep, ChangeStep, ReserveStep, TopUpStep, CleanStep
        DEF Next, Command

(* Every reachable state is well formed: the key pool thread and the        *)
(* commands together never overfill setKeyPool (TopUpKeyPool).              *)
THEOREM TypeCorrect == Spec => []TypeOK
<1>1. IInv => TypeOK BY DEF IInv
<1> QED BY <1>1, IInvInit, IInvNext, PTL DEF Spec

-----------------------------------------------------------------------------
(* A step that moves no sleeping thread and only puts off or clears the time*)
(* keeps the witness.                                                       *)
LEMMA SleeperStays ==
    ASSUME IInv, IInv', TimerHasThread,
           \A k \in Threads : clean[k].pc = "asleep" => clean'[k] = clean[k],
           nWalletUnlockTime' = 0 \/ nWalletUnlockTime <= nWalletUnlockTime',
           nWalletUnlockTime' # 0 => nWalletUnlockTime # 0
    PROVE  TimerHasThread'
<1> SUFFICES ASSUME nWalletUnlockTime' # 0 PROVE TimerHasThread'
  BY DEF TimerHasThread
<1>1. PICK k \in Threads : clean[k].pc = "asleep" /\ clean[k].wake <= nWalletUnlockTime
  BY DEF TimerHasThread
<1>2. clean[k].wake \in Nat /\ nWalletUnlockTime \in Nat /\ nWalletUnlockTime' \in Nat
  BY DEF IInv, TypeOK
<1> QED BY <1>1, <1>2 DEF TimerHasThread

(* The loop of ThreadCleanWalletPassphrase leaves the thread asleep until   *)
(* the time it leaves in nWalletUnlockTime, or that time reset.             *)
LEMMA LoopSleeps ==
    ASSUME IInv, NEW k \in Threads, NEW t \in Nat, Loop(k, t)
    PROVE  TimerHasThread'
<1>1. CASE t = 0 \/ t <= now
  BY <1>1 DEF Loop, TimerHasThread
<1>2. CASE ~(t = 0 \/ t <= now)
  <2>1. /\ nWalletUnlockTime' = t
        /\ clean' = [clean EXCEPT ![k] = [clean[k] EXCEPT !.pc = "asleep", !.wake = t]]
    BY <1>2 DEF Loop
  <2>2. clean'[k].pc = "asleep" /\ clean'[k].wake = t
    BY <2>1 DEF IInv, TypeOK
  <2> QED BY <2>1, <2>2 DEF TimerHasThread
<1> QED BY <1>1, <1>2

(* A timer that is set keeps its thread, or gets another one.                *)
LEMMA TimerNext == IInv /\ IInv' /\ TimerHasThread /\ [Next]_vars => TimerHasThread'
<1> SUFFICES ASSUME IInv, IInv', TimerHasThread, [Next]_vars PROVE TimerHasThread'
  OBVIOUS
<1>a. nWalletUnlockTime \in Nat
  BY DEF IInv, TypeOK
<1>1. ASSUME UNCHANGED <<nWalletUnlockTime, clean>> PROVE TimerHasThread'
  BY <1>1 DEF TimerHasThread
<1>2. CASE WalletLock
  BY <1>2 DEF WalletLock, TimerHasThread
<1>3. ASSUME NEW timeout \in Timeout, NEW fStaking \in BOOLEAN,
             WalletPassphraseThreads(timeout, fStaking)
      PROVE  TimerHasThread'
  <2> DEFINE j == CHOOSE k \in Unstarted : TRUE
  <2>1. j \in Threads /\ clean[j].pc = "none"
    BY <1>3 DEF WalletPassphraseThreads, At, IInv, Sections, Unstarted
  <2>2. \A k \in Threads \ {j} : clean'[k] = clean[k]
    BY <1>3 DEF WalletPassphraseThreads, IInv, TypeOK
  <2>3. nWalletUnlockTime' = nWalletUnlockTime
    BY <1>3 DEF WalletPassphraseThreads
  <2> HIDE DEF j
  <2>4. \A k \in Threads : clean[k].pc = "asleep" => clean'[k] = clean[k]
    BY <2>1, <2>2
  <2> QED BY <1>a, <2>3, <2>4, SleeperStays
<1>4. ASSUME NEW k \in Threads, TopUp(k) PROVE TimerHasThread'
  <2>1. CASE TopUpThrows(k) BY <2>1 DEF TopUpThrows, TimerHasThread
  <2>2. CASE TopUpBegin(k) BY <1>1, <2>2 DEF TopUpBegin
  <2>3. CASE TopUpGenerate(k) BY <1>1, <2>3 DEF TopUpGenerate
  <2> QED BY <1>4, <2>1, <2>2, <2>3 DEF TopUp
<1>5. ASSUME NEW k \in Threads, Clean(k) PROVE TimerHasThread'
  <2>a. clean[k].wake \in Nat
    BY DEF IInv, TypeOK
  <2>b. clean \in [Threads -> ThreadState]
    BY DEF IInv, TypeOK, ThreadState
  <2>1. CASE CleanStart(k)
    <3>1. clean[k].pc # "asleep" /\ \A j \in Threads \ {k} : clean'[j] = clean[j]
      BY <2>1, <2>b DEF CleanStart
    <3>2. nWalletUnlockTime' = nWalletUnlockTime
      BY <2>1 DEF CleanStart
    <3> QED BY <1>a, <3>1, <3>2, SleeperStays
  <2>2. CASE CleanEnter(k)
    <3>1. CASE nWalletUnlockTime = 0
      BY <2>2, <2>a, <3>1, LoopSleeps DEF CleanEnter
    <3>2. CASE nWalletUnlockTime # 0
      <4>1. clean[k].pc # "asleep" /\ \A j \in Threads \ {k} : clean'[j] = clean[j]
        BY <2>2, <2>b, <3>2 DEF CleanEnter
      <4>2. nWalletUnlockTime <= nWalletUnlockTime'
        BY <1>a, <2>2, <2>a, <3>2 DEF CleanEnter
      <4> QED BY <3>2, <4>1, <4>2, SleeperStays
    <3> QED BY <3>1, <3>2
  <2>3. CASE CleanWake(k)
    BY <1>a, <2>3, LoopSleeps DEF CleanWake
  <2> QED BY <1>5, <2>1, <2>2, <2>3 DEF Clean
<1>6. CASE Tick \/ UNCHANGED vars \/ \E c \in Commands : Call(c)
  BY <1>1, <1>6 DEF Tick, vars, Call
<1>7. CASE \/ EnterWallet \/ WalletPassphraseFails \/ WalletPassphrase \/ WalletPassphraseMistyped
           \/ ChangeBegin \/ ChangeLock \/ ChangeWrong \/ ChangeUnlock \/ ChangeEnd
  BY <1>1, <1>7 DEF EnterWallet, WalletPassphraseFails, WalletPassphrase,
                   WalletPassphraseMistyped,
                   ChangeBegin, ChangeLock, ChangeWrong, ChangeUnlock, ChangeEnd
<1>8. CASE \/ AliasRefused \/ AliasAllowed \/ NewAddress \/ ReserveTopUp
           \/ ReserveGenerate \/ ReserveGenerateFails \/ ReserveTake \/ ReserveNone
  BY <1>1, <1>8 DEF AliasRefused, AliasAllowed, NewAddress, ReserveTopUp,
                   ReserveGenerate, ReserveGenerateFails, ReserveTake, ReserveNone
<1> QED BY <1>2, <1>3, <1>4, <1>5, <1>6, <1>7, <1>8 DEF Next, Command

(* The timer of walletpassphrase is never orphaned: as long as the time is  *)
(* set, some ThreadCleanWalletPassphrase sleeps that wakes no later.        *)
THEOREM TimerKept == Spec => []TimerHasThread
<1>1. Init => TimerHasThread BY DEF Init, TimerHasThread
<1> QED BY <1>1, IInvInit, IInvNext, TimerNext, PTL DEF Spec
=============================================================================
