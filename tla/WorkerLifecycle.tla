--------------------------- MODULE WorkerLifecycle ---------------------------
(***************************************************************************)
(* The life of the worker's processes, from load_enclave_signer (env.rs)   *)
(* over initialize_oracle_signer (worker.rs) to the end of run() and the   *)
(* restart (main.rs).  A pod runs one process at a time; all pods use the  *)
(* same payer.  On a host the only pod's key file outlives the process.    *)
(* On Kubernetes it is in the container's own layer (the chart mounts no   *)
(* volume for it) and is lost with each restart, and a rolling update      *)
(* starts the next pod before it stops the last one.                       *)
(*                                                                         *)
(* OracleSystem has one process at a time, with any key; here are the key  *)
(* file and all pods, whose register_oracle transactions can be lost or    *)
(* land after their sender is gone.  The chain is that of BackfillProgram; *)
(* the operator has run its initialize, and other authorities register     *)
(* oracles of their own.                                                   *)
(***************************************************************************)
EXTENDS BackfillProgram, FiniteSetsExt

CONSTANTS
  Pods,          \* pods the deployment goes through, numbered by age
  Payer,         \* the payer of all pods, authority of their oracle account
  KeyBytes,      \* length of a sealed key pair (64 in the code)
  BlockhashAge,  \* slots for which a blockhash is accepted (150 on Solana)
  Funds,         \* the payer's initial balance, in transaction fees
  MaxFaults,     \* bound: lost calls and transactions, killed processes
  MaxFileFaults  \* bound: failures of the key file

Pod == 1 .. Pods

ASSUME LifecycleAssumption ==
  /\ Payer \in Authority
  /\ Signer \subseteq Nat
  /\ {Pods, KeyBytes} \subseteq Nat \ {0}
  /\ {BlockhashAge, Funds, MaxFaults, MaxFileFaults} \subseteq Nat

VARIABLES
  platform,    \* where the worker is deployed
  proc,        \* the process of each pod
  keypair_bin, \* the key file of each pod; a byte is named by its key
  pending,     \* register_oracle transactions sent and not yet executed
  balance,     \* the payer's balance
  faults,
  fileFaults

netVars == <<pending, balance, faults>>
vars == <<platform, programVars, proc, keypair_bin, netVars, fileFaults>>

(* pc of a process:                                                        *)
(*   off         the pod has not been created                              *)
(*   down        waiting for the supervisor                                *)
(*   new         OracleWorker::new has returned                            *)
(*   confirming  register_oracle sent                                      *)
(*   landed      executed, the worker does not know yet                    *)
(*   ready       WorkerStatus::Ready, start() runs the watchers            *)
(*   gone        the pod has been deleted                                  *)
Process ==
  [pc : {"off", "down", "new", "confirming", "landed", "ready", "gone"},
   key : Signer \cup {NoKey}, blockhash : Time]

Idle(pc) == [pc |-> pc, key |-> NoKey, blockhash |-> 0]

Tx(r) == [signer |-> r.key, blockhash |-> r.blockhash]

LifecycleTypeOK ==
  /\ ProgramTypeOK
  /\ platform \in {"host", "kubernetes"}
  /\ proc \in [Pod -> Process]
  /\ keypair_bin \in [Pod -> Seq(Signer)]
  /\ pending \in SUBSET [signer : Signer, blockhash : Time]
  /\ balance \in Nat
  /\ faults \in 0 .. MaxFaults
  /\ fileFaults \in 0 .. MaxFileFaults

LifecycleInit ==
  /\ program = [exists |-> TRUE, oracle |-> NoKey]
  /\ markets = MarketType
  /\ oracles = [a \in Authority |-> [bump |-> 0, enclave_signer |-> NoKey]]
  /\ orders = [o \in OrderKey |-> NoOrder]
  /\ slot = 1
  /\ unix_timestamp = 1
  /\ logs = <<>>
  /\ platform \in {"host", "kubernetes"}
  /\ proc = [p \in Pod |-> Idle(IF p = 1 THEN "down" ELSE "off")]
  /\ keypair_bin = [p \in Pod |-> <<>>]
  /\ pending = {}
  /\ balance = Funds
  /\ faults = 0
  /\ fileFaults = 0

Fault == faults < MaxFaults /\ faults' = faults + 1
FileFault == fileFaults < MaxFileFaults /\ fileFaults' = fileFaults + 1
-----------------------------------------------------------------------------
(* The key file.                                                           *)

Bytes(k, n) == [i \in 1 .. n |-> k]

\* A file longer than one key pair stays so: bound, one byte too many is kept.
Store(p, bytes) ==
  keypair_bin' = [keypair_bin EXCEPT ![p] =
                    SubSeq(bytes, 1, Min({Len(bytes), KeyBytes + 1}))]

\* The process of p has ended and is to be started again.
Restart(p) ==
  /\ proc' = [proc EXCEPT ![p] = Idle("down")]
  /\ keypair_bin' = IF platform = "host" THEN keypair_bin
                    ELSE [keypair_bin EXCEPT ![p] = <<>>]

\* The key pairs that nobody holds, seals or has registered.
UnusedKeys ==
  Signer \ ({proc[p].key : p \in Pod} \cup {tx.signer : tx \in pending}
            \cup UNION {Range(keypair_bin[p]) : p \in Pod}
            \cup {oracles[a].enclave_signer : a \in Authority})

\* A new key pair of a worker.
FreshKey == Min(UnusedKeys)

\* Mutant: the generated key is not written to the file.
load_enclave_signerUnsealed(p, k) ==
  /\ k = FreshKey
  /\ UNCHANGED <<keypair_bin, fileFaults>>

\* Mutant: the buffer is written before the key is in it.
load_enclave_signerZeroes(p, k) ==
  /\ k = FreshKey
  /\ Store(p, Bytes(NoKey, KeyBytes))
  /\ UNCHANGED fileFaults

\* The call returns key k.  A file of exactly KeyBytes bytes is loaded; any other
\* content is left in place and the new key is written behind it.  If the file
\* cannot be opened the new key is not kept, and if it cannot be read the new
\* key is written over it.  A file of KeyBytes bytes that is not one key pair
\* fails the unwrap of Keypair::from_bytes, and the process does not come up.
load_enclave_signer(p, k) ==
  LET file == keypair_bin[p] IN
    \/ /\ file = Bytes(k, KeyBytes)
       /\ UNCHANGED <<keypair_bin, fileFaults>>
    \/ /\ Len(file) # KeyBytes
       /\ k = FreshKey
       /\ Store(p, file \o Bytes(k, KeyBytes))
       /\ UNCHANGED fileFaults
    \/ /\ FileFault
       /\ k = FreshKey
       /\ \/ UNCHANGED keypair_bin
          \/ Store(p, Bytes(k, KeyBytes) \o SubSeq(file, KeyBytes + 1, Len(file)))

\* OracleWorker::new, of a process the supervisor has started.
new(p, k) ==
  /\ proc[p].pc = "down"
  /\ load_enclave_signer(p, k)
  /\ proc' = [proc EXCEPT ![p] = [pc |-> "new", key |-> k, blockhash |-> 0]]
  /\ UNCHANGED <<platform, programVars, netVars>>

\* write_all is cut short (disk full, kill): its unwrap ends the process and
\* leaves a part of the key in the file, if that is kept.
WriteCutShort(p) ==
  /\ proc[p].pc = "down"
  /\ Len(keypair_bin[p]) # KeyBytes
  /\ platform = "host"
  /\ FileFault
  /\ \E k \in Signer, n \in 1 .. KeyBytes - 1 :
       k = FreshKey /\ Store(p, keypair_bin[p] \o Bytes(k, n))
  /\ UNCHANGED <<platform, programVars, proc, netVars>>
-----------------------------------------------------------------------------
(* Registration.                                                           *)

\* The oracle account in words of 8 bytes: discriminator, authority, signer.  (The
\* one-byte bump before the authority moves both by the same byte.)
Words(k) == [i \in 1 .. 4 |-> <<k, i>>]
AccountData ==
  <<"discriminator">> \o Words(Payer) \o Words(oracles[Payer].enclave_signer)

\* enclave_signer as OracleAccount::deserialize finds it: the struct is read from
\* the first byte on, where the discriminator is.  It is never the worker's key.
deserialize(data) == SubSeq(data, 5, 8)

\* send_and_confirm_transaction simulates the transaction before it sends it.
Preflight == RegisterOracle /\ balance > 0

\* initialize_program_accounts (the account exists), the look at the oracle
\* account, and the transaction, signed with the latest blockhash.
initialize_oracle_signer(p) ==
  LET registered == deserialize(AccountData) = Words(proc[p].key)
      sent == [proc[p] EXCEPT !.pc = "confirming", !.blockhash = slot]
  IN
    /\ proc[p].pc = "new"
    /\ IF registered
       THEN /\ proc' = [proc EXCEPT ![p].pc = "ready"]
            /\ UNCHANGED <<pending, keypair_bin>>
       ELSE \/ /\ Preflight
               /\ proc' = [proc EXCEPT ![p] = sent]
               /\ pending' = pending \cup {Tx(sent)}
               /\ UNCHANGED keypair_bin
            \/ /\ ~Preflight
               /\ Restart(p)
               /\ UNCHANGED pending
    /\ UNCHANGED <<platform, programVars, balance, faults, fileFaults>>

\* initialize returns and start() begins.
Confirmed(p) ==
  /\ proc[p].pc = "landed"
  /\ proc' = [proc EXCEPT ![p].pc = "ready"]
  /\ UNCHANGED <<platform, programVars, keypair_bin, netVars, fileFaults>>

ValidBlockhash(h) == slot <= h + BlockhashAge

\* The confirmation is given up when the blockhash expires; a transaction lost at
\* the last slot of the model counts as expired.
Expired(p) ==
  /\ proc[p].pc = "confirming"
  /\ \/ ~ValidBlockhash(proc[p].blockhash)
     \/ slot = MaxSlot /\ Tx(proc[p]) \notin pending
  /\ Restart(p)
  /\ UNCHANGED <<platform, programVars, netVars, fileFaults>>

\* The cluster executes the transaction and charges its fee, whether or not the
\* process that sent it still waits.
Execute(tx) ==
  /\ ValidBlockhash(tx.blockhash)
  /\ balance > 0
  /\ register_oracle(Payer, tx.signer)
  /\ balance' = balance - 1
  /\ pending' = pending \ {tx}
  /\ proc' = [p \in Pod |->
       IF proc[p].pc = "confirming" /\ Tx(proc[p]) = tx
       THEN [proc[p] EXCEPT !.pc = "landed"] ELSE proc[p]]
  /\ UNCHANGED <<platform, keypair_bin, faults, fileFaults>>

Drop(tx) ==
  /\ \/ ~ValidBlockhash(tx.blockhash) /\ UNCHANGED faults
     \/ balance = 0 /\ UNCHANGED faults
     \/ Fault
  /\ pending' = pending \ {tx}
  /\ UNCHANGED <<platform, programVars, proc, keypair_bin, balance, fileFaults>>
-----------------------------------------------------------------------------
(* The running worker, its end, and the deployment.                        *)

\* The payer's oracle account holds the key, and fulfill_order accepts it.
Registered(k) == oracles[Payer].bump # 0 /\ oracles[Payer].enclave_signer = k
Accepts(k) == program.oracle = Payer /\ Registered(k)

Ready(p) == proc[p].pc = "ready"

\* A fulfil transaction of a ready worker costs the payer its fee.
PayForAnswer(p) ==
  /\ Ready(p) /\ Accepts(proc[p].key)
  /\ balance > 0
  /\ balance' = balance - 1
  /\ UNCHANGED <<platform, programVars, proc, keypair_bin, pending, faults,
                 fileFaults>>

RunsOut(p, limit) ==
  /\ Ready(p)
  /\ balance <= limit
  /\ Restart(p)
  /\ UNCHANGED <<platform, programVars, netVars, fileFaults>>

\* Mutant: the worker runs on until nothing is left.
fetch_payer_balanceZero(p) == RunsOut(p, 0)

\* watch_payer_balance panics at 10000 lamports, the fee of one transaction with
\* two signatures.
fetch_payer_balance(p) == RunsOut(p, 1)

\* Mutant: the process of a failed run() stays and is never restarted.
EndsHanging(p) ==
  /\ proc[p].pc \in {"new", "confirming", "landed", "ready"}
  /\ Fault
  /\ proc' = [proc EXCEPT ![p] = Idle("gone")]
  /\ UNCHANGED <<platform, programVars, keypair_bin, pending, balance,
                 fileFaults>>

\* run() fails or panics, for a failed call of the RPC node at any await of its
\* initialization, a watcher that returns, or a kill; main requests the
\* shutdown of the process and the supervisor starts another.
Ends(p) ==
  /\ proc[p].pc \in {"new", "confirming", "landed", "ready"}
  /\ Fault
  /\ Restart(p)
  /\ UNCHANGED <<platform, programVars, pending, balance, fileFaults>>

\* A rolling update creates the next pod while the last one runs (maxSurge 1).
Rollout(p) ==
  /\ platform = "kubernetes"
  /\ proc[p].pc = "off"
  /\ proc[p - 1].pc # "off"
  /\ proc' = [proc EXCEPT ![p] = Idle("down")]
  /\ UNCHANGED <<platform, programVars, keypair_bin, netVars, fileFaults>>

\* Without a readiness probe the next pod counts as available once its process
\* runs.  The old one is then told to stop: select! takes the branch of
\* on_shutdown_requested and drops run().
on_shutdown_requested(p) ==
  /\ p + 1 \in Pod
  /\ proc[p + 1].pc \notin {"off", "down"}
  /\ proc[p].pc # "gone"
  /\ proc' = [proc EXCEPT ![p] = Idle("gone")]
  /\ UNCHANGED <<platform, programVars, keypair_bin, netVars, fileFaults>>

\* Any other authority may register, with a key of its own.  Bound: once, as only the
\* first time changes the current oracle.
OtherRegisters(a) ==
  /\ oracles[a].bump = 0
  /\ \E k \in UnusedKeys : k = Max(UnusedKeys) /\ register_oracle(a, k)
  /\ UNCHANGED <<platform, proc, keypair_bin, netVars, fileFaults>>

\* Seconds play no part here.
Tick ==
  /\ ClockTick
  /\ unix_timestamp' = unix_timestamp + 1
  /\ UNCHANGED <<platform, proc, keypair_bin, netVars, fileFaults>>

LifecycleNext ==
  \/ \E p \in Pod :
       \/ \E k \in Signer : new(p, k)
       \/ WriteCutShort(p)
       \/ initialize_oracle_signer(p)
       \/ Confirmed(p)
       \/ Expired(p)
       \/ PayForAnswer(p)
       \/ fetch_payer_balance(p)
       \/ Ends(p)
       \/ Rollout(p)
       \/ on_shutdown_requested(p)
  \/ \E tx \in pending : Execute(tx) \/ Drop(tx)
  \/ \E a \in Authority \ {Payer} : OtherRegisters(a)
  \/ Tick

\* Kubernetes restarts processes and completes an update it has begun; a host does
\* not owe a restart.  A process goes on, routines come round, transactions land or
\* expire, and the clock moves.  Faults, updates, orders and other authorities'
\* registrations are owed by nobody.
LifecycleFairness ==
  /\ \A p \in Pod :
       /\ WF_vars(platform = "kubernetes" /\ \E k \in Signer : new(p, k))
       /\ WF_vars(initialize_oracle_signer(p) \/ Confirmed(p) \/ Expired(p))
       /\ WF_vars(fetch_payer_balance(p))
       /\ WF_vars(on_shutdown_requested(p))
  /\ WF_vars(\E tx \in pending : Execute(tx))
  /\ WF_vars(Tick)

LifecycleSpec == LifecycleInit /\ [][LifecycleNext]_vars /\ LifecycleFairness
-----------------------------------------------------------------------------
(* Properties.                                                             *)

Displaced == \E a \in Authority \ {Payer} : oracles[a].bump # 0

\* Where the key file is kept and works, the payer's account holds the key of a ready
\* worker, and the program accepts its answers unless another authority has
\* registered: lost calls, restarts and register_oracle transactions of earlier
\* processes that land late all carry the sealed key.
SealedKeyServes ==
  platform = "host" /\ fileFaults = 0 =>
    \A p \in Pod : Ready(p) =>
      Registered(proc[p].key) /\ (Accepts(proc[p].key) \/ Displaced)

\* A worker that cannot pay for an answer ends instead of staying ready.
LowFundsEndWorker ==
  \A p \in Pod : Ready(p) /\ balance <= 1 ~> ~Ready(p)

\* On Kubernetes failed starts, lost or late registrations, ended processes and rolling
\* updates leave some worker ready for good in the end, unless the payer runs out of
\* funds.  (On a host nothing restarts the process.)
WorkerComesUp == <>[](platform = "host" \/ balance <= 1 \/ \E p \in Pod : Ready(p))

\* README.md: "Once registered, the oracle will be the only account allowed to
\* submit price updates and must sign each instruction with its enclave signer":
\* when one worker is left and no registration is under way, a ready worker's
\* signature is accepted.
LastWorkerServes ==
  \A p \in Pod :
    /\ Ready(p)
    /\ \A q \in Pod \ {p} : proc[q].pc \in {"off", "gone"}
    /\ pending = {}
    => Accepts(proc[p].key)
=============================================================================
