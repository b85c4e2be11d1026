----------------------- MODULE WorkerLifecycleProofs -----------------------
(***************************************************************************)
(* Proofs about the worker's processes for any number of pods, keys and    *)
(* faults, any length of a sealed key and any age of a blockhash.          *)
(***************************************************************************)
EXTENDS WorkerLifecycle, BackfillProgramProofs

\* From OracleWorker::new on a process holds its key.
Running == {"new", "confirming", "landed", "ready"}

KeyHeld == \A p \in Pod : proc[p].pc \in Running => proc[p].key \in Signer
-----------------------------------------------------------------------------
(* The key file.                                                           *)

LEMMA BytesType ==
  ASSUME NEW S, NEW k \in S, NEW n \in Nat
  PROVE  /\ Bytes(k, n) \in Seq(S)
         /\ Len(Bytes(k, n)) = n
         /\ \A i \in 1 .. n : Bytes(k, n)[i] = k
BY DEF Bytes

LEMMA MinOfTwoLengths ==
  ASSUME NEW a \in Nat, NEW b \in Nat
  PROVE  Min({a, b}) = IF a <= b THEN a ELSE b
BY DEF Min

LEMMA StoreFacts ==
  ASSUME LifecycleTypeOK, NEW p \in Pod, NEW bytes \in Seq(Signer), Store(p, bytes)
  PROVE  /\ keypair_bin' \in [Pod -> Seq(Signer)]
         /\ Len(bytes) <= KeyBytes + 1 => keypair_bin'[p] = bytes
         /\ \A q \in Pod \ {p} : keypair_bin'[q] = keypair_bin[q]
<1> DEFINE n == Min({Len(bytes), KeyBytes + 1})
           kept == SubSeq(bytes, 1, n)
<1>1. /\ keypair_bin \in [Pod -> Seq(Signer)]
      /\ KeyBytes \in Nat /\ KeyBytes + 1 \in Nat /\ Len(bytes) \in Nat
  BY LifecycleAssumption DEF LifecycleTypeOK
<1>2. n = IF Len(bytes) <= KeyBytes + 1 THEN Len(bytes) ELSE KeyBytes + 1
  BY ONLY <1>1, MinOfTwoLengths, Zenon
<1>3. keypair_bin' = [keypair_bin EXCEPT ![p] = kept]
  BY DEF Store
<1>4. n \in 0 .. Len(bytes)
  BY <1>1, <1>2
<1> HIDE DEF n
<1>5. kept \in Seq(Signer)
  BY <1>4
<1>6. Len(bytes) <= KeyBytes + 1 => kept = bytes
  BY <1>1, <1>2
<1> HIDE DEF kept
<1> QED BY <1>1, <1>3, <1>5, <1>6

\* A process that has ended holds no key, and on a host its file is kept.
LEMMA RestartFacts ==
  ASSUME LifecycleTypeOK, NEW p \in Pod, Restart(p)
  PROVE  /\ proc' \in [Pod -> Process]
         /\ proc'[p].pc = "down"
         /\ \A q \in Pod \ {p} : proc'[q] = proc[q]
         /\ keypair_bin' \in [Pod -> Seq(Signer)]
         /\ platform = "host" => keypair_bin' = keypair_bin
<1>1. Idle("down") \in Process
  BY ProgramAssumption DEF Idle, Process, Time
<1>2. <<>> \in Seq(Signer)
  OBVIOUS
<1> QED BY <1>1, <1>2 DEF Restart, LifecycleTypeOK, Idle

\* The call returns a key, whatever the file holds.
LEMMA LoadFacts ==
  ASSUME LifecycleTypeOK, NEW p \in Pod, NEW k \in Signer, load_enclave_signer(p, k)
  PROVE  /\ keypair_bin' \in [Pod -> Seq(Signer)]
         /\ fileFaults' \in 0 .. MaxFileFaults
         /\ fileFaults' # 0 \/ fileFaults = 0
<1> DEFINE file == keypair_bin[p]
<1>0. /\ file \in Seq(Signer) /\ KeyBytes \in Nat /\ MaxFileFaults \in Nat
      /\ fileFaults \in 0 .. MaxFileFaults
  BY LifecycleAssumption DEF LifecycleTypeOK
<1>1. Bytes(k, KeyBytes) \in Seq(Signer)
  BY <1>0, BytesType
<1>2. CASE UNCHANGED <<keypair_bin, fileFaults>>
  BY <1>0, <1>2 DEF LifecycleTypeOK
<1>3. CASE Store(p, file \o Bytes(k, KeyBytes)) /\ UNCHANGED fileFaults
  <2>1. file \o Bytes(k, KeyBytes) \in Seq(Signer)
    BY <1>0, <1>1
  <2> QED BY <1>0, <1>3, <2>1, StoreFacts
<1>4. CASE FileFault /\ UNCHANGED keypair_bin
  BY <1>0, <1>4 DEF LifecycleTypeOK, FileFault
<1>5. CASE FileFault /\ Store(p, Bytes(k, KeyBytes) \o SubSeq(file, KeyBytes + 1, Len(file)))
  <2>1. SubSeq(file, KeyBytes + 1, Len(file)) \in Seq(Signer)
    BY <1>0
  <2>2. Bytes(k, KeyBytes) \o SubSeq(file, KeyBytes + 1, Len(file)) \in Seq(Signer)
    BY <1>1, <2>1
  <2>3. keypair_bin' \in [Pod -> Seq(Signer)]
    BY <1>5, <2>2, StoreFacts
  <2> QED BY <1>0, <1>5, <2>3 DEF FileFault
<1> QED BY <1>2, <1>3, <1>4, <1>5 DEF load_enclave_signer
-----------------------------------------------------------------------------
(* Types.  The chain's part is BackfillProgram's: a lifecycle step is a    *)
(* step of the program.                                                    *)

LEMMA LifecycleStepOfProgram ==
  ASSUME LifecycleTypeOK, [LifecycleNext]_vars
  PROVE  [ProgramNext]_programVars
<1> SUFFICES ASSUME LifecycleNext, ~UNCHANGED programVars PROVE ProgramNext
  BY DEF vars
<1>1. ASSUME NEW p \in Pod,
             \/ \E k \in Signer : new(p, k)
             \/ WriteCutShort(p) \/ initialize_oracle_signer(p)
             \/ Confirmed(p) \/ Expired(p) \/ PayForAnswer(p)
             \/ fetch_payer_balance(p) \/ Ends(p)
             \/ Rollout(p) \/ on_shutdown_requested(p)
      PROVE  FALSE
  BY <1>1 DEF new, WriteCutShort, initialize_oracle_signer, Confirmed, Expired,
              PayForAnswer, fetch_payer_balance, RunsOut, Ends, Rollout,
              on_shutdown_requested
<1>2. ASSUME NEW tx \in pending, Drop(tx) PROVE FALSE
  BY <1>2 DEF Drop
<1>3. ASSUME NEW tx \in pending, Execute(tx) PROVE ProgramNext
  <2>1. tx.signer \in Signer /\ Payer \in Authority
    BY LifecycleAssumption DEF LifecycleTypeOK
  <2> QED BY <1>3, <2>1 DEF Execute, ProgramNext
<1>4. ASSUME NEW a \in Authority \ {Payer}, OtherRegisters(a) PROVE ProgramNext
  BY <1>4 DEF OtherRegisters, UnusedKeys, ProgramNext
<1>5. CASE Tick
  BY <1>5 DEF Tick, ProgramNext
<1> QED BY <1>1, <1>2, <1>3, <1>4, <1>5 DEF LifecycleNext

LEMMA LifecycleTypeInit == LifecycleInit => LifecycleTypeOK /\ OpenedInThePast /\ KeyHeld
<1> SUFFICES ASSUME LifecycleInit PROVE LifecycleTypeOK /\ OpenedInThePast /\ KeyHeld
  OBVIOUS
<1> USE ProgramAssumption, LifecycleAssumption
<1>1. ProgramTypeOK
  BY NoOrderType DEF LifecycleInit, ProgramTypeOK, ProgramAccount, OracleAccount, Time
<1>2. OpenedInThePast
  BY DEF LifecycleInit, OpenedInThePast, NoOrder
<1>3. \A p \in Pod : Idle(IF p = 1 THEN "down" ELSE "off") \in Process
  BY DEF Idle, Process, Time
<1>4. KeyHeld
  BY DEF LifecycleInit, KeyHeld, Running, Idle
<1>5. <<>> \in Seq(Signer)
  OBVIOUS
<1>6. proc \in [Pod -> Process] /\ keypair_bin \in [Pod -> Seq(Signer)]
  BY <1>3, <1>5 DEF LifecycleInit
<1>7. balance \in Nat /\ faults \in 0 .. MaxFaults /\ fileFaults \in 0 .. MaxFileFaults
  BY DEF LifecycleInit
<1> QED BY <1>1, <1>2, <1>4, <1>6, <1>7 DEF LifecycleInit, LifecycleTypeOK

\* What a step changes outside the chain, one conjunct per variable.
WorkerTypes ==
  /\ platform \in {"host", "kubernetes"}
  /\ proc \in [Pod -> Process]
  /\ keypair_bin \in [Pod -> Seq(Signer)]
  /\ pending \in SUBSET [signer : Signer, blockhash : Time]
  /\ balance \in Nat
  /\ faults \in 0 .. MaxFaults
  /\ fileFaults \in 0 .. MaxFileFaults

\* A process that moves on and keeps its key.
LEMMA MovesOn ==
  ASSUME LifecycleTypeOK, KeyHeld, NEW p \in Pod, proc[p].pc \in Running,
         NEW pc \in Running
  PROVE  LET after == [proc EXCEPT ![p].pc = pc]
         IN  /\ after \in [Pod -> Process]
             /\ after[p].pc = pc
             /\ after[p].key = proc[p].key
             /\ \A q \in Pod \ {p} : after[q] = proc[q]
BY DEF LifecycleTypeOK, Process, Running

\* The transaction a process sends carries its key.
LEMMA SendFacts ==
  ASSUME LifecycleTypeOK, KeyHeld, NEW p \in Pod, proc[p].pc \in Running
  PROVE  LET sent  == [proc[p] EXCEPT !.pc = "confirming", !.blockhash = slot]
             after == [proc EXCEPT ![p] = sent]
         IN  /\ Tx(sent) \in [signer : Signer, blockhash : Time]
             /\ Tx(sent).signer = proc[p].key
             /\ after \in [Pod -> Process]
             /\ after[p].pc = "confirming"
             /\ after[p].key = proc[p].key
             /\ \A q \in Pod \ {p} : after[q] = proc[q]
<1>1. proc[p] \in Process /\ proc[p].key \in Signer /\ slot \in Time
  BY DEF LifecycleTypeOK, ProgramTypeOK, KeyHeld
<1> DEFINE sent == [proc[p] EXCEPT !.pc = "confirming", !.blockhash = slot]
<1>2. /\ sent \in Process /\ sent.pc = "confirming" /\ sent.key = proc[p].key
      /\ sent.blockhash = slot
  BY <1>1 DEF Process
<1>3. Tx(sent) = [signer |-> proc[p].key, blockhash |-> slot]
  BY <1>2 DEF Tx
<1> HIDE DEF sent
<1>4. /\ [proc EXCEPT ![p] = sent] \in [Pod -> Process]
      /\ [proc EXCEPT ![p] = sent][p] = sent
      /\ \A q \in Pod \ {p} : [proc EXCEPT ![p] = sent][q] = proc[q]
  BY <1>2 DEF LifecycleTypeOK
<1>5. /\ Tx(sent) \in [signer : Signer, blockhash : Time]
      /\ Tx(sent).signer = proc[p].key
  BY <1>1, <1>3
<1> QED BY <1>2, <1>4, <1>5 DEF sent

\* An executed transaction is news to the processes that wait for it only.
LEMMA LandedFacts ==
  ASSUME LifecycleTypeOK, NEW tx, Execute(tx)
  PROVE  /\ proc' \in [Pod -> Process]
         /\ \A p \in Pod :
              \/ proc'[p] = proc[p]
              \/ /\ proc[p].pc = "confirming" /\ proc'[p].pc = "landed"
                 /\ proc'[p].key = proc[p].key
<1>1. \A p \in Pod : [proc[p] EXCEPT !.pc = "landed"] \in Process
  BY DEF LifecycleTypeOK, Process
<1>2. proc' = [p \in Pod |->
        IF proc[p].pc = "confirming" /\ Tx(proc[p]) = tx
        THEN [proc[p] EXCEPT !.pc = "landed"] ELSE proc[p]]
  BY DEF Execute
<1>3. proc' \in [Pod -> Process]
  BY <1>1, <1>2 DEF LifecycleTypeOK
<1>4. ASSUME NEW p \in Pod, proc'[p] # proc[p]
      PROVE  /\ proc[p].pc = "confirming" /\ proc'[p].pc = "landed"
             /\ proc'[p].key = proc[p].key
  <2>1. /\ proc[p].pc = "confirming"
        /\ proc'[p] = [proc[p] EXCEPT !.pc = "landed"]
    BY <1>2, <1>4
  <2> QED BY <2>1 DEF LifecycleTypeOK, Process
<1> QED BY <1>3, <1>4

LEMMA LifecycleTypeStep ==
  ASSUME LifecycleTypeOK, KeyHeld, [LifecycleNext]_vars
  PROVE  WorkerTypes' /\ KeyHeld'
<1> USE ProgramAssumption, LifecycleAssumption
<1>0. WorkerTypes
  BY DEF LifecycleTypeOK, WorkerTypes
<1>1. ASSUME NEW p \in Pod, NEW k \in Signer, new(p, k)
      PROVE  WorkerTypes' /\ KeyHeld'
  <2> DEFINE r == [pc |-> "new", key |-> k, blockhash |-> 0]
  <2>1. load_enclave_signer(p, k) /\ proc' = [proc EXCEPT ![p] = r]
        /\ UNCHANGED <<platform, netVars>>
    BY <1>1 DEF new
  <2>2. r \in Process /\ r.key \in Signer
    BY DEF Process, Time
  <2>3. /\ keypair_bin' \in [Pod -> Seq(Signer)]
        /\ fileFaults' \in 0 .. MaxFileFaults
    BY <2>1, LoadFacts
  <2>4. proc' \in [Pod -> Process]
    BY <1>0, <2>1, <2>2 DEF WorkerTypes
  <2>5. KeyHeld'
    BY <1>0, <2>1, <2>2 DEF WorkerTypes, KeyHeld
  <2> QED BY <1>0, <2>1, <2>3, <2>4, <2>5 DEF WorkerTypes, netVars
<1>2. ASSUME NEW p \in Pod, WriteCutShort(p)
      PROVE  WorkerTypes' /\ KeyHeld'
  <2>1. PICK k \in Signer, n \in 1 .. KeyBytes - 1 : Store(p, keypair_bin[p] \o Bytes(k, n))
    BY <1>2 DEF WriteCutShort
  <2>2. n \in Nat /\ keypair_bin[p] \in Seq(Signer)
    BY <1>0 DEF WorkerTypes
  <2>3. Bytes(k, n) \in Seq(Signer)
    BY <2>2, BytesType
  <2>4. keypair_bin[p] \o Bytes(k, n) \in Seq(Signer)
    BY <2>2, <2>3
  <2>5. keypair_bin' \in [Pod -> Seq(Signer)]
    BY <2>1, <2>4, StoreFacts
  <2>6. fileFaults' \in 0 .. MaxFileFaults /\ UNCHANGED <<platform, proc, netVars>>
    BY <1>0, <1>2 DEF WriteCutShort, FileFault, WorkerTypes
  <2> QED BY <1>0, <2>5, <2>6 DEF WorkerTypes, KeyHeld, netVars
<1>3. ASSUME NEW p \in Pod, initialize_oracle_signer(p)
      PROVE  WorkerTypes' /\ KeyHeld'
  <2> DEFINE sent == [proc[p] EXCEPT !.pc = "confirming", !.blockhash = slot]
  <2>0. /\ proc[p].pc = "new" /\ proc[p].pc \in Running
        /\ UNCHANGED <<platform, balance, faults, fileFaults>>
    BY <1>3 DEF initialize_oracle_signer, Running
  <2>1. CASE /\ proc' = [proc EXCEPT ![p].pc = "ready"]
             /\ UNCHANGED <<pending, keypair_bin>>
    <3>1. /\ proc' \in [Pod -> Process] /\ proc'[p].key = proc[p].key
          /\ \A q \in Pod \ {p} : proc'[q] = proc[q]
      BY <2>0, <2>1, MovesOn DEF Running
    <3> QED BY <1>0, <2>0, <2>1, <3>1 DEF WorkerTypes, KeyHeld
  <2>2. CASE /\ proc' = [proc EXCEPT ![p] = sent]
             /\ pending' = pending \cup {Tx(sent)}
             /\ UNCHANGED keypair_bin
    <3>1. /\ proc' \in [Pod -> Process] /\ proc'[p].key = proc[p].key
          /\ \A q \in Pod \ {p} : proc'[q] = proc[q]
          /\ Tx(sent) \in [signer : Signer, blockhash : Time]
      BY <2>0, <2>2, SendFacts
    <3> HIDE DEF sent
    <3> QED BY <1>0, <2>0, <2>2, <3>1 DEF WorkerTypes, KeyHeld
  <2>3. CASE Restart(p) /\ UNCHANGED pending
    <3>1. KeyHeld'
      BY <2>3, RestartFacts DEF KeyHeld, Running
    <3> QED BY <1>0, <2>0, <2>3, <3>1, RestartFacts DEF WorkerTypes
  <2> QED BY <1>3, <2>1, <2>2, <2>3 DEF initialize_oracle_signer
<1>4. ASSUME NEW p \in Pod, Confirmed(p)
      PROVE  WorkerTypes' /\ KeyHeld'
  <2>1. /\ proc[p].pc \in Running /\ proc' = [proc EXCEPT ![p].pc = "ready"]
        /\ UNCHANGED <<platform, keypair_bin, netVars, fileFaults>>
    BY <1>4 DEF Confirmed, Running
  <2>2. /\ proc' \in [Pod -> Process] /\ proc'[p].key = proc[p].key
        /\ \A q \in Pod \ {p} : proc'[q] = proc[q]
    BY <2>1, MovesOn DEF Running
  <2> QED BY <1>0, <2>1, <2>2 DEF WorkerTypes, KeyHeld, netVars
<1>5. ASSUME NEW p \in Pod, Expired(p) \/ fetch_payer_balance(p) \/ Ends(p)
      PROVE  WorkerTypes' /\ KeyHeld'
  <2>1. /\ Restart(p) /\ UNCHANGED <<platform, pending, balance, fileFaults>>
        /\ faults' \in 0 .. MaxFaults
    BY <1>0, <1>5 DEF Expired, fetch_payer_balance, RunsOut, Ends, Fault, netVars,
                      WorkerTypes
  <2>2. KeyHeld'
    BY <2>1, RestartFacts DEF KeyHeld, Running
  <2> QED BY <1>0, <2>1, <2>2, RestartFacts DEF WorkerTypes
<1>6. ASSUME NEW p \in Pod, PayForAnswer(p)
      PROVE  WorkerTypes' /\ KeyHeld'
  BY <1>0, <1>6 DEF PayForAnswer, WorkerTypes, KeyHeld
<1>7. ASSUME NEW p \in Pod, Rollout(p) \/ on_shutdown_requested(p)
      PROVE  WorkerTypes' /\ KeyHeld'
  <2>1. PICK pc \in {"down", "gone"} :
          /\ proc' = [proc EXCEPT ![p] = Idle(pc)]
          /\ UNCHANGED <<platform, keypair_bin, netVars, fileFaults>>
    BY <1>7 DEF Rollout, on_shutdown_requested
  <2>2. Idle(pc) \in Process /\ Idle(pc).pc = pc
    BY DEF Idle, Process, Time
  <2>3. /\ proc' \in [Pod -> Process] /\ proc'[p] = Idle(pc)
        /\ \A q \in Pod \ {p} : proc'[q] = proc[q]
    BY <1>0, <2>1, <2>2 DEF WorkerTypes
  <2>4. KeyHeld'
    BY <2>2, <2>3 DEF KeyHeld, Running
  <2> QED BY <1>0, <2>1, <2>3, <2>4 DEF WorkerTypes, netVars
<1>8. ASSUME NEW tx \in pending, Execute(tx)
      PROVE  WorkerTypes' /\ KeyHeld'
  <2>1. KeyHeld'
    BY <1>8, LandedFacts DEF KeyHeld, Running
  <2>2. proc' \in [Pod -> Process]
    BY <1>8, LandedFacts
  <2> QED BY <1>0, <1>8, <2>1, <2>2 DEF Execute, WorkerTypes
<1>9. ASSUME NEW tx \in pending, Drop(tx)
      PROVE  WorkerTypes' /\ KeyHeld'
  BY <1>0, <1>9 DEF Drop, Fault, WorkerTypes, KeyHeld
<1>10. CASE Tick
  BY <1>0, <1>10 DEF Tick, netVars, WorkerTypes, KeyHeld
<1>11. CASE UNCHANGED vars
  BY <1>0, <1>11 DEF vars, netVars, WorkerTypes, KeyHeld
<1>12. ASSUME NEW a \in Authority \ {Payer}, OtherRegisters(a)
       PROVE  WorkerTypes' /\ KeyHeld'
  BY <1>0, <1>12 DEF OtherRegisters, netVars, WorkerTypes, KeyHeld
<1> QED BY <1>1, <1>2, <1>3, <1>4, <1>5, <1>6, <1>7, <1>8, <1>9, <1>10, <1>11, <1>12
        DEF LifecycleNext

\* The lifecycle's typing needs the keys of running processes, and of the chain that
\* no order was opened after the clock.
LifecycleInv == LifecycleTypeOK /\ OpenedInThePast /\ KeyHeld

\* Types are kept whatever happens to processes, files and transactions.
THEOREM LifecycleInvariance == LifecycleSpec => []LifecycleInv
<1>1. LifecycleInv /\ [LifecycleNext]_vars => LifecycleInv'
  <2> SUFFICES ASSUME LifecycleInv, [LifecycleNext]_vars PROVE LifecycleInv'
    OBVIOUS
  <2>1. ProgramTypeOK /\ OpenedInThePast /\ [ProgramNext]_programVars
    BY LifecycleStepOfProgram DEF LifecycleInv, LifecycleTypeOK
  <2>2. ProgramTypeOK' /\ OpenedInThePast'
    BY <2>1, TypeStep, PastStep
  <2>3. WorkerTypes' /\ KeyHeld'
    BY LifecycleTypeStep DEF LifecycleInv
  <2> QED BY <2>2, <2>3 DEF LifecycleInv, LifecycleTypeOK, WorkerTypes
<1> QED BY LifecycleTypeInit, <1>1, PTL DEF LifecycleSpec, LifecycleInv

\* The key file holds bytes of keys, and what is sent to the cluster is signed with
\* a key and the hash of a slot the clock has reached.
THEOREM LifecycleTyping == LifecycleSpec => []LifecycleTypeOK
<1>1. LifecycleInv => LifecycleTypeOK
  BY DEF LifecycleInv
<1> QED BY LifecycleInvariance, <1>1, PTL

\* The worker's life touches the chain through the program's instructions only.
THEOREM LifecycleRunsProgram == LifecycleSpec => [][ProgramNext]_programVars
<1>1. LifecycleInv /\ [LifecycleNext]_vars => [ProgramNext]_programVars
  BY LifecycleStepOfProgram DEF LifecycleInv
<1> QED BY LifecycleInvariance, <1>1, PTL DEF LifecycleSpec
-----------------------------------------------------------------------------
(* Registration.                                                           *)

LEMMA ConcatType ==
  ASSUME NEW S, NEW s \in Seq(S), NEW t \in Seq(S)
  PROVE  s \o t \in Seq(S) /\ Len(s \o t) = Len(s) + Len(t)
OBVIOUS

LEMMA ConcatLeft ==
  ASSUME NEW S, NEW s \in Seq(S), NEW t \in Seq(S), NEW i \in 1 .. Len(s)
  PROVE  (s \o t)[i] = s[i]
OBVIOUS

LEMMA ConcatRight ==
  ASSUME NEW S, NEW s \in Seq(S), NEW t \in Seq(S), NEW i \in 1 .. Len(t)
  PROVE  (s \o t)[Len(s) + i] = t[i]
OBVIOUS

\* What lies at the fifth place of a discriminator, an authority and a signer.
LEMMA FifthWord ==
  ASSUME NEW S, NEW D \in Seq(S), NEW W \in Seq(S), NEW T \in Seq(S),
         Len(D) = 1, Len(W) = 4, Len(T) = 4
  PROVE  SubSeq(D \o W \o T, 5, 8)[1] = W[4]
<1> DEFINE V == D \o W
           A == V \o T
<1>1. V \in Seq(S) /\ Len(V) = Len(D) + Len(W)
  BY ConcatType, Zenon
<1>2. 4 \in 1 .. Len(W)
  OBVIOUS
<1>3. V[Len(D) + 4] = W[4]
  BY ONLY <1>2, ConcatRight, D \in Seq(S), W \in Seq(S)
<1> HIDE DEF V
<1>4. Len(V) = 5 /\ 5 \in 1 .. Len(V) /\ Len(D) + 4 = 5
  BY <1>1
<1>5. A \in Seq(S) /\ Len(A) = Len(V) + Len(T)
  BY <1>1, ConcatType, Zenon
<1>6. A[5] = V[5]
  BY ONLY <1>1, <1>4, ConcatLeft, T \in Seq(S)
<1>7. V[5] = W[4]
  BY <1>3, <1>4, Zenon
<1> HIDE DEF A
<1>8. SubSeq(A, 5, 8)[1] = A[5]
  BY <1>4, <1>5
<1>9. SubSeq(A, 5, 8)[1] = W[4]
  BY <1>6, <1>7, <1>8, Zenon
<1> QED BY <1>9, Zenon DEF A, V

\* OracleAccount::deserialize finds the last word of the authority where the first
\* word of the signer should be: no key ever compares equal.
LEMMA SignerNeverFound ==
  ASSUME NEW k
  PROVE  deserialize(AccountData) # Words(k)
<1> DEFINE D == <<"discriminator">>
           W == [i \in 1 .. 4 |-> <<Payer, i>>]
           T == [i \in 1 .. 4 |-> <<oracles[Payer].enclave_signer, i>>]
           S == {"discriminator"} \cup {W[i] : i \in 1 .. 4} \cup {T[i] : i \in 1 .. 4}
<1>1. /\ D \in Seq(S) /\ W \in Seq(S) /\ T \in Seq(S)
      /\ Len(D) = 1 /\ Len(W) = 4 /\ Len(T) = 4
      /\ W[4] = <<Payer, 4>>
  OBVIOUS
<1>2. AccountData = D \o W \o T
  BY DEF AccountData, Words
<1> HIDE DEF D, W, T, S
<1>3. SubSeq(D \o W \o T, 5, 8)[1] = W[4]
  BY ONLY <1>1, FifthWord
<1>4. SubSeq(AccountData, 5, 8)[1] = <<Payer, 4>>
  BY <1>1, <1>2, <1>3
<1>5. Words(k)[1] = <<k, 1>>
  BY DEF Words
<1> QED BY <1>4, <1>5 DEF deserialize

-----------------------------------------------------------------------------
(* One sealed key.                                                         *)

\* Before the key is sealed nobody holds, sends or has registered one.
NothingSealed ==
  /\ keypair_bin[1] = <<>>
  /\ proc[1].pc \notin Running
  /\ pending = {}
  /\ oracles[Payer].bump = 0

\* Afterwards every key there is, is the one in the file.
SealedKey(k) ==
  /\ keypair_bin[1] = Bytes(k, KeyBytes)
  /\ proc[1].pc \in Running => proc[1].key = k
  /\ \A tx \in pending : tx.signer = k
  /\ oracles[Payer].bump # 0 => oracles[Payer].enclave_signer = k

\* A host runs one pod; a registration that has landed is on chain, and the first
\* one made the payer's oracle the program's until another authority's first one.
OnlyPod == \A p \in Pod : p # 1 => proc[p].pc = "off"
Landed ==
  /\ proc[1].pc \in {"landed", "ready"} => oracles[Payer].bump # 0
  /\ oracles[Payer].bump # 0 => program.oracle = Payer \/ Displaced

HostKey ==
  /\ OnlyPod
  /\ Landed
  /\ NothingSealed \/ \E k \in Signer : SealedKey(k)

HostInv == platform = "host" /\ fileFaults = 0 => HostKey

\* A process that has a key is the host's only one.
LEMMA RunningIsFirst ==
  ASSUME OnlyPod, NEW p \in Pod, proc[p].pc # "off"
  PROVE  p = 1
BY DEF OnlyPod

\* A start on a host whose file works loads the sealed key, or seals the one it
\* makes.
LEMMA StartSealed ==
  ASSUME LifecycleInv, HostKey, NEW p \in Pod, NEW k \in Signer, new(p, k),
         fileFaults = 0, fileFaults' = 0
  PROVE  HostKey'
<1> DEFINE file == keypair_bin[1]
<1>1. p = 1 /\ proc[1].pc = "down"
  BY RunningIsFirst DEF HostKey, new
<1>2. /\ LifecycleTypeOK /\ 1 \in Pod
      /\ KeyBytes \in Nat \ {0} /\ file \in Seq(Signer)
      /\ load_enclave_signer(1, k)
      /\ proc' = [proc EXCEPT ![1] = [pc |-> "new", key |-> k, blockhash |-> 0]]
      /\ UNCHANGED <<program, oracles, pending>>
  BY <1>1, LifecycleAssumption
     DEF LifecycleInv, LifecycleTypeOK, Pod, new, programVars, netVars
<1>3. /\ proc'[1].pc = "new" /\ proc'[1].key = k
      /\ \A q \in Pod : q # 1 => proc'[q] = proc[q]
  BY <1>2 DEF LifecycleTypeOK
<1>4. OnlyPod' /\ Landed'
  BY <1>2, <1>3 DEF HostKey, OnlyPod, Landed, Displaced
<1>5. \A j \in Signer : /\ Bytes(j, KeyBytes) \in Seq(Signer)
                        /\ Len(Bytes(j, KeyBytes)) = KeyBytes
                        /\ Bytes(j, KeyBytes)[1] = j
  <2> TAKE j \in Signer
  <2>1. KeyBytes \in Nat /\ 1 \in 1 .. KeyBytes
    BY <1>2
  <2> QED BY ONLY <2>1, j \in Signer, BytesType
<1>6. \/ file = Bytes(k, KeyBytes) /\ UNCHANGED keypair_bin
      \/ Len(file) # KeyBytes /\ Store(1, file \o Bytes(k, KeyBytes))
  BY <1>2 DEF load_enclave_signer, FileFault
<1>7. CASE NothingSealed
  <2>1. file = <<>> /\ Len(file) = 0
    BY <1>7 DEF NothingSealed
  <2>2. Store(1, file \o Bytes(k, KeyBytes))
    BY <1>2, <1>5, <1>6, <2>1
  <2>3. file \o Bytes(k, KeyBytes) = Bytes(k, KeyBytes)
    BY <1>5, <2>1
  <2>4. keypair_bin'[1] = Bytes(k, KeyBytes)
    BY <1>2, <1>5, <2>2, <2>3, StoreFacts
  <2>5. SealedKey(k)'
    BY <1>2, <1>3, <1>7, <2>4 DEF NothingSealed, SealedKey
  <2> QED BY <1>4, <2>5 DEF HostKey
<1>8. ASSUME NEW j \in Signer, SealedKey(j)
      PROVE  HostKey'
  <2>1. file = Bytes(j, KeyBytes)
    BY <1>8 DEF SealedKey
  <2>2. file = Bytes(k, KeyBytes) /\ UNCHANGED keypair_bin
    BY <1>5, <1>6, <2>1
  <2>3. k = j
    BY <1>5, <2>1, <2>2
  <2>4. SealedKey(j)'
    BY <1>2, <1>3, <1>8, <2>2, <2>3 DEF SealedKey
  <2> QED BY <1>4, <2>4 DEF HostKey
<1> QED BY <1>7, <1>8 DEF HostKey

\* A step that leaves the chain and the file alone, sends nothing but the sealed
\* key, and moves the only process without a new key.
LEMMA ProcessSealed ==
  ASSUME HostKey, UNCHANGED <<program, oracles, keypair_bin>>,
         \A q \in Pod : q # 1 => proc'[q] = proc[q],
         \A tx \in pending' : tx \in pending \/
            (proc[1].pc \in Running /\ tx.signer = proc[1].key),
         \/ proc'[1].pc \notin Running
         \/ proc[1].pc \in Running /\ proc'[1].key = proc[1].key,
         proc'[1].pc \in {"landed", "ready"} => proc[1].pc \in {"landed", "ready"}
  PROVE  HostKey'
<1>1. OnlyPod' /\ Landed'
  BY DEF HostKey, OnlyPod, Landed, Displaced
<1>2. CASE NothingSealed
  <2>1. NothingSealed'
    BY <1>2 DEF NothingSealed
  <2> QED BY <1>1, <2>1 DEF HostKey
<1>3. ASSUME NEW k \in Signer, SealedKey(k)
      PROVE  HostKey'
  <2>1. SealedKey(k)'
    BY <1>3 DEF SealedKey
  <2> QED BY <1>1, <2>1 DEF HostKey
<1> QED BY <1>2, <1>3 DEF HostKey

\* Whichever register_oracle executes, and however late, it stores the sealed key.
LEMMA ExecuteSealed ==
  ASSUME LifecycleInv, HostKey, NEW tx \in pending, Execute(tx)
  PROVE  HostKey'
<1>0. LifecycleTypeOK /\ 1 \in Pod /\ Payer \in Authority
  BY LifecycleAssumption DEF LifecycleInv, Pod
<1>1. /\ oracles'[Payer].bump = 255
      /\ oracles'[Payer].enclave_signer = tx.signer
      /\ \A a \in Authority \ {Payer} : oracles'[a] = oracles[a]
      /\ program'.oracle = Payer \/ Displaced
  <2>1. /\ program' = IF oracles[Payer].bump = 0
                      THEN [program EXCEPT !.oracle = Payer] ELSE program
        /\ oracles' = [oracles EXCEPT ![Payer] = [bump |-> 255, enclave_signer |-> tx.signer]]
    BY DEF Execute, register_oracle
  <2>2. oracles[Payer].bump # 0 => program.oracle = Payer \/ Displaced
    BY DEF HostKey, Landed
  <2> QED BY <1>0, <2>1, <2>2 DEF LifecycleTypeOK, ProgramTypeOK, ProgramAccount
<1>2. \A p \in Pod :
        \/ proc'[p] = proc[p]
        \/ /\ proc[p].pc = "confirming" /\ proc'[p].pc = "landed"
           /\ proc'[p].key = proc[p].key
  BY <1>0, LandedFacts
<1>3. pending' = pending \ {tx} /\ UNCHANGED keypair_bin
  BY DEF Execute
<1>4. OnlyPod' /\ Landed'
  BY <1>1, <1>2 DEF HostKey, OnlyPod, Landed, Displaced
<1>5. PICK k \in Signer : SealedKey(k)
  BY DEF HostKey, NothingSealed
<1>6. SealedKey(k)'
  BY <1>0, <1>1, <1>2, <1>3, <1>5 DEF SealedKey, Running
<1> QED BY <1>4, <1>6 DEF HostKey

\* Another authority's register_oracle leaves the payer's account alone; it may
\* displace it from the program.
LEMMA OtherSealed ==
  ASSUME LifecycleInv, HostKey, NEW a \in Authority \ {Payer}, OtherRegisters(a)
  PROVE  HostKey'
<1>0. LifecycleTypeOK /\ Payer \in Authority
  BY LifecycleAssumption DEF LifecycleInv
<1>1. PICK k : register_oracle(a, k)
  BY DEF OtherRegisters
<1>2. /\ oracles'[Payer] = oracles[Payer]
      /\ oracles'[a].bump = 255
      /\ UNCHANGED <<proc, keypair_bin, pending>>
  BY <1>0, <1>1 DEF register_oracle, OtherRegisters, netVars, LifecycleTypeOK,
                    ProgramTypeOK
<1>3. Displaced'
  BY <1>2 DEF Displaced
<1>4. OnlyPod' /\ Landed'
  BY <1>2, <1>3 DEF HostKey, OnlyPod, Landed
<1>5. NothingSealed' \/ \E j \in Signer : SealedKey(j)'
  BY <1>2 DEF HostKey, NothingSealed, SealedKey
<1> QED BY <1>4, <1>5 DEF HostKey

LEMMA HostStep ==
  ASSUME LifecycleInv, HostInv, [LifecycleNext]_vars
  PROVE  HostInv'
<1>0. /\ LifecycleTypeOK /\ KeyHeld /\ 1 \in Pod
      /\ platform' = platform
  <2>1. platform' = platform
    BY DEF LifecycleNext, vars, new, WriteCutShort, initialize_oracle_signer, Confirmed,
           Expired, PayForAnswer, fetch_payer_balance, RunsOut, Ends, Rollout,
           on_shutdown_requested, Execute, Drop, Tick, OtherRegisters
  <2> QED BY <2>1, LifecycleAssumption DEF LifecycleInv, Pod
<1>1. fileFaults' = 0 => fileFaults = 0
  <2>1. \/ UNCHANGED fileFaults
        \/ FileFault
    BY DEF LifecycleNext, vars, new, load_enclave_signer, WriteCutShort,
           initialize_oracle_signer, Confirmed, Expired, PayForAnswer,
           fetch_payer_balance, RunsOut, Ends, Rollout, on_shutdown_requested, Execute,
           Drop, Tick, OtherRegisters
  <2> QED BY <1>0, <2>1, LifecycleAssumption DEF FileFault, LifecycleTypeOK
<1> SUFFICES ASSUME platform = "host", fileFaults = 0, fileFaults' = 0, HostKey
             PROVE  HostKey'
  BY <1>0, <1>1 DEF HostInv
<1>2. ASSUME NEW p \in Pod, WriteCutShort(p)
      PROVE  FALSE
  BY <1>2 DEF WriteCutShort, FileFault
<1>3. ASSUME NEW p \in Pod, Restart(p), proc[p].pc \in Running,
             UNCHANGED <<program, oracles, pending>>
      PROVE  HostKey'
  <2>1. p = 1
    BY <1>3, RunningIsFirst DEF HostKey, Running
  <2>2. /\ proc'[1].pc = "down" /\ UNCHANGED keypair_bin
        /\ \A q \in Pod : q # 1 => proc'[q] = proc[q]
    BY <1>0, <1>3, <2>1, RestartFacts
  <2>3. proc'[1].pc \notin Running /\ proc'[1].pc \notin {"landed", "ready"}
    BY <2>2 DEF Running
  <2> QED BY <1>3, <2>2, <2>3, ProcessSealed
<1>4. ASSUME NEW p \in Pod, initialize_oracle_signer(p)
      PROVE  HostKey'
  <2> DEFINE sent == [proc[p] EXCEPT !.pc = "confirming", !.blockhash = slot]
  <2>0. /\ proc[p].pc = "new" /\ proc[p].pc \in Running /\ p = 1
        /\ UNCHANGED <<program, oracles>>
    BY <1>4, RunningIsFirst
       DEF initialize_oracle_signer, Running, HostKey, programVars
  <2>1. CASE Restart(p) /\ UNCHANGED pending
    BY <1>3, <2>0, <2>1
  <2>2. CASE /\ proc' = [proc EXCEPT ![p] = sent]
             /\ pending' = pending \cup {Tx(sent)}
             /\ UNCHANGED keypair_bin
    <3>1. /\ proc'[1].pc = "confirming" /\ proc'[1].key = proc[1].key
          /\ \A q \in Pod : q # 1 => proc'[q] = proc[q]
          /\ Tx(sent).signer = proc[1].key
      BY <1>0, <2>0, <2>2, SendFacts
    <3> HIDE DEF sent
    <3> QED BY <2>0, <2>2, <3>1, ProcessSealed
  <2> QED BY <1>4, <2>1, <2>2, SignerNeverFound DEF initialize_oracle_signer
<1>5. ASSUME NEW p \in Pod, Confirmed(p)
      PROVE  HostKey'
  <2>1. /\ proc[p].pc = "landed" /\ proc[p].pc \in Running /\ p = 1
        /\ proc' = [proc EXCEPT ![p].pc = "ready"]
        /\ UNCHANGED <<program, oracles, keypair_bin, pending>>
    BY <1>5, RunningIsFirst DEF Confirmed, Running, HostKey, programVars, netVars
  <2>2. /\ proc'[1].key = proc[1].key
        /\ \A q \in Pod : q # 1 => proc'[q] = proc[q]
    BY <1>0, <2>1, MovesOn DEF Running
  <2> QED BY <2>1, <2>2, ProcessSealed
<1>6. ASSUME NEW p \in Pod, Expired(p) \/ fetch_payer_balance(p) \/ Ends(p)
      PROVE  HostKey'
  <2>1. /\ Restart(p) /\ proc[p].pc \in Running
        /\ UNCHANGED <<program, oracles, pending>>
    BY <1>6 DEF Expired, fetch_payer_balance, RunsOut, Ready, Ends, Running,
                programVars, netVars
  <2> QED BY <1>3, <2>1
<1>7. ASSUME \/ \E p \in Pod : PayForAnswer(p)
             \/ \E tx \in pending : Drop(tx)
             \/ Tick
             \/ UNCHANGED vars
      PROVE  HostKey'
  <2>1. /\ UNCHANGED <<program, oracles, keypair_bin, proc>>
        /\ pending' \subseteq pending
    BY <1>7 DEF PayForAnswer, Drop, Tick, ClockTick, vars, programVars, netVars
  <2> QED BY <2>1, ProcessSealed
<1>8. ASSUME NEW p \in Pod, Rollout(p) \/ on_shutdown_requested(p)
      PROVE  FALSE
  <2>1. p + 1 \in Pod => p + 1 # 1
    BY LifecycleAssumption DEF Pod
  <2> QED BY <1>8, <2>1 DEF Rollout, on_shutdown_requested, HostKey, OnlyPod
<1> QED BY <1>2, <1>4, <1>5, <1>6, <1>7, <1>8, StartSealed, ExecuteSealed, OtherSealed
        DEF LifecycleNext

\* On a host whose key file works, the payer's account holds the key of every ready
\* worker, and the program accepts its signature unless another authority has
\* registered, for any number of restarts, lost calls and late registrations.
THEOREM SealedKeyIsServed == LifecycleSpec => []SealedKeyServes
<1>1. LifecycleInit => HostInv
  <2> SUFFICES ASSUME LifecycleInit PROVE HostKey
    BY DEF HostInv
  <2>1. 1 \in Pod /\ Payer \in Authority
    BY LifecycleAssumption DEF Pod
  <2>2. NothingSealed
    BY <2>1 DEF LifecycleInit, NothingSealed, Idle, Running
  <2>3. OnlyPod /\ Landed
    BY <2>1 DEF LifecycleInit, OnlyPod, Landed, Idle
  <2> QED BY <2>2, <2>3 DEF HostKey
<1>2. LifecycleInv /\ HostInv /\ [LifecycleNext]_vars => HostInv'
  BY HostStep
<1>3. HostInv => SealedKeyServes
  <2> SUFFICES ASSUME HostKey, NEW p \in Pod, Ready(p)
               PROVE  Registered(proc[p].key) /\ (Accepts(proc[p].key) \/ Displaced)
    BY DEF HostInv, SealedKeyServes
  <2>1. p = 1 /\ proc[1].pc = "ready" /\ proc[1].pc \in Running
    BY RunningIsFirst DEF HostKey, Ready, Running
  <2>2. oracles[Payer].bump # 0 /\ (program.oracle = Payer \/ Displaced)
    BY <2>1 DEF HostKey, Landed
  <2>3. oracles[Payer].enclave_signer = proc[1].key
    BY <2>1, <2>2 DEF HostKey, NothingSealed, SealedKey
  <2> QED BY <2>1, <2>2, <2>3 DEF Registered, Accepts
<1> QED BY LifecycleInvariance, <1>1, <1>2, <1>3, PTL DEF LifecycleSpec
=============================================================================
