------------------------- MODULE IdempotencyProofs -------------------------
(* Machine-checked proofs about Idempotency, for any number of requests, any lease  *)
(* and any number of tries.                                                         *)
EXTENDS Idempotency, TLAPS

(* Where the middleware is tells what a request has done: it has not executed       *)
(* before its handler ran, has executed when it completes, and has no answer before *)
(* it is done.                                                                      *)
RequestsInStep ==
  \A r \in Requests :
    /\ pc[r] \in {"begin", "insert", "load", "renew", "execute"} => r \notin executed
    /\ pc[r] = "complete" => r \in executed
    /\ pc[r] # "done" => answer[r] = "NONE" /\ served[r] = NoBody

(* A completed row stores a migrated response, or one of a committed execution with *)
(* that execution's fingerprint.                                                    *)
StoredIsExecuted ==
  row.state = "COMPLETED" =>
    \/ row.body = Legacy /\ row.hash = NoHash
    \/ row.body \in executed /\ row.hash = hash[row.body]

IInv == TypeOK /\ RequestsInStep /\ StoredIsExecuted /\ LiveClaimKept

RequestStep(r) == Step(r) \/ AcquireFails(r) \/ Crash(r)

(* What ClaimedBy(r) writes is a row of the table. *)
LEMMA ClaimTyped ==
  ASSUME TypeOK, NEW r \in Requests
  PROVE  /\ ClaimedBy(r) \in RowType
         /\ ClaimedBy(r).state = "PROCESSING"
         /\ ClaimedBy(r).id = r
         /\ ClaimedBy(r).hash = hash[r]
         /\ ClaimedBy(r).until = until[r]
         /\ ClaimedBy(r).body = NoBody
  BY DEF TypeOK, ClaimedBy, RowType, Times

(* The columns of an absent and of a completed row. *)
LEMMA RowColumns ==
  ASSUME IdempotencyAssumption
  PROVE  /\ AbsentRow \in RowType
         /\ AbsentRow.state = "NONE" /\ AbsentRow.until = 0 /\ AbsentRow.body = NoBody
         /\ LegacyRow \in RowType
         /\ LegacyRow.state = "COMPLETED" /\ LegacyRow.until = 0
         /\ LegacyRow.body = Legacy /\ LegacyRow.hash = NoHash
  BY DEF IdempotencyAssumption, AbsentRow, LegacyRow, RowType, Times, Bodies

(* Every column keeps its range and the columns of the row stay consistent, over    *)
(* any step of any request.                                                         *)
LEMMA TypeStep ==
  ASSUME IdempotencyAssumption, TypeOK, [Next]_vars
  PROVE  TypeOK'
<1> USE IdempotencyAssumption
<1>1. CASE UNCHANGED vars
  BY <1>1 DEF TypeOK, vars, requestVars
<1>2. CASE Tick
  BY <1>2 DEF TypeOK, Tick, requestVars
<1>3. ASSUME NEW r \in Requests, RequestStep(r)
      PROVE  TypeOK'
  <2> USE DEF Phases, Answers, Goto, Serve, Answer
  <2>1. CASE acquire(r)
    BY <2>1 DEF TypeOK, acquire, Times
  <2>2. CASE Insert(r)
    BY <2>2, ClaimTyped DEF TypeOK, Insert
  <2>3. CASE Load(r)
    BY <2>3 DEF TypeOK, Load, TryAgain, HashFits, RowType
  <2>4. CASE Renew(r)
    BY <2>4, ClaimTyped DEF TypeOK, Renew
  <2>5. CASE AcquireFails(r)
    BY <2>5, ClaimTyped DEF TypeOK, AcquireFails
  <2>6. CASE Execute(r)
    BY <2>6 DEF TypeOK, Execute
  <2>7. CASE Complete(r)
    BY <2>7 DEF TypeOK, Complete, CompletedBy, Owns, RowType, Bodies, Times
  <2>8. CASE Release(r)
    BY <2>8, RowColumns DEF TypeOK, Release
  <2>9. CASE Crash(r)
    BY <2>9 DEF TypeOK, Crash
  <2> QED
    BY <1>3, <2>1, <2>2, <2>3, <2>4, <2>5, <2>6, <2>7, <2>8, <2>9 DEF RequestStep, Step
<1> QED
  BY <1>1, <1>2, <1>3 DEF Next, RequestStep

(* The phases stay in step with what has been executed and answered. *)
LEMMA InStepStep ==
  ASSUME IdempotencyAssumption, TypeOK, RequestsInStep, [Next]_vars
  PROVE  RequestsInStep'
<1> USE IdempotencyAssumption DEF RequestsInStep
<1>1. CASE UNCHANGED vars
  BY <1>1 DEF vars, requestVars
<1>2. CASE Tick
  BY <1>2 DEF Tick, requestVars
<1>3. ASSUME NEW r \in Requests, RequestStep(r)
      PROVE  RequestsInStep'
  <2> USE DEF Goto, Serve, Answer, TypeOK
  <2>1. CASE acquire(r)
    BY <2>1 DEF acquire
  <2>2. CASE Insert(r)
    BY <2>2 DEF Insert
  <2>3. CASE Load(r)
    BY <2>3 DEF Load, TryAgain
  <2>4. CASE Renew(r)
    BY <2>4 DEF Renew
  <2>5. CASE AcquireFails(r)
    BY <2>5 DEF AcquireFails
  <2>6. CASE Execute(r)
    BY <2>6 DEF Execute
  <2>7. CASE Complete(r)
    BY <2>7 DEF Complete
  <2>8. CASE Release(r)
    BY <2>8 DEF Release
  <2>9. CASE Crash(r)
    BY <2>9 DEF Crash
  <2> QED
    BY <1>3, <2>1, <2>2, <2>3, <2>4, <2>5, <2>6, <2>7, <2>8, <2>9 DEF RequestStep, Step
<1> QED
  BY <1>1, <1>2, <1>3 DEF Next, RequestStep

(* What is stored comes from a committed execution: only Complete stores, executions *)
(* are never undone, and a completed row is neither renewed nor released.            *)
LEMMA StoredStep ==
  ASSUME IdempotencyAssumption, TypeOK, RequestsInStep, StoredIsExecuted, [Next]_vars
  PROVE  StoredIsExecuted'
<1> USE IdempotencyAssumption DEF StoredIsExecuted
<1>1. CASE UNCHANGED vars
  BY <1>1 DEF vars
<1>2. CASE Tick
  BY <1>2 DEF Tick
<1>3. ASSUME NEW r \in Requests, RequestStep(r)
      PROVE  StoredIsExecuted'
  <2>1. CASE acquire(r) \/ Load(r) \/ Crash(r)
    BY <2>1 DEF acquire, Load, Crash
  <2>2. CASE Insert(r) \/ Renew(r) \/ AcquireFails(r)
    BY <2>2, ClaimTyped DEF Insert, Renew, AcquireFails
  <2>3. CASE Execute(r)
    BY <2>3 DEF Execute
  <2>4. CASE Complete(r)
    BY <2>4 DEF Complete, CompletedBy, Owns, RequestsInStep
  <2>5. CASE Release(r)
    BY <2>5, RowColumns DEF Release
  <2> QED
    BY <1>3, <2>1, <2>2, <2>3, <2>4, <2>5 DEF RequestStep, Step
<1> QED
  BY <1>1, <1>2, <1>3 DEF Next, RequestStep

(* The clause of LiveClaimKept about one request. *)
Kept(r) ==
  Claimed(r) /\ until[r] > now =>
    /\ row.id = r
    /\ row.state \in {"PROCESSING", "COMPLETED"}
    /\ row.state = "PROCESSING" => row.until = until[r]
    /\ row.state = "COMPLETED" => pc[r] \in {"done", "dead"}

(* A step of one request leaves every other request's live claim alone: it finds the *)
(* row absent, expired or its own before it writes it.                               *)
LEMMA OthersKept ==
  ASSUME IdempotencyAssumption, TypeOK, NEW r \in Requests, RequestStep(r),
         NEW e \in Requests, e # r, Kept(e)
  PROVE  Kept(e)'
<1>1. /\ UNCHANGED now
      /\ until'[e] = until[e] /\ pc'[e] = pc[e] /\ answer'[e] = answer[e]
      /\ e \in executed' <=> e \in executed
  BY DEF RequestStep, Step, acquire, Insert, Load, TryAgain, Renew, AcquireFails, Execute,
         Complete, Release, Crash, Goto, Serve, Answer, TypeOK
<1>2. CASE UNCHANGED row
  BY <1>1, <1>2 DEF Kept, Claimed
<1>3. CASE row.state = "NONE" \/ Renewable(r) \/ Owns(r)
  <2>1. ~(Claimed(e) /\ until[e] > now)
    BY <1>3 DEF Kept, Renewable, Owns, TypeOK, Times
  <2> QED
    BY <1>1, <2>1 DEF Kept, Claimed
<1> QED
  BY <1>2, <1>3 DEF RequestStep, Step, acquire, Insert, Load, Renew, AcquireFails, Execute,
                    Complete, Release, Crash

(* A step of a request keeps its own live claim. *)
LEMMA OwnKept ==
  ASSUME IdempotencyAssumption, TypeOK, RequestsInStep, NEW r \in Requests,
         RequestStep(r), Kept(r)
  PROVE  Kept(r)'
<1> USE DEF Kept, Claimed, Goto, Serve, Answer, TypeOK
<1>1. CASE acquire(r) \/ Load(r)
  BY <1>1 DEF acquire, Load, TryAgain, RequestsInStep
<1>2. CASE Insert(r) \/ Renew(r)
  BY <1>2, ClaimTyped DEF Insert, Renew, RequestsInStep
<1>3. CASE AcquireFails(r)
  BY <1>3 DEF AcquireFails, RequestsInStep
<1>4. CASE Execute(r) \/ Crash(r)
  BY <1>4 DEF Execute, Crash
<1>5. CASE Complete(r)
  BY <1>5 DEF Complete, CompletedBy, Owns
<1>6. CASE Release(r)
  BY <1>6 DEF Release
<1> QED
  BY <1>1, <1>2, <1>3, <1>4, <1>5, <1>6 DEF RequestStep, Step

(* Live claims are kept over every step. *)
LEMMA KeptStep ==
  ASSUME IdempotencyAssumption, TypeOK, RequestsInStep, LiveClaimKept, [Next]_vars
  PROVE  LiveClaimKept'
<1>1. \A r \in Requests : Kept(r)
  BY DEF LiveClaimKept, Kept
<1>2. SUFFICES ASSUME NEW r \in Requests
               PROVE  Kept(r)'
  BY DEF LiveClaimKept, Kept
<1>3. CASE UNCHANGED vars
  BY <1>1, <1>3 DEF Kept, Claimed, vars, requestVars
<1>4. CASE Tick
  BY <1>1, <1>4 DEF Kept, Claimed, Tick, requestVars, TypeOK, Times
<1>5. ASSUME NEW q \in Requests, RequestStep(q)
      PROVE  Kept(r)'
  BY <1>1, <1>5, OthersKept, OwnKept
<1> QED
  BY <1>3, <1>4, <1>5 DEF Next, RequestStep

(* The inductive invariant holds in every reachable state: what each request has     *)
(* done fits its phase, what is stored was executed, and live claims are kept.       *)
THEOREM Inductive == Spec => []IInv
<1>1. Init => IInv
  BY IdempotencyAssumption, RowColumns
     DEF Init, IInv, TypeOK, RequestsInStep, StoredIsExecuted, LiveClaimKept, Claimed,
         Phases, Answers, Times, Bodies
<1>2. IInv /\ [Next]_vars => IInv'
  BY IdempotencyAssumption, TypeStep, InStepStep, StoredStep, KeptStep DEF IInv
<1> QED
  BY <1>1, <1>2, PTL DEF Spec

(* Every column has its range and the columns of the row belong together.            *)
THEOREM IdempotencyTypeCorrect == Spec => []TypeOK
BY Inductive, PTL DEF IInv

(* While its lease lasts, a request that claimed the key owns the row (acquire,      *)
(* Complete, Release).                                                               *)
THEOREM LiveClaimsKept == Spec => []LiveClaimKept
BY Inductive, PTL DEF IInv

(* A mutation is committed twice only after a lease ran out or an execution reported *)
(* failure (idempotent).                                                             *)
THEOREM DuplicatesNeedExpiredLease == Spec => DuplicateNeedsExpiredLease
<1>1. ASSUME IInv, Next, NEW r \in executed' \ executed, NEW e \in executed \ {r}
      PROVE  until[e] <= now \/ until[r] <= now \/ answer[e] = "FAILED"
  <2>1. r \in Requests /\ pc[r] = "execute"
    BY <1>1 DEF Next, Tick, Step, acquire, Insert, Load, Renew, AcquireFails, Execute,
                Complete, Release, Crash, IInv, TypeOK
  <2>2. e \in Requests /\ e # r
    BY <1>1 DEF IInv, TypeOK
  <2>3. until[e] > now => answer[e] = "FAILED" \/ row.id = e
    BY <1>1, <2>2 DEF IInv, LiveClaimKept, Claimed
  <2>4. until[r] > now => row.id = r
    BY <1>1, <2>1 DEF IInv, LiveClaimKept, Claimed
  <2> QED
    BY <1>1, <2>1, <2>2, <2>3, <2>4, IdempotencyAssumption DEF IInv, TypeOK, Times
<1>2. IInv /\ [Next]_vars =>
        [\A r \in executed' \ executed : \A e \in executed \ {r} :
           \/ until[e] <= now
           \/ until[r] <= now
           \/ answer[e] = "FAILED"]_vars
  BY <1>1
<1> QED
  BY <1>2, Inductive, PTL DEF Spec, DuplicateNeedsExpiredLease

(* The middleware implements the abstract store: one response per key, published by   *)
(* an execution and served unchanged to matching requests only (Acquire, Complete,    *)
(* idempotent).                                                                       *)
THEOREM StoresOneResponse == Spec => OneStoredResponse
<1> USE IdempotencyAssumption
<1>1. Init => Promise!Init
  BY RowColumns DEF Init, Promise!Init
<1>2. ASSUME IInv, [Next]_vars
      PROVE  [Promise!Next]_(Promise!vars)
  <2>1. CASE UNCHANGED vars \/ Tick
    BY <2>1 DEF vars, requestVars, Tick, Promise!vars
  <2>2. ASSUME NEW r \in Requests, RequestStep(r)
        PROVE  [Promise!Next]_(Promise!vars)
    <3> USE <1>2 DEF IInv, TypeOK
    (* An answer without a response changes nothing the store knows of. *)
    <3>1. ASSUME NEW kind, Answer(r, kind), pc[r] # "done"
          PROVE  served' = served
      BY <3>1 DEF Answer, Serve, RequestsInStep
    <3>2. CASE acquire(r) \/ Crash(r)
      BY <3>2 DEF acquire, Crash, Goto, Promise!vars
    <3>3. CASE Insert(r) \/ Renew(r) \/ AcquireFails(r)
      BY <3>1, <3>3, ClaimTyped
         DEF Insert, Renew, Renewable, AcquireFails, Goto, Promise!vars
    <3>4. CASE Load(r)
      <4>1. CASE row.state = "COMPLETED" /\ HashFits(r) /\ Serve(r, "REPLAY", row.body)
        <5>1. Promise!Matches(r, row.body)
          BY <4>1 DEF HashFits, StoredIsExecuted, Promise!Matches
        <5>2. Promise!Serve(r)
          BY <3>4, <4>1, <5>1 DEF Load, Serve, Promise!Serve
        <5> QED
          BY <5>2 DEF Promise!Next
      <4>2. CASE TryAgain(r)
        BY <3>4, <4>2 DEF Load, TryAgain, Promise!vars
      <4>3. CASE (\E kind : Answer(r, kind)) \/ Goto(r, "renew")
        BY <3>1, <3>4, <4>3 DEF Load, Goto, Promise!vars
      <4> QED
        BY <3>4, <4>1, <4>2, <4>3 DEF Load
    <3>5. CASE Execute(r)
      BY <3>5 DEF Execute, Goto, Promise!Next, Promise!Execute, Promise!vars
    <3>6. CASE Complete(r)
      <4>1. CASE UNCHANGED row
        BY <3>1, <3>6, <4>1 DEF Complete, Owns, CompletedBy, Promise!vars
      <4>2. CASE Owns(r) /\ row' = CompletedBy(r)
        <5>1. row.body = NoBody /\ row'.body = r /\ r \in executed
          BY <3>6, <4>2 DEF Owns, CompletedBy, Complete, RequestsInStep
        <5>2. served' \in {served, [served EXCEPT ![r] = r]}
          BY <3>1, <3>6 DEF Complete, Serve
        <5>3. Promise!Publish(r)
          BY <3>6, <5>1, <5>2 DEF Complete, Promise!Publish
        <5> QED
          BY <5>3 DEF Promise!Next
      <4> QED
        BY <3>6, <4>1, <4>2 DEF Complete
    <3>7. CASE Release(r)
      BY <3>1, <3>7, RowColumns DEF Release, Owns, Promise!vars
    <3> QED
      BY <2>2, <3>2, <3>3, <3>4, <3>5, <3>6, <3>7 DEF RequestStep, Step
  <2> QED
    BY <1>2, <2>1, <2>2 DEF Next, RequestStep
<1> QED
  BY <1>1, <1>2, Inductive, PTL DEF Spec, OneStoredResponse, Promise!Spec
=============================================================================
