---------------------------- MODULE Idempotency ----------------------------
(* Requests that carry the same Idempotency-Key (one credential, one operation, one  *)
(* key) against the one row they compete for.  Every statement the manager sends to  *)
(* the database is a step of its own, because nothing but the row orders them; the   *)
(* mutation in between is one step, because its handler is one transaction.          *)
EXTENDS Naturals

CONSTANTS
  Requests,      \* HTTP requests that carry the key; each has a claim id of its own
  Fingerprints,  \* what requestFingerprint can return for them
  NoHash,        \* '' : the fingerprint of a row from before migration 010
  Legacy,        \* the response such a row stores
  NoBody,        \* response_body IS NULL
  NoRequest,     \* the claim id of an absent or a migrated row
  Lease,         \* how long a claim protects its owner
  Attempts,      \* how often Acquire tries
  MaxTime        \* bound on the clock

ASSUME IdempotencyAssumption ==
  /\ NoHash \notin Fingerprints
  /\ NoRequest \notin Requests
  /\ Legacy \notin Requests
  /\ NoBody \notin Requests \cup {Legacy}
  /\ Lease \in Nat \ {0}
  /\ Attempts \in Nat \ {0}
  /\ MaxTime \in Nat

VARIABLES
  now,           \* the clock that API and database share
  row,           \* the row of idempotency_keys; locked_until NULL is 0, which is past
  hash,          \* the fingerprint of each request
  pc,            \* where the middleware is with each request
  until,         \* lockedUntil of the request's last try
  tries,         \* finished tries of Acquire that asked for another
  answer,        \* what the client is told
  served,        \* the successful response it gets with that answer
  executed       \* the requests whose mutation is committed

requestVars == <<pc, until, tries, answer, served>>
vars == <<now, row, hash, requestVars, executed>>

Phases == {"begin", "insert", "load", "renew", "execute", "complete", "release", "done", "dead"}
Answers == {"NONE", "OK", "REPLAY", "CONFLICT", "BUSY", "DATABASE_ERROR",
            "FINALIZATION_FAILED", "FAILED"}
Bodies == Requests \cup {Legacy}
Times == 0 .. MaxTime + Lease

RowType ==
  [state: {"NONE", "PROCESSING", "COMPLETED"}, id: Requests \cup {NoRequest},
   hash: Fingerprints \cup {NoHash}, until: Times, body: Bodies \cup {NoBody}]

AbsentRow ==
  [state |-> "NONE", id |-> NoRequest, hash |-> NoHash, until |-> 0, body |-> NoBody]

(* Migration 010 turns every row it finds into a COMPLETED one without fingerprint. *)
LegacyRow ==
  [state |-> "COMPLETED", id |-> NoRequest, hash |-> NoHash, until |-> 0, body |-> Legacy]

ClaimedBy(r) ==
  [state |-> "PROCESSING", id |-> r, hash |-> hash[r], until |-> until[r], body |-> NoBody]

(* Mutant: the row is found by the key alone. *)
OwnsByKey(r) == row.state = "PROCESSING"

(* Mutant: the completed row keeps its lease. *)
CompletedWithLease(r) ==
  [state |-> "COMPLETED", id |-> row.id, hash |-> row.hash, until |-> row.until, body |-> r]

(* What Complete leaves of a claim. *)
CompletedBy(r) ==
  [state |-> "COMPLETED", id |-> row.id, hash |-> row.hash, until |-> 0, body |-> r]

(* WHERE id=... AND request_hash=... AND state='PROCESSING' *)
Owns(r) == row.state = "PROCESSING" /\ row.id = r /\ row.hash = hash[r]

HashFits(r) == row.hash \in {NoHash, hash[r]}

Init ==
  /\ now = 0
  /\ row \in {AbsentRow, LegacyRow}
  /\ hash \in [Requests -> Fingerprints]
  /\ pc = [r \in Requests |-> "begin"]
  /\ until = [r \in Requests |-> 0]
  /\ tries = [r \in Requests |-> 0]
  /\ answer = [r \in Requests |-> "NONE"]
  /\ served = [r \in Requests |-> NoBody]
  /\ executed = {}

-----------------------------------------------------------------------------
Goto(r, phase) ==
  /\ pc' = [pc EXCEPT ![r] = phase]
  /\ UNCHANGED <<until, tries, answer, served>>

Serve(r, kind, body) ==
  /\ pc' = [pc EXCEPT ![r] = "done"]
  /\ answer' = [answer EXCEPT ![r] = kind]
  /\ served' = [served EXCEPT ![r] = body]
  /\ UNCHANGED <<until, tries>>

Answer(r, kind) == Serve(r, kind, NoBody)

(* One try of acquire computes the end of the lease before it sends anything. *)
acquire(r) ==
  /\ pc[r] = "begin"
  /\ until' = [until EXCEPT ![r] = now + Lease]
  /\ pc' = [pc EXCEPT ![r] = "insert"]
  /\ UNCHANGED <<now, row, hash, tries, answer, served, executed>>

(* INSERT ... ON CONFLICT DO NOTHING *)
Insert(r) ==
  /\ pc[r] = "insert"
  /\ \/ /\ row.state = "NONE"
        /\ row' = ClaimedBy(r)
        /\ Goto(r, "execute")
     \/ /\ row.state # "NONE"
        /\ Goto(r, "load")
        /\ UNCHANGED row
  /\ UNCHANGED <<now, hash, executed>>

(* Mutant: the vanished row is only read again. *)
ReadAgain(r) ==
  /\ row.state = "NONE"
  /\ Goto(r, "load")

(* The row vanished between the INSERT and the SELECT: try again, or give up. *)
TryAgain(r) ==
  /\ row.state = "NONE"
  /\ tries' = [tries EXCEPT ![r] = @ + 1]
  /\ \/ /\ tries[r] + 1 < Attempts
        /\ pc' = [pc EXCEPT ![r] = "begin"]
        /\ UNCHANGED answer
     \/ /\ tries[r] + 1 = Attempts
        /\ pc' = [pc EXCEPT ![r] = "done"]
        /\ answer' = [answer EXCEPT ![r] = "BUSY"]
  /\ UNCHANGED <<until, served>>

(* Mutant: the fingerprint is compared only while the claim is processing. *)
LoadAnyFingerprint(r) ==
  /\ pc[r] = "load"
  /\ \/ TryAgain(r)
     \/ /\ row.state = "COMPLETED"
        /\ Serve(r, "REPLAY", row.body)
     \/ /\ row.state = "PROCESSING"
        /\ \/ ~HashFits(r) /\ Answer(r, "CONFLICT")
           \/ HashFits(r) /\ row.until > now /\ Answer(r, "BUSY")
           \/ HashFits(r) /\ row.until <= now /\ Goto(r, "renew")
  /\ UNCHANGED <<now, row, hash, executed>>

(* The SELECT and the decisions taken on what it returned. *)
Load(r) ==
  /\ pc[r] = "load"
  /\ \/ TryAgain(r)
     \/ /\ row.state # "NONE"
        /\ ~HashFits(r)
        /\ Answer(r, "CONFLICT")
     \/ /\ row.state = "COMPLETED"
        /\ HashFits(r)
        /\ Serve(r, "REPLAY", row.body)
     \/ /\ row.state = "PROCESSING"
        /\ HashFits(r)
        /\ \/ /\ row.until > now
              /\ Answer(r, "BUSY")
           \/ /\ row.until <= now
              /\ Goto(r, "renew")
  /\ UNCHANGED <<now, row, hash, executed>>

(* Mutant: the lease was checked by the SELECT, so the UPDATE does not check it. *)
RenewableAsLoaded(r) ==
  /\ row.state = "PROCESSING"
  /\ HashFits(r)

(* The WHERE clause of the renewing UPDATE, evaluated when it runs. *)
Renewable(r) ==
  /\ row.state = "PROCESSING"
  /\ row.until <= now
  /\ HashFits(r)

Renew(r) ==
  /\ pc[r] = "renew"
  /\ \/ /\ Renewable(r)
        /\ row' = ClaimedBy(r)
        /\ Goto(r, "execute")
     \/ /\ ~Renewable(r)
        /\ Answer(r, "BUSY")
        /\ UNCHANGED row
  /\ UNCHANGED <<now, hash, executed>>

(* A statement of Acquire fails: it was not executed, or it was and its           *)
(* acknowledgement was lost.  The middleware answers 500 and forgets the claim.   *)
AcquireFails(r) ==
  /\ pc[r] \in {"insert", "load", "renew"}
  /\ \/ UNCHANGED row
     \/ pc[r] = "insert" /\ row.state = "NONE" /\ row' = ClaimedBy(r)
     \/ pc[r] = "renew" /\ Renewable(r) /\ row' = ClaimedBy(r)
  /\ Answer(r, "DATABASE_ERROR")
  /\ UNCHANGED <<now, hash, executed>>

(* c.Next(): the handler's transaction.  It commits and reports success; it is     *)
(* refused and changes nothing; or it commits and still reports an error, because  *)
(* the commit's acknowledgement or a later read failed.                            *)
Execute(r) ==
  /\ pc[r] = "execute"
  /\ \/ executed' = executed \cup {r} /\ Goto(r, "complete")
     \/ executed' \in {executed, executed \cup {r}} /\ Goto(r, "release")
  /\ UNCHANGED <<now, row, hash>>

(* Complete publishes the response and, when it did, the middleware sends it.      *)
(* A timeout leaves it open whether the UPDATE took effect.                        *)
Complete(r) ==
  /\ pc[r] = "complete"
  /\ \/ /\ Owns(r)
        /\ row' = CompletedBy(r)
        /\ Serve(r, "OK", r) \/ Answer(r, "FINALIZATION_FAILED")
     \/ /\ Answer(r, "FINALIZATION_FAILED")
        /\ UNCHANGED row
  /\ UNCHANGED <<now, hash, executed>>

(* Release deletes the claim of a failed execution; when that fails too, it is     *)
(* logged and the claim stays.  Either way the handler's own error is the answer.  *)
Release(r) ==
  /\ pc[r] = "release"
  /\ \/ Owns(r) /\ row' = AbsentRow
     \/ UNCHANGED row
  /\ Answer(r, "FAILED")
  /\ UNCHANGED <<now, hash, executed>>

(* The API process dies, or the handler panics past the middleware. *)
Crash(r) ==
  /\ pc[r] \notin {"done", "dead"}
  /\ Goto(r, "dead")
  /\ UNCHANGED <<now, row, hash, executed>>

Tick ==
  /\ now < MaxTime
  /\ now' = now + 1
  /\ UNCHANGED <<row, hash, requestVars, executed>>

Step(r) ==
  \/ acquire(r) \/ Insert(r) \/ Load(r) \/ Renew(r)
  \/ Execute(r) \/ Complete(r) \/ Release(r)

Next == Tick \/ \E r \in Requests : Step(r) \/ AcquireFails(r) \/ Crash(r)

(* A request's goroutine keeps running unless its process dies; no failure of the  *)
(* database is relied on.                                                          *)
Spec == Init /\ [][Next]_vars /\ \A r \in Requests : WF_vars(Step(r))

-----------------------------------------------------------------------------
(* Every column and every request's state has its declared range, and the columns   *)
(* of the row belong together: only a claim has a lease, only a completed row a     *)
(* response, and only an absent row neither.                                        *)
TypeOK ==
  /\ now \in 0 .. MaxTime
  /\ row \in RowType
  /\ hash \in [Requests -> Fingerprints]
  /\ pc \in [Requests -> Phases]
  /\ until \in [Requests -> Times]
  /\ tries \in [Requests -> 0 .. Attempts]
  /\ answer \in [Requests -> Answers]
  /\ served \in [Requests -> Bodies \cup {NoBody}]
  /\ executed \in SUBSET Requests
  /\ row.state = "PROCESSING" => row.id \in Requests /\ row.hash = hash[row.id]
  /\ row.state # "PROCESSING" => row.until = 0
  /\ row.state = "COMPLETED" <=> row.body # NoBody

(* A request that has claimed the key and has not handed it back: it executes, or   *)
(* its mutation is committed and it did not report a failure.                       *)
Claimed(r) ==
  \/ pc[r] \in {"execute", "complete", "release"}
  \/ r \in executed /\ answer[r] # "FAILED"

(* While its lease lasts, a request that claimed the key owns the row: nobody has   *)
(* taken the claim over, completed it or released it, through crashes, lost         *)
(* acknowledgements and late statements of earlier owners (acquire, Complete,       *)
(* Release).                                                                        *)
LiveClaimKept ==
  \A r \in Requests :
    Claimed(r) /\ until[r] > now =>
      /\ row.id = r
      /\ row.state \in {"PROCESSING", "COMPLETED"}
      /\ row.state = "PROCESSING" => row.until = until[r]
      /\ row.state = "COMPLETED" => pc[r] \in {"done", "dead"}

(* A mutation is committed a second time only after a lease ran out, or when the    *)
(* earlier execution answered with an error (idempotent).                           *)
DuplicateNeedsExpiredLease ==
  [][\A r \in executed' \ executed : \A e \in executed \ {r} :
       \/ until[e] <= now
       \/ until[r] <= now
       \/ answer[e] = "FAILED"]_vars

(* No client is left without an answer unless the process died: the retry loop of   *)
(* Acquire ends, and every path of the middleware answers (idempotent).             *)
EveryRequestAnswered == \A r \in Requests : <>(pc[r] \in {"done", "dead"})

(* One response per key: what is published never changes, comes from a committed    *)
(* execution, and is what every successful first answer and every replay carries,   *)
(* for the fingerprint it was computed from (Acquire, Complete, idempotent).        *)
Promise == INSTANCE ReplayStore WITH stored <- row.body
OneStoredResponse == Promise!Spec
=============================================================================
