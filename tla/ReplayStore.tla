---------------------------- MODULE ReplayStore ----------------------------
(* What the idempotency layer promises of one key: at most one response is ever     *)
(* published for it, that response comes from a request that really executed (or    *)
(* from before the layer existed), and whoever gets a successful answer gets that   *)
(* response, for the request it was computed from.  Executing twice is not excluded *)
(* here: Idempotency says when it can happen.                                       *)
CONSTANTS
  Requests,      \* HTTP requests that carry the key
  Legacy,        \* a response stored before requests were fingerprinted
  NoBody         \* no response

VARIABLES
  hash,          \* the fingerprint of each request
  executed,      \* the requests whose mutation is committed
  stored,        \* the published response
  served         \* the successful response each request was answered with

vars == <<hash, executed, stored, served>>

Matches(r, body) == body = Legacy \/ hash[r] = hash[body]

Init ==
  /\ executed = {}
  /\ stored \in {NoBody, Legacy}
  /\ served = [r \in Requests |-> NoBody]

Execute(r) ==
  /\ executed' = executed \cup {r}
  /\ UNCHANGED <<hash, stored, served>>

(* A request publishes its response; it may fail to learn that it did. *)
Publish(r) ==
  /\ r \in executed
  /\ stored = NoBody
  /\ stored' = r
  /\ served' \in {served, [served EXCEPT ![r] = r]}
  /\ UNCHANGED <<hash, executed>>

Serve(r) ==
  /\ stored # NoBody
  /\ Matches(r, stored)
  /\ served' = [served EXCEPT ![r] = stored]
  /\ UNCHANGED <<hash, executed, stored>>

Next == \E r \in Requests : Execute(r) \/ Publish(r) \/ Serve(r)

Spec == Init /\ [][Next]_vars
=============================================================================
