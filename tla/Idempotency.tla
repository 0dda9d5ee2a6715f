----------------------------- MODULE Idempotency -----------------------------
(***************************************************************************)
(* What the proxy promises, without cacher, queue, cleaners or polls: each *)
(* key has one lease, held by one forwarding request; the holder turns it  *)
(* into an answer, gives it up or leaves it to run out; those who come     *)
(* meanwhile wait for that answer and for no other.                        *)
(*                                                                         *)
(* MemoryProxy and RedisProxy implement it as long as a holder is done     *)
(* before its lease ends.                                                  *)
(***************************************************************************)
EXTENDS ProxyTime

CONSTANTS Requests, KeyOf, Nobody

VARIABLES lease,    \* per key: until when, and the answer (Nobody: none yet)
          status,   \* idle, forwarding, waiting or ended
          got       \* the request whose response this one was answered with

vars == <<now, lease, status, got>>

Free       == [until |-> 0, answer |-> Nobody]
Running(k) == lease[k].until > now

Init == /\ now = 0
        /\ lease = [k \in Keys |-> Free]
        /\ status = [r \in Requests |-> "idle"]
        /\ got = [r \in Requests |-> Nobody]

Becomes(r, s) == status' = [status EXCEPT ![r] = s]

Grant(r, answer) ==
  lease' = [lease EXCEPT ![KeyOf[r]] = [until |-> now + TTL, answer |-> answer]]

(* Mutant of Forward: the lease of another request is no obstacle. *)
ForwardAlways(r) == /\ status[r] = "idle"
                    /\ Becomes(r, "forwarding") /\ Grant(r, Nobody)
                    /\ UNCHANGED got

Forward(r) == /\ status[r] = "idle" /\ ~Running(KeyOf[r])
              /\ Becomes(r, "forwarding") /\ Grant(r, Nobody)
              /\ UNCHANGED got

Wait(r) == /\ status[r] = "idle" /\ Running(KeyOf[r])
           /\ Becomes(r, "waiting") /\ UNCHANGED <<lease, got>>

(* Only a running lease without an answer is answered, by its holder; its  *)
(* own client may miss the news.                                           *)
Answer(r) == /\ status[r] = "forwarding"
             /\ Running(KeyOf[r]) /\ lease[KeyOf[r]].answer = Nobody
             /\ Grant(r, r) /\ Becomes(r, "ended")
             /\ got' = [got EXCEPT ![r] = r] \/ UNCHANGED got

Release(r) == /\ status[r] = "forwarding"
              /\ Running(KeyOf[r]) /\ lease[KeyOf[r]].answer = Nobody
              /\ lease' = [lease EXCEPT ![KeyOf[r]] = Free]
              /\ Becomes(r, "ended") /\ UNCHANGED got

Share(r) == /\ status[r] = "waiting"
            /\ lease[KeyOf[r]].answer # Nobody
            /\ got' = [got EXCEPT ![r] = lease[KeyOf[r]].answer]
            /\ Becomes(r, "ended") /\ UNCHANGED lease

(* The key is leased to a request that never hears of it. *)
Lose(r) == /\ status[r] = "idle" /\ ~Running(KeyOf[r])
           /\ Becomes(r, "ended") /\ Grant(r, Nobody)
           /\ UNCHANGED got

(* Rejected, failed, out of patience or gone: the lease is not touched. *)
GiveUp(r) == /\ status[r] # "ended" /\ Becomes(r, "ended")
             /\ UNCHANGED <<lease, got>>

(* Leases that have run out may be forgotten, running ones never. *)
Forget == /\ \E ks \in SUBSET {k \in Keys : ~Running(k)} :
               lease' = [k \in Keys |-> IF k \in ks THEN Free ELSE lease[k]]
          /\ UNCHANGED <<status, got>>

Next == \/ /\ UNCHANGED now
           /\ \/ \E r \in Requests : \/ Forward(r) \/ Wait(r) \/ Answer(r)
                                     \/ Release(r) \/ Share(r) \/ Lose(r)
                                     \/ GiveUp(r)
              \/ Forget
        \/ /\ Tick
           /\ \A r \in Requests :
                status[r] = "forwarding" => lease[KeyOf[r]].until > now'
           /\ UNCHANGED <<lease, status, got>>

Spec == Init /\ [][Next]_vars

=============================================================================
