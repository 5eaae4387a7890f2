-------------------------------- MODULE Bucket --------------------------------
(***************************************************************************)
(* The outbound rate limit of one connection: the writer's token bucket     *)
(* (lurker-client socket.rs) and the bucket of the same shape the server    *)
(* keeps for the socket, which is external.                                 *)
(*                                                                          *)
(* Time and tokens are counted in ticks: a tick refills one tick's worth,   *)
(* and a verb costs Cost of them (a token, 1/40 s).                         *)
(***************************************************************************)
EXTENDS Integers

CONSTANTS
  Capacity,  \* what a full bucket holds (120 tokens)
  Cost,      \* what a verb costs (1 token)
  MaxTime    \* bound: the last tick

ASSUME BucketAssumption ==
  /\ Capacity \in Nat /\ Cost \in Nat \ {0} /\ MaxTime \in Nat
  /\ Cost <= Capacity

VARIABLES
  now,      \* the clock
  level,    \* Bucket::tokens
  last,     \* Bucket::last
  holding,  \* whether the writer waits with a verb in hand
  due,      \* when the wait is over, or was
  spent,    \* cost of all the verbs sent
  room,     \* level of the server's bucket
  overrun   \* whether a verb ever found too little in the server's bucket

bucket == <<level, last>>
server == <<spent, room, overrun>>
bucketVars == <<now, bucket, holding, due, server>>

Least(a, b) == IF a < b THEN a ELSE b

(* mutant: nothing is refilled *)
NeverFilled == Least(level, Capacity)

Filled == Least(level + (now - last), Capacity)

(* The verb is written; the server charges its own bucket for it, and a     *)
(* verb it cannot charge empties that.                                      *)
Written ==
  /\ spent' = spent + Cost
  /\ overrun' = (overrun \/ room < Cost)
  /\ room' = IF room < Cost THEN 0 ELSE room - Cost

(* mutant: the time of the last refill is not kept *)
AcquireForgets ==
  /\ ~holding
  /\ last' = last
  /\ \/ /\ Filled >= Cost
        /\ level' = Filled - Cost
        /\ Written
        /\ UNCHANGED <<holding, due>>
     \/ /\ Filled < Cost
        /\ level' = 0
        /\ holding' = TRUE
        /\ due' = now + (Cost - Filled)
        /\ UNCHANGED server
  /\ UNCHANGED now

(* The writer takes a verb.  Bucket::acquire lets it be sent at once, or    *)
(* says how long to wait.                                                   *)
Acquire ==
  /\ ~holding
  /\ last' = now
  /\ \/ /\ Filled >= Cost
        /\ level' = Filled - Cost
        /\ Written
        /\ UNCHANGED <<holding, due>>
     \/ /\ Filled < Cost
        /\ level' = 0
        /\ holding' = TRUE
        /\ due' = now + (Cost - Filled)
        /\ UNCHANGED server
  /\ UNCHANGED now

(* The wait is over and the verb is sent; a timer may be late, never early. *)
Send ==
  /\ holding
  /\ now >= due
  /\ holding' = FALSE
  /\ Written
  /\ UNCHANGED <<now, bucket, due>>

Tick ==
  /\ now < MaxTime
  /\ now' = now + 1
  /\ room' = Least(room + 1, Capacity)
  /\ UNCHANGED <<bucket, holding, due, spent, overrun>>

BucketInit ==
  /\ now = 0
  /\ level = Capacity /\ last = 0
  /\ holding = FALSE /\ due = 0
  /\ spent = 0 /\ room = Capacity /\ overrun = FALSE

BucketNext == Acquire \/ Send \/ Tick

BucketSpec == BucketInit /\ [][BucketNext]_bucketVars

-------------------------------------------------------------------------------
(* Properties *)

(* Every variable has its type; the clock is never behind the last refill.  *)
BucketTypes ==
  /\ now \in 0..MaxTime
  /\ level \in 0..Capacity
  /\ last \in 0..now
  /\ holding \in BOOLEAN
  /\ due \in Nat
  /\ spent \in Nat
  /\ room \in 0..Capacity
  /\ overrun \in BOOLEAN

(* From the start of the connection, the writer never sends more than a     *)
(* full bucket and twice what is refilled.  (Twice, because the time of a   *)
(* wait is credited a second time by the call that follows it.)             *)
RateBound == spent <= Capacity + 2 * now

(* The writer is never held back while the server would still accept. *)
NoNeedlessWait == holding /\ now < due => room < Cost

(* socket.rs: the client throttles itself to stay safely inside the         *)
(* server's bucket, rather than discover the limit by being disconnected.   *)
StaysInside == ~overrun

===============================================================================
