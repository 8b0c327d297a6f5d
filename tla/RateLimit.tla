----------------------------- MODULE RateLimit -----------------------------
(***************************************************************************)
(* The rate limits of the server: the in-memory limiter, the limiter on a  *)
(* Redis list, the limit on successful model requests, which checks such a *)
(* list before and records after the request, and the token bucket in a    *)
(* Redis script.  One key; several requests at once; time in units of the  *)
(* seconds the limiters compare.                                           *)
(***************************************************************************)
EXTENDS Integers, Sequences, FiniteSets

CONSTANTS
    Request,      \* requests that may be served at the same time
    MaxNum,       \* maxRequestNum
    Duration,     \* of the window
    Expiry,       \* RateLimitKeyExpirationDuration
    MaxTime       \* bound: the clock

Limiter == {"memory", "redis", "success", "bucket"}

VARIABLES
    limiter,    \* which limiter the behaviour is about
    now,
    list,       \* the times in the queue or list, the newest first
    expires,    \* when Redis drops the list
    bucket,     \* tokens and last_time of the script
    at,         \* per request: its next command
    oldest,     \* per request: the time it read at the end of the list
    passed,     \* history: when requests were let through, in order
    early       \* history: a request was refused too early

vars == <<limiter, now, list, expires, bucket, at, oldest, passed, early>>

Time == 0..MaxTime

Init ==
    /\ limiter \in Limiter
    /\ now = 0 /\ list = <<>> /\ expires = 0
    /\ bucket = [tokens |-> MaxNum * Duration, last |-> 0]
    /\ at = [r \in Request |-> "idle"] /\ oldest = [r \in Request |-> 0]
    /\ passed = <<>> /\ early = FALSE

Within(from, to) == {i \in DOMAIN passed : from <= passed[i] /\ passed[i] <= to}
Recent == Cardinality(Within(now + 1 - Duration, now))

Admit == passed' = Append(passed, now)
Refuse == early' = (early \/ Recent < MaxNum)
Goto(r, s) == at' = [at EXCEPT ![r] = s]

(* Redis drops a list whose time is up.  The commands of a check or of a   *)
(* record take milliseconds, well below the unit of time; serving a model  *)
(* request may take long.                                                  *)
Tick ==
    /\ now < MaxTime /\ \A r \in Request : at[r] \in {"idle", "serve"}
    /\ now' = now + 1
    /\ list' = IF limiter \in {"redis", "success"} /\ expires <= now' THEN <<>> ELSE list
    /\ UNCHANGED <<limiter, expires, bucket, at, oldest, passed, early>>

(***************************************************************************)
(* InMemoryRateLimiter, under its mutex.  Keys are kept for Expiry, which  *)
(* is to be at least the window (common/constants.go).                     *)
(***************************************************************************)

(* A plausible mistake: the newest request decides.                        *)
MemoryRequest_Newest(r) ==
    /\ limiter = "memory"
    /\ \/ /\ Len(list) < MaxNum
          /\ list' = <<now>> \o list /\ Admit /\ UNCHANGED early
       \/ /\ Len(list) >= MaxNum /\ now - list[1] >= Duration
          /\ list' = <<now>> \o SubSeq(list, 1, Len(list) - 1) /\ Admit /\ UNCHANGED early
       \/ /\ Len(list) >= MaxNum /\ now - list[1] < Duration
          /\ Refuse /\ UNCHANGED <<list, passed>>
    /\ UNCHANGED <<limiter, now, expires, bucket, at, oldest>>

MemoryRequest(r) ==
    /\ limiter = "memory"
    /\ \/ /\ Len(list) < MaxNum
          /\ list' = <<now>> \o list /\ Admit /\ UNCHANGED early
       \/ /\ Len(list) >= MaxNum /\ now - list[Len(list)] >= Duration
          /\ list' = <<now>> \o SubSeq(list, 1, Len(list) - 1) /\ Admit /\ UNCHANGED early
       \/ /\ Len(list) >= MaxNum /\ now - list[Len(list)] < Duration
          /\ Refuse /\ UNCHANGED <<list, passed>>
    /\ UNCHANGED <<limiter, now, expires, bucket, at, oldest>>

ClearExpiredItems ==
    /\ limiter = "memory" /\ list # <<>> /\ now - list[1] > Expiry
    /\ list' = <<>>
    /\ UNCHANGED <<limiter, now, expires, bucket, at, oldest, passed, early>>

(***************************************************************************)
(* redisRateLimiter, userRedisRateLimiter; checkRedisRateLimit and         *)
(* recordRedisRequest.  Each command is a step of its own.                 *)
(***************************************************************************)
(* LLEN.  Let through, a request is pushed at once, or is served first.    *)
ReadLength(r) ==
    /\ limiter \in {"redis", "success"} /\ at[r] = "idle"
    /\ Goto(r, IF Len(list) >= MaxNum THEN "index"
               ELSE IF limiter = "redis" THEN "pushOnly" ELSE "serve")
    /\ UNCHANGED <<limiter, now, list, expires, bucket, oldest, passed, early>>

(* LINDEX -1.  The list is not dropped since the LLEN (see Tick), so the   *)
(* error path, where the time does not parse, is not taken.                *)
ReadOldest(r) ==
    /\ at[r] = "index"
    /\ oldest' = [oldest EXCEPT ![r] = list[Len(list)]]
    /\ Goto(r, "compare")
    /\ UNCHANGED <<limiter, now, list, expires, bucket, passed, early>>

(* A plausible mistake: the window is one unit short.                      *)
Compare_Short(r) ==
    /\ at[r] = "compare"
    /\ IF now + 1 - oldest[r] < Duration
       THEN Refuse /\ Goto(r, "expire")
       ELSE Goto(r, IF limiter = "redis" THEN "push" ELSE "serve") /\ UNCHANGED early
    /\ UNCHANGED <<limiter, now, list, expires, bucket, oldest, passed>>

Compare(r) ==
    /\ at[r] = "compare"
    /\ IF now - oldest[r] < Duration
       THEN Refuse /\ Goto(r, "expire")
       ELSE Goto(r, IF limiter = "redis" THEN "push" ELSE "serve") /\ UNCHANGED early
    /\ UNCHANGED <<limiter, now, list, expires, bucket, oldest, passed>>

(* A model request is recorded when it succeeded.                          *)
Serve(r) ==
    /\ at[r] = "serve"
    /\ \/ Goto(r, "push") \/ Goto(r, "idle")
    /\ UNCHANGED <<limiter, now, list, expires, bucket, oldest, passed, early>>

(* LPUSH creates a list that lives until the EXPIRE.                       *)
Push(r) ==
    /\ at[r] \in {"push", "pushOnly"}
    /\ list' = <<now>> \o list /\ Admit
    /\ expires' = IF list = <<>> THEN MaxTime + 1 ELSE expires
    /\ Goto(r, IF at[r] = "push" THEN "trim" ELSE "expire")
    /\ UNCHANGED <<limiter, now, bucket, oldest, early>>

Trim(r) ==
    /\ at[r] = "trim"
    /\ list' = IF Len(list) > MaxNum THEN SubSeq(list, 1, MaxNum) ELSE list
    /\ Goto(r, "expire")
    /\ UNCHANGED <<limiter, now, expires, bucket, oldest, passed, early>>

Expire(r) ==
    /\ at[r] = "expire"
    /\ expires' = IF list = <<>> THEN expires ELSE now + Expiry
    /\ Goto(r, "idle")
    /\ UNCHANGED <<limiter, now, list, bucket, oldest, passed, early>>

(***************************************************************************)
(* The script, which Redis runs as one step: a request takes Duration      *)
(* tokens, MaxNum come each unit of time.                                  *)
(***************************************************************************)
Allow(r) ==
    /\ limiter = "bucket"
    /\ LET filled == bucket.tokens + (now - bucket.last) * MaxNum
           tokens == IF filled > MaxNum * Duration THEN MaxNum * Duration ELSE filled
       IN  IF tokens >= Duration
           THEN /\ bucket' = [tokens |-> tokens - Duration, last |-> now]
                /\ Admit /\ UNCHANGED early
           ELSE /\ bucket' = [tokens |-> tokens, last |-> now]
                /\ Refuse /\ UNCHANGED passed
    /\ UNCHANGED <<limiter, now, list, expires, at, oldest>>

Next ==
    \/ Tick \/ ClearExpiredItems
    \/ \E r \in Request :
         \/ MemoryRequest(r) \/ ReadLength(r) \/ ReadOldest(r) \/ Compare(r) \/ Serve(r)
         \/ Push(r) \/ Trim(r) \/ Expire(r) \/ Allow(r)

Spec == Init /\ [][Next]_vars

-----------------------------------------------------------------------------
TypeOK ==
    /\ limiter \in Limiter /\ now \in Time /\ list \in Seq(Time) /\ expires \in Nat
    /\ bucket \in [tokens : 0..(MaxNum * Duration), last : Time]
    /\ at \in [Request -> {"idle", "index", "compare", "serve", "push", "pushOnly", "trim",
                           "expire"}]
    /\ oldest \in [Request -> Time] /\ passed \in Seq(Time) /\ early \in BOOLEAN

(* The most requests that a window of length Duration lets through.  The   *)
(* in-memory limiter is exact.  Requests at the same time may all pass the *)
(* check of a list before any of them is in it, and as many again may pass *)
(* while the list is longer than it should be, because the first have not  *)
(* cut it yet.  The bucket may be full when the window begins and is       *)
(* refilled once meanwhile.                                                *)
Bound ==
    CASE limiter = "memory" -> MaxNum
      [] limiter = "bucket" -> 2 * MaxNum - 1
      [] OTHER -> MaxNum + 2 * (Cardinality(Request) - 1)

(* No window, wherever it begins, lets more through, although the limiters *)
(* drop old entries, trim, expire and refill (Request, redisRateLimiter,   *)
(* recordRedisRequest, rate_limit.lua).                                    *)
WindowBounded == \A t \in Time : Cardinality(Within(t, t + Duration - 1)) <= Bound

(* And no request is refused while fewer than the limit have passed in the *)
(* window that ends now.                                                   *)
NoneEarly == ~early
=============================================================================
