----------------------------- MODULE RateLimiter -----------------------------
(***************************************************************************)
(* ExternalAgentRateLimiter (rate_limiter.py) as invoke uses it, for one   *)
(* key, once GovernanceService.initialize has made it: a call is checked,  *)
(* goes out to the agent, and is recorded once it was answered.            *)
(*                                                                         *)
(* The times of the calls are kept in Redis, in a sorted set for each      *)
(* window, or, when Redis did not answer as the process started, in one    *)
(* list in memory.  Check and record in memory do not suspend.  With Redis *)
(* each takes the time, awaits a pipeline that Redis runs as one, and on   *)
(* an exception goes on as if all were well.  Two calls are never recorded *)
(* at quite the same time, though they may be in the same tick here.       *)
(***************************************************************************)
EXTENDS Integers, FiniteSets

CONSTANTS
    Calls,        \* the invocations
    Length,       \* Length[w]: how long a window is
    Limit,        \* Limit[w]: how many calls it takes
    LastTick      \* bound: the clock stops here

Windows == {"minute", "hour", "day"}

VARIABLES
    redis,        \* whether this process keeps the times in Redis
    now,          \* the time
    call,         \* call[c]: a call and the time it is checked or recorded with
    list,         \* the calls whose times are in memory
    sets,         \* sets[w]: the calls whose times are in the set of w in Redis
    unseen,       \* calls that went by the limiter: not checked, not recorded, forgotten
    start         \* start[c]: the calls that had begun before c did, and those of
                  \* them that were under way, with c

vars == <<redis, now, call, list, sets, unseen, start>>

UnderWay == {"asking", "allowed", "recording"}

Call == [pc: {"unborn", "refused", "done", "failed"} \cup UnderWay, at: Nat]

TypeOK ==
    /\ redis \in BOOLEAN
    /\ now \in Nat
    /\ call \in [Calls -> Call]
    /\ list \in SUBSET Calls
    /\ sets \in [Windows -> SUBSET Calls]
    /\ unseen \in SUBSET Calls
    /\ start \in [Calls -> [before: SUBSET Calls, beside: SUBSET Calls]]

Init ==
    /\ redis \in BOOLEAN
    /\ now = 0
    /\ call = [c \in Calls |-> [pc |-> "unborn", at |-> 0]]
    /\ list = {}
    /\ sets = [w \in Windows |-> {}]
    /\ unseen = {}
    /\ start = [c \in Calls |-> [before |-> {}, beside |-> {}]]

InFlight == {c \in Calls : call[c].pc \in UnderWay}

Tick ==
    /\ now < LastTick
    /\ now' = now + 1
    /\ UNCHANGED <<redis, call, list, sets, unseen, start>>

Go(c, pc, at) == call' = [call EXCEPT ![c] = [pc |-> pc, at |-> at]]

\* A call begins; its first step leads to pc.
Begin(c, pc, at) ==
    /\ call[c].pc = "unborn"
    /\ Go(c, pc, at)
    /\ start' = [start EXCEPT ![c] = [before |-> {d \in Calls : call[d].pc # "unborn"},
                                      beside |-> InFlight \cup {c}]]

-----------------------------------------------------------------------------
\* _clean_and_count: of these, what is later than the start of a window.
Clean(S, w) == {c \in S : call[c].at > now - Length[w]}

\* _check_memory_rate_limit.  The three counts clean one list, one after the
\* other, so that the hour and the day count what the minute has left.
CheckMemory(c) ==
    LET minute == Clean(list, "minute")
        hour == Clean(minute, "hour")
        day == Clean(hour, "day")
        allowed == /\ Cardinality(minute) < Limit["minute"]
                   /\ Cardinality(hour) < Limit["hour"]
                   /\ Cardinality(day) < Limit["day"]
    IN
    /\ ~redis
    /\ Begin(c, IF allowed THEN "allowed" ELSE "refused", 0)
    /\ list' = day
    /\ UNCHANGED <<redis, now, sets, unseen>>

\* _check_redis_rate_limit takes the time ...
Ask(c) ==
    /\ redis
    /\ Begin(c, "asking", now)
    /\ UNCHANGED <<redis, now, list, sets, unseen>>

\* ... has each window counted, up to that time ...
Count(c, w) ==
    Cardinality({d \in sets[w] : call[d].at \in (call[c].at - Length[w])..call[c].at})

\* Mutant: each window is counted from the set of the minute.
CheckRedisOneSet(c) ==
    /\ call[c].pc = "asking"
    /\ LET allowed == \A w \in Windows : Count(c, "minute") < Limit[w]
       IN  Go(c, IF allowed THEN "allowed" ELSE "refused", 0)
    /\ UNCHANGED <<redis, now, list, sets, unseen, start>>

CheckRedis(c) ==
    /\ call[c].pc = "asking"
    /\ LET allowed == \A w \in Windows : Count(c, w) < Limit[w]
       IN  Go(c, IF allowed THEN "allowed" ELSE "refused", 0)
    /\ UNCHANGED <<redis, now, list, sets, unseen, start>>

\* ... and lets the call through when Redis does not answer.
CheckSilent(c) ==
    /\ call[c].pc = "asking"
    /\ Go(c, "allowed", 0)
    /\ unseen' = unseen \cup {c}
    /\ UNCHANGED <<redis, now, list, sets, start>>

-----------------------------------------------------------------------------
\* The agent does not answer, or what follows the answer raises: the call is
\* not recorded.
Fail(c) ==
    /\ call[c].pc = "allowed"
    /\ Go(c, "failed", 0)
    /\ UNCHANGED <<redis, now, list, sets, unseen, start>>

\* _record_memory_invocation.
RecordMemory(c) ==
    /\ ~redis /\ call[c].pc = "allowed"
    /\ Go(c, "done", now)
    /\ list' = list \cup {c}
    /\ UNCHANGED <<redis, now, sets, unseen, start>>

\* _record_redis_invocation takes the time ...
Answered(c) ==
    /\ redis /\ call[c].pc = "allowed"
    /\ Go(c, "recording", now)
    /\ UNCHANGED <<redis, now, list, sets, unseen, start>>

\* ... and adds it to each set, and takes out what is before the window of c ...
RecordRedis(c) ==
    /\ call[c].pc = "recording"
    /\ sets' = [w \in Windows |->
           {d \in sets[w] \cup {c} : call[d].at > call[c].at - Length[w]}]
    /\ Go(c, "done", call[c].at)
    /\ UNCHANGED <<redis, now, list, unseen, start>>

\* ... unless Redis does not answer.
RecordSilent(c) ==
    /\ call[c].pc = "recording"
    /\ unseen' = unseen \cup {c}
    /\ Go(c, "done", call[c].at)
    /\ UNCHANGED <<redis, now, list, sets, start>>

\* The process ends, with the calls under way and what it had in memory, and
\* starts again, with Redis or without.
Restart ==
    /\ redis' \in BOOLEAN
    /\ call' = [c \in Calls |->
           IF c \in InFlight THEN [pc |-> "failed", at |-> 0] ELSE call[c]]
    /\ list' = {}
    /\ unseen' = IF redis /\ redis' THEN unseen ELSE {c \in Calls : call[c].pc = "done"}
    /\ UNCHANGED <<now, sets, start>>

Next ==
    \/ Tick
    \/ \E c \in Calls :
           \/ CheckMemory(c) \/ Ask(c) \/ CheckRedis(c) \/ CheckSilent(c)
           \/ Fail(c) \/ RecordMemory(c)
           \/ Answered(c) \/ RecordRedis(c) \/ RecordSilent(c)
    \/ Restart

Spec == Init /\ [][Next]_vars

-----------------------------------------------------------------------------
\* The calls of the last W that were answered and recorded.
Recent(w) == {c \in Calls \ unseen : call[c].pc = "done" /\ call[c].at > now - Length[w]}

\* The calls that a window takes exceed its limit by no more than the calls that
\* were under way when the last of them began, apart from those that went by the
\* limiter.  With Redis that holds of every window.  In memory it holds of the
\* minute only, for the least of the three limits: the limits of the hour and the
\* day, which the docstrings promise (rate_limiter.py:23 and 116), are not kept
\* there, and nothing is claimed of them.
WindowsBounded ==
    \A w \in Windows :
        LET recent == Recent(IF redis THEN w ELSE "minute") IN
        \A c \in recent : recent \ {c} \subseteq start[c].before =>
            Cardinality(recent) < Limit[w] + Cardinality(start[c].beside)

-----------------------------------------------------------------------------
\* The strengthening of WindowsBounded.  Times are past, and what the limiter
\* has to know of it knows; whoever had begun before a call that has asked, and
\* is not among those that were under way, had come to his end by then.
CallsHold ==
    \A c \in Calls :
        /\ call[c].pc \in {"asking", "recording", "done"} => call[c].at <= now
        /\ call[c].pc \in {"asking", "recording"} => redis
        /\ call[c].pc = "done" /\ c \notin unseen =>
               IF redis THEN \A w \in Windows : c \in sets[w] \/ call[c].at <= now - Length[w]
                        ELSE c \in list \/ call[c].at <= now - Length["minute"]
        /\ \A d \in start[c].before : call[d].pc # "unborn"
        /\ call[c].pc = "asking" => c \in start[c].beside
        /\ call[c].pc = "asking" => \A d \in start[c].before \ start[c].beside :
               \/ call[d].pc \in {"refused", "failed"}
               \/ call[d].pc = "done" /\ call[d].at <= call[c].at

\* The calls up to c that count in a window, or may come to.
Ahead(c, w) == (start[c].before \cup {c}) \cap (Recent(w) \cup InFlight)

\* A call that the limiter let through found the window not full, but for those
\* that were under way.
PassedBounded ==
    \A c \in Calls \ unseen, w \in Windows :
        call[c].pc \in {"allowed", "recording", "done"} =>
            Cardinality(Ahead(c, IF redis THEN w ELSE "minute"))
                < Limit[w] + Cardinality(start[c].beside)
=============================================================================
