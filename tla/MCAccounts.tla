------------------------------ MODULE MCAccounts ------------------------------
(* Three services that each keep an account of what was done, billing,       *)
(* invitations and the rate limiter, and the policy engine.  They share no   *)
(* state, so a behaviour runs one of them; which one is chosen at the start. *)
EXTENDS Integers, FiniteSets

CONSTANTS
    Usages, Quotas, Periods, Closings, MaxRecords, LastMonth,
    Ids, Accepts, Sweeps,
    Calls, LastTick, Minute, Hour, Day, PerMinute, PerHour, PerDay,
    Policies, Priorities, DefaultEffect, FailClosed,
    NoId

VARIABLES
    clock, usage, quota, period, closing, crossed,
    invitation, overdue, accept, todo, met,
    redis, now, call, list, sets, unseen, start,
    strategy, policy, older,
    account

\* The windows of the limiter, in ticks of the clock, and what they take.
Length == [minute |-> Minute, hour |-> Hour, day |-> Day]

Limit == [minute |-> PerMinute, hour |-> PerHour, day |-> PerDay]

Bills == INSTANCE Billing WITH None <- NoId

Invites == INSTANCE Invitations WITH row <- invitation, None <- NoId

Limiter == INSTANCE RateLimiter

Engine == INSTANCE PolicyEngine

ASSUME AccountsAssumption ==
    /\ NoId \notin Quotas \cup Periods \cup Ids
    /\ IsFiniteSet(Usages)
    /\ {MaxRecords, LastMonth} \subseteq Nat

ASSUME LimiterAssumption ==
    /\ IsFiniteSet(Calls)
    /\ {LastTick, Minute, Hour, Day, PerMinute, PerHour, PerDay} \subseteq Nat
    /\ Minute <= Hour /\ Minute <= Day

ASSUME EngineAssumption ==
    /\ IsFiniteSet(Policies)
    /\ Priorities \subseteq Int
    /\ DefaultEffect \in {"allow", "deny"}
    /\ FailClosed \in BOOLEAN

Accounts == {"counting", "billing", "invitations", "limiter", "policies"}

AccountsInit ==
    /\ Bills!Init /\ Invites!Init /\ Limiter!Init /\ Engine!Init
    /\ account \in Accounts
    /\ account # "limiter" => redis
    /\ account # "policies" => strategy = "first_match"

billingvars == <<clock, usage, quota, period, closing, crossed>>

invitationvars == <<invitation, overdue, accept, todo, met>>

limitervars == <<redis, now, call, list, sets, unseen, start>>

enginevars == <<strategy, policy, older>>

allvars == <<billingvars, invitationvars, limitervars, enginevars, account>>

\* Usage is counted apart from the periods, and billed apart from the quotas:
\* neither reads what the other writes, which is only the records they share.
CountUsage == UNCHANGED <<period, closing>> /\ Bills!Next

BillUsage == UNCHANGED <<quota, crossed>> /\ Bills!Next /\ \A u \in Usages : usage'[u].pc # "done"

AccountsNext ==
    /\ \/ account = "counting" /\ CountUsage
          /\ UNCHANGED <<invitationvars, limitervars, enginevars>>
       \/ account = "billing" /\ BillUsage
          /\ UNCHANGED <<invitationvars, limitervars, enginevars>>
       \/ account = "invitations" /\ Invites!Next
          /\ UNCHANGED <<billingvars, limitervars, enginevars>>
       \/ account = "limiter" /\ Limiter!Next
          /\ UNCHANGED <<billingvars, invitationvars, enginevars>>
       \/ account = "policies" /\ Engine!Next
          /\ UNCHANGED <<billingvars, invitationvars, limitervars>>
    /\ UNCHANGED account

AccountsSpec == AccountsInit /\ [][AccountsNext]_allvars

-----------------------------------------------------------------------------
\* The types of all of them.
AccountsTypeOK == Bills!TypeOK /\ Invites!TypeOK /\ Limiter!TypeOK /\ Engine!TypeOK

\* The properties of the services, under names a configuration can use; they
\* are stated in the modules Billing, Invitations, RateLimiter and PolicyEngine.
QuotaAgrees == Bills!QuotaAgrees

PeriodBills == Bills!PeriodBills

UsedOnce == Invites!UsedOnce

AcceptanceOnRecord == Invites!AcceptanceOnRecord

WindowsBounded == Limiter!WindowsBounded

PolicyMovesItsWay == Engine!PolicyMovesItsWay
=============================================================================
