------------------------------- MODULE Billing -------------------------------
(***************************************************************************)
(* BillingService (billing_service.py) for one organization and one        *)
(* resource: usage is recorded and counted against a quota, and billed by  *)
(* periods of a month.                                                     *)
(*                                                                         *)
(* A record of usage, the counter of the quota and the sum of a period are *)
(* three accounts of the same thing.  Each is written by an await of its   *)
(* own, which is applied or raises, and nothing is tried again.  A record  *)
(* is a unit of usage; limits and prices are left out.                     *)
(***************************************************************************)
EXTENDS Naturals, FiniteSets

CONSTANTS
    Usages,       \* the calls of record_usage, each with a record of its own
    Quotas,       \* the ids of quota rows
    Periods,      \* the ids of periods
    Closings,     \* the calls of close_period
    None,         \* no quota, no period
    MaxRecords,   \* the records that a sum takes in, 10,000
    LastMonth     \* bound: the clock stops in this month

VARIABLES
    clock,        \* the month, and whether its last second runs
    usage,        \* usage[u]: the call that records u
    quota,        \* quota[q]: a quota row
    period,       \* period[p]: a period, with the call that creates it
    closing,      \* closing[k]: a call of close_period
    crossed       \* crossed[q]: two calls were at the counter of q at once

vars == <<clock, usage, quota, period, closing, crossed>>

Clock == [month: Nat, edge: BOOLEAN]

\* The time on a record is taken before it is created; counted says that the
\* counter in row was written for it.
Usage == [pc: {"unborn", "creating", "finding", "adding", "done", "dead"},
          at: Clock, row: Quotas \cup {None}, seen: Nat, counted: BOOLEAN]

Quota == [made: BOOLEAN, used: Nat]

\* What a closing sums up.  open is the usage that was yet to come when it did,
\* and full says that the sum could not take in all there was.
Sum == [of: SUBSET Usages, open: SUBSET Usages, full: BOOLEAN]

NoSum == [of |-> {}, open |-> {}, full |-> FALSE]

\* bill.of is the usage in total_usage and total_cost.  beside are the periods
\* that were being opened at the same time; hasty says that it was closed before
\* its month was over.
Period == [status: {"none", "opening", "failed", "active", "closed"}, month: Nat, bill: Sum,
           beside: SUBSET Periods, hasty: BOOLEAN]

Closing == [pc: {"unborn", "summing", "writing", "done"}, of: Periods \cup {None}, sum: Sum]

TypeOK ==
    /\ clock \in Clock
    /\ usage \in [Usages -> Usage]
    /\ quota \in [Quotas -> Quota]
    /\ period \in [Periods -> Period]
    /\ closing \in [Closings -> Closing]
    /\ crossed \in [Quotas -> BOOLEAN]

Init ==
    /\ clock = [month |-> 0, edge |-> FALSE]
    /\ usage = [u \in Usages |-> [pc |-> "unborn", at |-> clock, row |-> None, seen |-> 0,
                                  counted |-> FALSE]]
    /\ quota = [q \in Quotas |-> [made |-> FALSE, used |-> 0]]
    /\ period = [p \in Periods |-> [status |-> "none", month |-> 0, bill |-> NoSum,
                                    beside |-> {}, hasty |-> FALSE]]
    /\ closing = [k \in Closings |-> [pc |-> "unborn", of |-> None, sum |-> NoSum]]
    /\ crossed = [q \in Quotas |-> FALSE]

\* The records that exist.
Recorded == {u \in Usages : usage[u].pc \in {"finding", "adding", "done"}}

\* What lies between the start and the end of a period: the last second of a
\* month comes after its end and before the start of the next.
Within(month) == {u \in Recorded : usage[u].at = [month |-> month, edge |-> FALSE]}

Overflows(month) == Cardinality(Within(month)) > MaxRecords

\* What get_usage_summary finds: its list ends after MaxRecords of them.
Listed(month) ==
    {s \in SUBSET Within(month) :
        IF Overflows(month) THEN Cardinality(s) = MaxRecords ELSE s = Within(month)}

\* The usage that may still be recorded in a month.
YetToCome(month) ==
    {u \in Usages : \/ usage[u].pc = "unborn" /\ clock.month <= month
                    \/ usage[u].pc = "creating" /\ usage[u].at.month = month}

MadePeriod(p) == period[p].status \in {"active", "closed"}

Tick ==
    /\ clock' = IF clock.edge THEN [month |-> clock.month + 1, edge |-> FALSE]
                              ELSE [clock EXCEPT !.edge = TRUE]
    /\ clock'.month <= LastMonth
    /\ UNCHANGED <<usage, quota, period, closing, crossed>>

-----------------------------------------------------------------------------
GoUsage(u, pc) == usage' = [usage EXCEPT ![u].pc = pc]

\* record_usage takes the time and creates the record ...
Record(u) ==
    /\ usage[u].pc = "unborn"
    /\ usage' = [usage EXCEPT ![u].pc = "creating", ![u].at = clock]
    /\ UNCHANGED <<clock, quota, period, closing, crossed>>

RecordMade(u) ==
    /\ usage[u].pc = "creating"
    /\ GoUsage(u, "finding")
    /\ UNCHANGED <<clock, quota, period, closing, crossed>>

RecordRaises(u) ==
    /\ usage[u].pc = "creating"
    /\ GoUsage(u, "dead")
    /\ UNCHANGED <<clock, quota, period, closing, crossed>>

\* ... then _update_quota_usage takes a quota, any one if there are several ...
QuotaFound(u, q) ==
    /\ usage[u].pc = "finding" /\ quota[q].made
    /\ usage' = [usage EXCEPT ![u].pc = "adding", ![u].row = q, ![u].seen = quota[q].used]
    /\ crossed' = [crossed EXCEPT ![q] =
           @ \/ \E v \in Usages : usage[v].pc = "adding" /\ usage[v].row = q]
    /\ UNCHANGED <<clock, quota, period, closing>>

\* Mutant: what was read is added to the counter as it is by then.
QuotaAddedTwice(u) ==
    /\ usage[u].pc = "adding"
    /\ quota' = [quota EXCEPT ![usage[u].row].used = @ + usage[u].seen + 1]
    /\ usage' = [usage EXCEPT ![u].pc = "done", ![u].counted = TRUE]
    /\ UNCHANGED <<clock, period, closing, crossed>>

\* ... and writes one more than it read; it may raise once that took effect.
QuotaAdded(u) ==
    /\ usage[u].pc = "adding"
    /\ quota' = [quota EXCEPT ![usage[u].row].used = usage[u].seen + 1]
    /\ usage' = [usage EXCEPT ![u].pc = "done", ![u].counted = TRUE]
    /\ UNCHANGED <<clock, period, closing, crossed>>

\* There is no quota; or reading or writing it raises and changes nothing, with
\* the record made.
NotCounted(u) ==
    /\ usage[u].pc \in {"finding", "adding"}
    /\ GoUsage(u, "done")
    /\ UNCHANGED <<clock, quota, period, closing, crossed>>

\* _create_quota, called by update_quota, which has found none before it awaits
\* the creation, and by initialize_quotas, which does not look.
QuotaMade(q) ==
    /\ ~quota[q].made
    /\ quota' = [quota EXCEPT ![q].made = TRUE]
    /\ UNCHANGED <<clock, usage, period, closing, crossed>>

-----------------------------------------------------------------------------
Opening == {p \in Periods : period[p].status = "opening"}

\* get_current_period finds no active period, and makes one of the month it is.
NoPeriod(p) ==
    /\ period[p].status = "none"
    /\ \A r \in Periods : period[r].status # "active"
    /\ period' = [r \in Periods |->
           IF r = p THEN [period[p] EXCEPT !.status = "opening", !.month = clock.month,
                                           !.beside = Opening]
           ELSE IF r \in Opening THEN [period[r] EXCEPT !.beside = @ \cup {p}]
           ELSE period[r]]
    /\ UNCHANGED <<clock, usage, quota, closing, crossed>>

PeriodMade(p) ==
    /\ period[p].status = "opening"
    /\ period' = [period EXCEPT ![p].status = "active"]
    /\ UNCHANGED <<clock, usage, quota, closing, crossed>>

\* The creation raises; the next call is another one.
PeriodRaises(p) ==
    /\ period[p].status = "opening"
    /\ period' = [period EXCEPT ![p].status = "failed"]
    /\ UNCHANGED <<clock, usage, quota, closing, crossed>>

\* close_period reads the period, whatever its status ...
CloseRead(k, p) ==
    /\ closing[k].pc = "unborn" /\ MadePeriod(p)
    /\ closing' = [closing EXCEPT ![k].pc = "summing", ![k].of = p]
    /\ UNCHANGED <<clock, usage, quota, period, crossed>>

\* Mutant: the sum has no lower bound.
SummedUpTo(k) ==
    /\ closing[k].pc = "summing"
    /\ closing' = [closing EXCEPT ![k].pc = "writing", ![k].sum =
           [of |-> {u \in Recorded : usage[u].at.month <= period[closing[k].of].month},
            open |-> YetToCome(period[closing[k].of].month), full |-> FALSE]]
    /\ UNCHANGED <<clock, usage, quota, period, crossed>>

\* ... sums its month up ...
Summed(k) ==
    LET month == period[closing[k].of].month IN
    /\ closing[k].pc = "summing"
    /\ \E found \in Listed(month) :
           closing' = [closing EXCEPT ![k].pc = "writing", ![k].sum =
               [of |-> found, open |-> YetToCome(month), full |-> Overflows(month)]]
    /\ UNCHANGED <<clock, usage, quota, period, crossed>>

\* ... and writes the sum with the status.
Closed(k) ==
    LET p == closing[k].of IN
    /\ closing[k].pc = "writing"
    /\ closing' = [closing EXCEPT ![k].pc = "done", ![k].sum = NoSum]
    /\ period' = [period EXCEPT ![p].status = "closed", ![p].bill = closing[k].sum,
                                ![p].hasty = @ \/ clock.month = period[p].month]
    /\ UNCHANGED <<clock, usage, quota, crossed>>

CloseRaises(k) ==
    /\ closing[k].pc \in {"summing", "writing"}
    /\ closing' = [closing EXCEPT ![k].pc = "done", ![k].sum = NoSum]
    /\ UNCHANGED <<clock, usage, quota, period, crossed>>

Next ==
    \/ Tick
    \/ \E u \in Usages :
           \/ Record(u) \/ RecordMade(u) \/ RecordRaises(u)
           \/ \E q \in Quotas : QuotaFound(u, q)
           \/ QuotaAdded(u) \/ NotCounted(u)
    \/ \E q \in Quotas : QuotaMade(q)
    \/ \E p \in Periods :
           \/ NoPeriod(p) \/ PeriodMade(p) \/ PeriodRaises(p)
           \/ \E k \in Closings : CloseRead(k, p)
    \/ \E k \in Closings : Summed(k) \/ Closed(k) \/ CloseRaises(k)

Spec == Init /\ [][Next]_vars

-----------------------------------------------------------------------------
Counted(q) == {u \in Usages : usage[u].counted /\ usage[u].row = q}

\* The counter of a quota never says more than was recorded for it, and says less
\* than was counted on it only if two calls were between the read and the write of
\* it at once.  It is the count since the quota was made: the model calls it the
\* "current usage within period", which is monthly or daily (models/usage_quota.py,
\* 41-45), and nothing ever resets it.
QuotaAgrees ==
    \A q \in Quotas :
        /\ quota[q].used <= Cardinality(Counted(q))
        /\ ~crossed[q] => quota[q].used = Cardinality(Counted(q))

\* All that was recorded in a month, by the time on the record.
InMonth(month) == {u \in Recorded : usage[u].at.month = month}

\* A sum is of a month, and all of it but for what it could not take in.
SumsUp(sum, month) ==
    /\ sum.of \subseteq InMonth(month)
    /\ \A u \in InMonth(month) \ sum.of : usage[u].at.edge \/ u \in sum.open \/ sum.full
    /\ sum.full => Cardinality(sum.of) = MaxRecords

\* A closed period bills usage of its month only, however many calls close it.
\* Usage of its month is missing from the bill for one of three reasons, and no
\* other: it fell in the last second of the month, which no period has; it was
\* recorded after the sum was taken that was written last, which once the month is
\* over takes a call that was under way then; or there was more than a sum takes
\* in, and then the bill has as much as that.  And no usage is billed twice,
\* unless two calls opened a period at once or a period was closed before its
\* month was over.
PeriodBills ==
    /\ \A p \in Periods : period[p].status = "closed" => SumsUp(period[p].bill, period[p].month)
    /\ \A p, q \in Periods : p # q /\ period[p].bill.of \cap period[q].bill.of # {} =>
           q \in period[p].beside \/ period[p].hasty \/ period[q].hasty
=============================================================================
