--------------------------- MODULE SchedulerTrigger ---------------------------
(***************************************************************************)
(* How schedules become RunRequests: TriggerService of                     *)
(* application/scheduler.py, SchedulerWatchService of                      *)
(* runtime/scheduler_watch.py, the cycle and the two authority leases of   *)
(* SchedulerCoordinator (runtime/scheduler_integration.py), on the tables  *)
(* of persistence/scheduler.py.                                            *)
(*                                                                         *)
(* A Core reads the clock once at the start of a cycle and works with that *)
(* reading, however late its transactions are; only the observation of a   *)
(* watch reads it again.  So this module has an absolute clock, and every  *)
(* transaction of a cycle is a step of its own.  What becomes of a request *)
(* is SchedulerQueue; here it is the key it was inserted with.             *)
(*                                                                         *)
(* holder is the Core whose memory has the token of the row.  A fingerprint*)
(* is the number of the change of the file it was taken after.             *)
(***************************************************************************)
EXTENDS Naturals, FiniteSets

CONSTANTS
    Core,          \* Core processes sharing the database
    Nobody,        \* no Core
    Schedule,      \* schedule ids
    Definitions,   \* the definitions that users put
    Minute,        \* ticks of a minute
    TTL,           \* lease_ttl_seconds of the coordinator, in ticks
    Interval,      \* longest time between two cycles of a Scheduler that is up
    MaxTime,       \* bound: the clock stops here
    MaxVersion,    \* bound: versions of a schedule
    MaxChange,     \* bound: changes of a watched file
    Moves          \* bound: the statuses users give to schedules

\* cron: at holds the instants the expression matches; timer: timer_at alone
Definition == [kind : {"cron", "timer", "watch"}, at : SUBSET Nat,
               misfire : {"skip", "fire_once", "catch_up"}, catchUp : Nat \ {0}]

ASSUME TriggerConstants ==
    /\ Nobody \notin Core
    /\ Definitions \subseteq Definition
    /\ Minute \in Nat \ {0} /\ TTL \in Nat \ {0} /\ Interval \in Nat \ {0}
    /\ MaxTime \in Nat /\ MaxVersion \in Nat /\ MaxChange \in Nat
    /\ Moves \subseteq {"enabled", "paused", "cancelled"}

\* An instant of a Cron expression is a whole minute; a Timer has one instant; a
\* Scheduler that is up begins a cycle at least once a minute (interval_seconds).
ASSUME TriggerDefinitions ==
    /\ \A d \in Definitions :
         /\ d.kind = "cron" => \A o \in d.at : o % Minute = 0
         /\ d.kind = "timer" => \A o, p \in d.at : o = p
    /\ Interval <= Minute

VARIABLES
    now,       \* the clock
    head,      \* head[s]: the schedule_heads row; version 0: no row
    def,       \* def[s]: the schedule_definitions row of the current version
    base,      \* base[s]: the scheduler_watch_baselines row of that version
    rows,      \* the idempotency keys in run_requests
    lease,     \* lease[k]: the scheduler_authority_leases row of kind k
    file,      \* file[s]: changes of the watched file or Git HEAD so far
    pc,        \* pc[c]: where c is in run_cycle_async
    mem,       \* mem[c]: its local variables
    since,     \* since[s]: the cursor when the current version was put (history)
    missed     \* missed[s]: occurrences since then passed after a gap (history)

tableVars == <<head, def, base, rows>>
procVars == <<pc, mem>>
historyVars == <<since, missed>>
vars == <<now, head, def, base, rows, lease, file, pc, mem, since, missed>>

Kind == {"leader", "writer"}
Version == 0..MaxVersion
HeadRow == [version : Version, status : {"enabled", "paused", "cancelled"}, cursor : Nat]
\* print 0: the empty fingerprint of a first probe that failed
BaseRow == [row : BOOLEAN, print : Nat, generation : Nat]
NoBase == [row |-> FALSE, print |-> 0, generation |-> 0]
\* The key of an occurrence, or of a change of a watched file: its generation
Key == [s : Schedule, version : Version, of : {"occurrence", "change"}, at : Nat]
LeaseRow == [holder : Core \cup {Nobody}, expires : Nat]
NoRow == [holder |-> Nobody, expires |-> 0]
NoDefinition == [kind |-> "watch", at |-> {}, misfire |-> "skip", catchUp |-> 1]
\* clock: the clock reading of the cycle; has: _leader_lease and _writer_lease
\* are kept; again: the leases are renewed before dispatching; todo: schedules
\* of the loop; version, cursor, print: what was read for s, the one in hand
Memory == [clock : Nat, has : BOOLEAN, again : BOOLEAN, todo : SUBSET Schedule,
           s : Schedule \cup {Nobody}, version : Version, cursor : Nat, print : Nat]
Blank == [clock |-> 0, has |-> FALSE, again |-> FALSE, todo |-> {},
          s |-> Nobody, version |-> 0, cursor |-> 0, print |-> 0]
\* idle: between two cycles, or the process is down
Label == {"idle", "leader", "writer", "unlead", "schedules", "enqueue", "watches",
           "observe", "release_first", "release_second"}

TypeOK ==
    /\ now \in Nat
    /\ head \in [Schedule -> HeadRow]
    /\ def \in [Schedule -> Definition]
    /\ base \in [Schedule -> BaseRow]
    /\ rows \subseteq Key
    /\ lease \in [Kind -> LeaseRow]
    /\ file \in [Schedule -> Nat]
    /\ pc \in [Core -> Label]
    /\ mem \in [Core -> Memory]
    /\ since \in [Schedule -> Nat]
    /\ missed \in [Schedule -> SUBSET Nat]

Init ==
    /\ now = 1     \* within a minute
    /\ head = [s \in Schedule |-> [version |-> 0, status |-> "cancelled", cursor |-> 0]]
    /\ def = [s \in Schedule |-> NoDefinition]
    /\ base = [s \in Schedule |-> NoBase]
    /\ rows = {}
    /\ lease = [k \in Kind |-> NoRow]
    /\ file = [s \in Schedule |-> 1]
    /\ pc = [c \in Core |-> "idle"]
    /\ mem = [c \in Core |-> Blank]
    /\ since = [s \in Schedule |-> 0]
    /\ missed = [s \in Schedule |-> {}]

\* list_enabled_schedule_ids
Enabled == {s \in Schedule : head[s].version > 0 /\ head[s].status = "enabled"}

Goto(c, label) == pc' = [pc EXCEPT ![c] = label]

\* The loop over the schedules goes on after s.
Without(m, s) == [m EXCEPT !.todo = m.todo \ {s}]

\* What is left of the local variables between two schedules.
Dropped(m) == [m EXCEPT !.s = Nobody, !.version = 0, !.cursor = 0, !.print = 0]
-----------------------------------------------------------------------------
(***************************************************************************)
(* The authority leases.                                                   *)
(***************************************************************************)
\* The row that acquire_authority and renew_authority write.
Grant(c) == [holder |-> c, expires |-> mem[c].clock + TTL]

\* acquire_authority: no row, or one that has expired by the cycle's clock
Free(c, k) == lease[k].holder = Nobody \/ lease[k].expires <= mem[c].clock

\* renew_authority and _assert_authority, for the time that is given to them
Holds(c, k, time) == lease[k].holder = c /\ lease[k].expires > time

\* The clock is read at the start of a cycle.
BeginCycle(c) ==
    /\ pc[c] = "idle"
    /\ mem' = [mem EXCEPT ![c] = [@ EXCEPT !.clock = now, !.again = FALSE]]
    /\ Goto(c, "leader")
    /\ UNCHANGED <<now, tableVars, lease, file, historyVars>>

\* _ensure_leases, scheduler_leader: acquired or renewed; an exception goes to
\* the handler of run, which releases what the coordinator keeps
EnsureLeader(c) ==
    /\ pc[c] = "leader"
    /\ IF IF mem[c].has THEN Holds(c, "leader", mem[c].clock) ELSE Free(c, "leader")
       THEN lease' = [lease EXCEPT !["leader"] = Grant(c)] /\ Goto(c, "writer")
       ELSE UNCHANGED lease /\ Goto(c, "release_first")
    /\ UNCHANGED <<now, tableVars, file, mem, historyVars>>

\* _ensure_leases, runtime_writer: when it cannot be acquired the new leader
\* lease is given back.  The cycle goes on with the list of schedules, each
\* of which is read again when its turn comes.
EnsureWriter(c) ==
    /\ pc[c] = "writer"
    /\ IF IF mem[c].has THEN Holds(c, "writer", mem[c].clock) ELSE Free(c, "writer")
       THEN /\ lease' = [lease EXCEPT !["writer"] = Grant(c)]
            /\ mem' = [mem EXCEPT ![c] = IF mem[c].again THEN [Blank EXCEPT !.has = TRUE]
                                         ELSE [@ EXCEPT !.has = TRUE, !.todo = Enabled]]
            /\ Goto(c, IF mem[c].again THEN "idle" ELSE "schedules")
       ELSE /\ UNCHANGED <<lease, mem>>
            /\ Goto(c, IF mem[c].has THEN "release_first" ELSE "unlead")
    /\ UNCHANGED <<now, tableVars, file, historyVars>>

\* _release_lease deletes the row if its token is still the one kept.
Released(c, k) == IF lease[k].holder = c THEN [lease EXCEPT ![k] = NoRow] ELSE lease

Unlead(c) ==
    /\ pc[c] = "unlead"
    /\ lease' = Released(c, "leader")
    /\ mem' = [mem EXCEPT ![c] = Blank]
    /\ Goto(c, "idle")
    /\ UNCHANGED <<now, tableVars, file, historyVars>>

\* Mutant of FirstReleased: the leader lease is released first.
FirstReleasedLeader == "leader"

\* release_leases releases the writer lease before the leader lease.
FirstReleased == "writer"
SecondReleased == CHOOSE k \in Kind : k # FirstReleased

ReleaseFirst(c) ==
    /\ pc[c] = "release_first"
    /\ lease' = IF mem[c].has THEN Released(c, FirstReleased) ELSE lease
    /\ Goto(c, "release_second")
    /\ UNCHANGED <<now, tableVars, file, mem, historyVars>>

ReleaseSecond(c) ==
    /\ pc[c] = "release_second"
    /\ lease' = IF ~mem[c].has THEN lease
                ELSE Released(c, SecondReleased)
    /\ mem' = [mem EXCEPT ![c] = Blank]
    /\ Goto(c, "idle")
    /\ UNCHANGED <<now, tableVars, file, historyVars>>

\* SchedulerCoordinator.stop, seen by run between two cycles
Stop(c) ==
    /\ pc[c] = "idle"
    /\ Goto(c, "release_first")
    /\ UNCHANGED <<now, tableVars, lease, file, mem, historyVars>>
-----------------------------------------------------------------------------
(***************************************************************************)
(* Cron and Timer schedules: materialize_all_due.                          *)
(***************************************************************************)
\* get_schedule and get_schedule_cursor; a schedule that is not enabled any
\* more or is a hook is passed by.  What changes between the two reads is
\* refused by enqueue_occurrences like what changes after them.
ReadSchedule(c) ==
    /\ pc[c] = "schedules"
    /\ \E s \in mem[c].todo :
         IF s \in Enabled /\ def[s].kind # "watch"
         THEN /\ mem' = [mem EXCEPT ![c] = [Without(@, s) EXCEPT
                            !.s = s, !.version = head[s].version, !.cursor = head[s].cursor]]
              /\ Goto(c, "enqueue")
         ELSE mem' = [mem EXCEPT ![c] = Without(@, s)] /\ UNCHANGED pc
    /\ UNCHANGED <<now, tableVars, lease, file, historyVars>>

\* The n latest members of S.
Latest(n, S) == {o \in S : Cardinality({k \in S : k > o}) < n}

Between(d, from, to) == {o \in d.at : from < o /\ o <= to}

\* _due_occurrences: of a Cron schedule the latest max_catch_up + 1
Due(d, from, to) ==
    IF d.kind = "timer" THEN Between(d, from, to)
    ELSE Latest(d.catchUp + 1, Between(d, from, to))

\* Mutant of OnTime: a Cron occurrence must be due at the very instant as well.
OnTimeExactly(d, due, time) == {o \in due : o >= time}

\* What skip keeps: a Timer that is not past, a Cron occurrence of this minute
OnTime(d, due, time) ==
    IF d.kind = "timer" THEN {o \in due : o >= time}
    ELSE {o \in due : o = time - (time % Minute)}

\* Mutant of Selected: a missed window is caught up from its oldest end.
SelectedOldest(d, due, time) ==
    CASE d.misfire = "skip" -> OnTime(d, due, time)
      [] OTHER -> {o \in due : Cardinality({k \in due : k < o}) < d.catchUp}

\* _apply_misfire
Selected(d, due, time) ==
    CASE d.misfire = "fire_once" -> Latest(1, due)
      [] d.misfire = "catch_up" -> Latest(d.catchUp, due)
      [] OTHER -> OnTime(d, due, time)

\* The head still has the version that was read, and is enabled.
Current(c) ==
    head[mem[c].s].version = mem[c].version /\ head[mem[c].s].status = "enabled"

\* enqueue_occurrences: requests and cursor in one transaction; the authority
\* is checked at the time the cycle began.  A conflict ends the cycle.
EnqueueOccurrences(c) ==
    LET m == mem[c]
        d == def[m.s]
        due == Due(d, m.cursor, m.clock)
    IN  /\ pc[c] = "enqueue"
        /\ IF Holds(c, "leader", m.clock) /\ Current(c)
           THEN /\ rows' = rows \cup {[s |-> m.s, version |-> m.version, of |-> "occurrence",
                                       at |-> o] : o \in Selected(d, due, m.clock)}
                /\ head' = [head EXCEPT ![m.s].cursor = m.clock]
                /\ missed' = IF m.clock > m.cursor + Interval
                             THEN [missed EXCEPT ![m.s] =
                                     @ \cup Between(d, m.cursor, m.clock)]
                             ELSE missed
                /\ Goto(c, "schedules")
           ELSE UNCHANGED <<rows, head, missed>> /\ Goto(c, "release_first")
        /\ mem' = [mem EXCEPT ![c] = Dropped(m)]
        /\ UNCHANGED <<now, def, base, lease, file, since>>
-----------------------------------------------------------------------------
(***************************************************************************)
(* File and Git watches: SchedulerWatchService.materialize_all.            *)
(***************************************************************************)
ListWatches(c) ==
    /\ pc[c] = "schedules" /\ mem[c].todo = {}
    /\ mem' = [mem EXCEPT ![c].todo = {s \in Enabled : def[s].kind = "watch"}]
    /\ Goto(c, "watches")
    /\ UNCHANGED <<now, tableVars, lease, file, historyVars>>

\* get_schedule and probe.  A new version between the two is refused by
\* observe_watch like one after them.  print 0: the probe failed.
Probe(c) ==
    /\ pc[c] = "watches"
    /\ \E s \in mem[c].todo, print \in {0, 1} :
         mem' = [mem EXCEPT ![c] = [Without(@, s) EXCEPT
                    !.s = s, !.version = head[s].version, !.print = print * file[s]]]
    /\ Goto(c, "observe")
    /\ UNCHANGED <<now, tableVars, lease, file, historyVars>>

\* Mutant of Observing: the lease that was checked before the probe will do.
ObservingUnfenced(c) == Current(c)

\* observe_watch may write: authority at the present time, version and status
Observing(c) == Holds(c, "leader", now) /\ Current(c)

\* observe_watch: the baseline, and a request when it has changed.  A conflict
\* is passed over.
Observe(c) ==
    LET m == mem[c]
        b == base[m.s]
        changed == b.row /\ b.print # 0 /\ m.print # 0 /\ b.print # m.print
        next == IF changed THEN b.generation + 1 ELSE b.generation
    IN  /\ pc[c] = "observe"
        /\ IF Observing(c)
           THEN /\ base' = [base EXCEPT ![m.s] =
                              [row |-> TRUE, generation |-> next,
                               print |-> IF m.print = 0 THEN b.print ELSE m.print]]
                /\ rows' = IF ~changed THEN rows
                           ELSE rows \cup {[s |-> m.s, version |-> m.version, of |-> "change",
                                            at |-> next]}
           ELSE UNCHANGED <<base, rows>>
        /\ mem' = [mem EXCEPT ![c] = Dropped(m)]
        /\ Goto(c, "watches")
        /\ UNCHANGED <<now, head, def, lease, file, historyVars>>

\* The leases are renewed with a new reading of the clock, then jobs are
\* dispatched (SchedulerQueue); or stop_event was set meanwhile
EndWatches(c) ==
    /\ pc[c] = "watches"
    /\ \/ /\ mem[c].todo = {}
          /\ mem' = [mem EXCEPT ![c] = [@ EXCEPT !.clock = now, !.again = TRUE]]
          /\ Goto(c, "leader")
       \/ UNCHANGED mem /\ Goto(c, "release_first")
    /\ UNCHANGED <<now, tableVars, lease, file, historyVars>>
-----------------------------------------------------------------------------
(***************************************************************************)
(* Users, files, failures and time.                                        *)
(***************************************************************************)
\* Mutant of NextVersion: the version the user gives is not compared.
NextVersionAny(s) == MaxVersion + 1

\* schedule version must advance by one
NextVersion(s) == head[s].version + 1

\* put_schedule: version 1 starts at created_at, the present; a later version
\* keeps the cursor, whatever the status was
PutSchedule(s, d) ==
    LET cursor == IF head[s].version = 0 THEN now ELSE head[s].cursor
    IN  /\ head[s].version < MaxVersion
        /\ head' = [head EXCEPT ![s] = [version |-> NextVersion(s), status |-> "enabled",
                                        cursor |-> cursor]]
        /\ def' = [def EXCEPT ![s] = d]
        /\ base' = [base EXCEPT ![s] = NoBase]
        /\ since' = [since EXCEPT ![s] = cursor]
        /\ missed' = [missed EXCEPT ![s] = {}]
        /\ UNCHANGED <<now, rows, lease, file, procVars>>

\* update_schedule_status with the current version
UpdateScheduleStatus(s, status) ==
    /\ head[s].version > 0
    /\ head[s].status # "cancelled" /\ head[s].status # status
    /\ head' = [head EXCEPT ![s].status = status]
    /\ UNCHANGED <<now, def, base, rows, lease, file, procVars, historyVars>>

ChangeFile(s) ==
    /\ def[s].kind = "watch" /\ head[s].version > 0
    /\ file[s] < MaxChange
    /\ file' = [file EXCEPT ![s] = @ + 1]
    /\ UNCHANGED <<now, tableVars, lease, procVars, historyVars>>

\* The process dies; the one that takes its place knows no token.
Crash(c) ==
    /\ pc[c] # "idle" \/ mem[c].has
    /\ Goto(c, "idle")
    /\ mem' = [mem EXCEPT ![c] = Blank]
    /\ UNCHANGED <<now, tableVars, lease, file, historyVars>>

Tick ==
    /\ now < MaxTime
    /\ now' = now + 1
    /\ UNCHANGED <<tableVars, lease, file, procVars, historyVars>>

Cycle(c) ==
    \/ BeginCycle(c) \/ EnsureLeader(c) \/ EnsureWriter(c) \/ Unlead(c) \/ ReleaseFirst(c)
    \/ ReleaseSecond(c) \/ Stop(c) \/ ReadSchedule(c)
    \/ EnqueueOccurrences(c) \/ ListWatches(c) \/ Probe(c) \/ Observe(c) \/ EndWatches(c)

Environment ==
    \/ \E s \in Schedule, d \in Definitions : PutSchedule(s, d)
    \/ \E s \in Schedule, status \in Moves : UpdateScheduleStatus(s, status)
    \/ \E s \in Schedule : ChangeFile(s)
    \/ \E c \in Core : Crash(c)

Next == (\E c \in Core : Cycle(c)) \/ Environment \/ Tick

Spec == Init /\ [][Next]_vars
-----------------------------------------------------------------------------
(***************************************************************************)
(* Properties.                                                             *)
(***************************************************************************)
\* The Core whose runtime_writer lease is alive is also the scheduler_leader,
\* and for at least as long: the two leases are taken one after the other,
\* with a reading of the clock that may be old, and are never split between
\* two Cores (_ensure_leases, release_leases).
WriterLeads ==
    lease["writer"].expires > now =>
        /\ lease["leader"].holder = lease["writer"].holder
        /\ lease["leader"].expires >= lease["writer"].expires

\* There is a request of the current version for the occurrence o.
Requested(s, o) ==
    [s |-> s, version |-> head[s].version, of |-> "occurrence", at |-> o] \in rows

\* The occurrences of the current version that the cursor has passed.
Passed(s) == {o \in def[s].at : since[s] < o /\ o <= head[s].cursor}

\* Under fire_once and catch_up an occurrence that the cursor has passed is
\* left out only in favour of later ones, and these were requested for the
\* current version, whoever was leader and whatever users did between the
\* reading of the schedule and the transaction (enqueue_occurrences).
PassedOver ==
    \A s \in Schedule : \A o \in Passed(s) :
        \/ def[s].kind = "watch" \/ def[s].misfire = "skip"
        \/ Requested(s, o)
        \/ LET n == IF def[s].misfire = "fire_once" THEN 1 ELSE def[s].catchUp
           IN  Cardinality({k \in def[s].at : k > o /\ Requested(s, k)}) >= n

\* The misfire policy is for the time the Scheduler was down: an occurrence
\* that was passed by two materializations no further apart than two cycles is
\* requested under every policy, also when another Core took over or a cycle
\* was late (_apply_misfire).  A Timer under skip is the exception: it is kept
\* only if the cycle begins at the very instant of timer_at.
OnTimeFires ==
    \A s \in Schedule : \A o \in Passed(s) \ missed[s] :
        \/ def[s].kind = "watch" \/ (def[s].kind = "timer" /\ def[s].misfire = "skip")
        \/ Requested(s, o)

\* The baseline of a watch never goes back to an older fingerprint, and when it
\* moves a new request is inserted with it: no change is requested a second
\* time by a Core that was slow to probe and lost the lease meanwhile, none is
\* swallowed by the key of an earlier one (observe_watch).
WatchForward ==
    [][\A s \in Schedule :
        /\ head'[s].version = head[s].version
        /\ base[s].print # 0 /\ base'[s].print # base[s].print
        => /\ base'[s].print > base[s].print
           /\ \E r \in rows' \ rows : r.s = s /\ r.of = "change"]_vars
=============================================================================
