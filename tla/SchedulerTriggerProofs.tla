------------------------ MODULE SchedulerTriggerProofs ------------------------
(***************************************************************************)
(* Theorems about SchedulerTrigger, for any number of Core processes and   *)
(* schedules, any definitions and any time limits.                         *)
(***************************************************************************)
EXTENDS SchedulerTrigger, FiniteSetTheorems, TLAPS

-----------------------------------------------------------------------------
(***************************************************************************)
(* The inductive invariant.                                                *)
(***************************************************************************)
\* Between the reading of a schedule and its transaction there is a schedule.
InHand(c) == pc[c] \in {"enqueue", "observe"} => mem[c].s \in Schedule

Types == TypeOK /\ \A c \in Core : InHand(c)

\* What a Core in _ensure_leases or release_leases may rely on: its leases end
\* within a TTL of its clock; the leader lease it has just taken is still the
\* row, unless it has run out; a Core that has just become leader has no writer
\* lease of an earlier life; the writer lease goes first.
Local(c) ==
    /\ mem[c].clock <= now
    /\ pc[c] \in {"leader", "writer"} =>
          \A k \in Kind : lease[k].holder = c => lease[k].expires <= mem[c].clock + TTL
    /\ pc[c] = "writer" => lease["leader"] = Grant(c) \/ mem[c].clock + TTL <= now
    /\ (pc[c] \in {"writer", "unlead"} /\ ~mem[c].has /\ lease["writer"].holder = c) =>
          lease["writer"].expires <= now
    /\ pc[c] = "unlead" => ~mem[c].has
    /\ (pc[c] = "release_second" /\ mem[c].has) => lease["writer"].holder # c

RowsEnd ==
    \A k \in Kind :
        /\ lease[k].expires <= now + TTL
        /\ lease[k].holder = Nobody => lease[k].expires = 0

IInv == Types /\ (\A c \in Core : Local(c)) /\ RowsEnd /\ WriterLeads

\* Nothing of another Core changes.
Others(c) ==
    \A d \in Core \ {c} : pc'[d] = pc[d] /\ mem'[d] = mem[d]

-----------------------------------------------------------------------------
(***************************************************************************)
(* Lemmas about the helpers.                                               *)
(***************************************************************************)
\* The rows and memories have the columns that the steps compare.
LEMMA Columns ==
    ASSUME TypeOK
    PROVE  /\ now \in Nat /\ TTL \in Nat /\ TTL > 0
           /\ \A k \in Kind : /\ lease[k].expires \in Nat
                              /\ lease[k].holder \in Core \cup {Nobody}
           /\ \A c \in Core : mem[c].clock \in Nat /\ mem[c].has \in BOOLEAN
           /\ "leader" \in Kind /\ "writer" \in Kind
  BY TriggerConstants DEF TypeOK, LeaseRow, Memory, Kind

\* A lease that is granted is a row.
LEMMA GrantType ==
    ASSUME TypeOK, NEW c \in Core
    PROVE  /\ Grant(c) \in LeaseRow
           /\ Grant(c).holder = c /\ Grant(c).expires = mem[c].clock + TTL
           /\ NoRow \in LeaseRow /\ NoRow.holder = Nobody /\ NoRow.expires = 0
  BY Columns DEF Grant, LeaseRow, NoRow

\* What is released second is the leader lease.
LEMMA SecondIsLeader == SecondReleased = "leader"
  BY DEF SecondReleased, Kind, FirstReleased

\* What is left of the local variables has their types.
LEMMA DroppedType ==
    ASSUME NEW m \in Memory
    PROVE  Dropped(m) \in Memory
<1>1. 0 \in Version
  BY TriggerConstants DEF Version
<1> QED
  BY <1>1 DEF Dropped, Memory

\* The memory of one Core is replaced.
LEMMA NewMemory ==
    ASSUME TypeOK, NEW c \in Core, NEW m \in Memory, mem' = [mem EXCEPT ![c] = m]
    PROVE  mem' \in [Core -> Memory] /\ mem'[c] = m
  BY DEF TypeOK

\* The requests and the passed occurrences of a definition are instants.
LEMMA Instants ==
    ASSUME NEW d \in Definition, NEW from \in Nat, NEW to \in Nat
    PROVE  /\ Between(d, from, to) \subseteq Nat
           /\ Selected(d, Due(d, from, to), to) \subseteq Nat
<1>1. Between(d, from, to) \subseteq Nat
  BY DEF Between, Definition
<1>2. \A n, S : Latest(n, S) \subseteq S
  BY DEF Latest
<1>3. Due(d, from, to) \subseteq Nat
  BY <1>1, <1>2 DEF Due
<1>4. \A due, time : OnTime(d, due, time) \subseteq due
  BY DEF OnTime
<1>5. Selected(d, Due(d, from, to), to) \subseteq Due(d, from, to)
  BY <1>2, <1>4 DEF Selected
<1> QED
  BY <1>1, <1>3, <1>5

-----------------------------------------------------------------------------
(***************************************************************************)
(* The invariant holds initially and is preserved.                         *)
(***************************************************************************)
LEMMA InitIInv == Init => IInv
<1> SUFFICES ASSUME Init PROVE IInv
  OBVIOUS
<1>1. TypeOK
  BY TriggerConstants DEF Init, TypeOK, HeadRow, Version, Definition, NoDefinition, BaseRow,
     NoBase, LeaseRow, NoRow, Kind, Label, Memory, Blank
<1>2. \A c \in Core : InHand(c) /\ Local(c)
  BY DEF Init, InHand, Local, Blank
<1>3. RowsEnd /\ WriterLeads
  BY TriggerConstants DEF Init, RowsEnd, WriterLeads, NoRow, Kind
<1> QED
  BY <1>1, <1>2, <1>3 DEF IInv, Types

\* The actions of a cycle change the memory and the place of one Core.
LEMMA CycleOthers ==
    ASSUME TypeOK, NEW c \in Core, Cycle(c)
    PROVE  Others(c)
<1> DEFINE Apart(d) == pc'[d] = pc[d] /\ mem'[d] = mem[d]
<1>1. SUFFICES ASSUME NEW d \in Core \ {c} PROVE Apart(d)
  BY DEF Others
<1>2. CASE BeginCycle(c) \/ EnsureLeader(c) \/ Stop(c) \/ Unlead(c)
  BY <1>2 DEF TypeOK, Goto, BeginCycle, EnsureLeader, Stop, Unlead
<1>3. CASE EnsureWriter(c) \/ ReleaseFirst(c) \/ ReleaseSecond(c)
  BY <1>3 DEF TypeOK, Goto, EnsureWriter, ReleaseFirst, ReleaseSecond
<1>4. CASE ReadSchedule(c) \/ EnqueueOccurrences(c) \/ ListWatches(c)
  BY <1>4 DEF TypeOK, Goto, ReadSchedule, EnqueueOccurrences, ListWatches
<1>5. CASE Probe(c) \/ Observe(c) \/ EndWatches(c)
  BY <1>5 DEF TypeOK, Goto, Probe, Observe, EndWatches
<1> QED
  BY <1>2, <1>3, <1>4, <1>5 DEF Cycle

\* The steps of a cycle that take, keep or give back leases keep the types.
LEMMA LeaseTypes ==
    ASSUME Types, NEW c \in Core,
           BeginCycle(c) \/ EnsureLeader(c) \/ EnsureWriter(c) \/ Unlead(c)
             \/ ReleaseFirst(c) \/ ReleaseSecond(c) \/ Stop(c)
    PROVE  Types'
<1>1. Blank \in Memory
  BY TriggerConstants DEF Blank, Memory, Version
<1>2. \A k \in Kind : Released(c, k) \in [Kind -> LeaseRow]
  BY GrantType DEF Types, TypeOK, Released
<1>3. FirstReleased \in Kind
  BY DEF FirstReleased, Kind
<1>4. CASE BeginCycle(c)
  <2>1. mem' \in [Core -> Memory]
    <3>1. [mem[c] EXCEPT !.clock = now, !.again = FALSE] \in Memory
      BY DEF Types, TypeOK, Memory
    <3> QED
      BY <1>4, <3>1, NewMemory DEF BeginCycle, Types
  <2>2. pc' \in [Core -> Label] /\ \A d \in Core : InHand(d)'
    BY <1>4 DEF BeginCycle, Goto, Types, TypeOK, InHand, Label
  <2> QED
    BY <1>4, <2>1, <2>2 DEF BeginCycle, Types, TypeOK, tableVars, historyVars
<1>5. CASE EnsureLeader(c)
  BY <1>5, GrantType, Columns
  DEF EnsureLeader, Goto, Types, TypeOK, InHand, Label, tableVars, historyVars
<1>6. CASE EnsureWriter(c)
  <2>1. lease' \in [Kind -> LeaseRow]
    BY <1>6, GrantType, Columns DEF EnsureWriter, Types, TypeOK
  <2>2. mem' \in [Core -> Memory]
    <3>1. [Blank EXCEPT !.has = TRUE] \in Memory
      BY <1>1 DEF Memory
    <3>2. [mem[c] EXCEPT !.has = TRUE, !.todo = Enabled] \in Memory
      BY DEF Types, TypeOK, Memory, Enabled
    <3> QED
      BY <1>6, <3>1, <3>2 DEF EnsureWriter, Types, TypeOK
  <2>3. pc' \in [Core -> Label] /\ \A d \in Core : InHand(d)'
    BY <1>6 DEF EnsureWriter, Goto, Types, TypeOK, InHand, Label
  <2> QED
    BY <1>6, <2>1, <2>2, <2>3 DEF EnsureWriter, Types, TypeOK, tableVars, historyVars
<1>7. CASE Unlead(c) \/ ReleaseFirst(c) \/ ReleaseSecond(c) \/ Stop(c)
  <2>1. lease' \in [Kind -> LeaseRow]
    BY <1>2, <1>3, <1>7, SecondIsLeader, Columns
    DEF Unlead, ReleaseFirst, ReleaseSecond, Stop, Types, TypeOK
  <2>2. mem' \in [Core -> Memory]
    BY <1>1, <1>7 DEF Unlead, ReleaseFirst, ReleaseSecond, Stop, Types, TypeOK
  <2>3. pc' \in [Core -> Label] /\ \A d \in Core : InHand(d)'
    BY <1>7 DEF Unlead, ReleaseFirst, ReleaseSecond, Stop, Goto, Types, TypeOK, InHand, Label
  <2> QED
    BY <1>7, <2>1, <2>2, <2>3
    DEF Unlead, ReleaseFirst, ReleaseSecond, Stop, Types, TypeOK, tableVars, historyVars
<1> QED
  BY <1>4, <1>5, <1>6, <1>7

\* The materialization of Cron and Timer schedules keeps the types.
LEMMA ScheduleTypes ==
    ASSUME Types, NEW c \in Core, ReadSchedule(c) \/ EnqueueOccurrences(c)
    PROVE  Types'
<1>1. CASE ReadSchedule(c)
  <2> DEFINE taken(s) == [Without(mem[c], s) EXCEPT !.s = s, !.version = head[s].version,
                            !.cursor = head[s].cursor]
  <2>1. PICK s \in mem[c].todo :
          \/ mem' = [mem EXCEPT ![c] = taken(s)] /\ pc' = [pc EXCEPT ![c] = "enqueue"]
          \/ mem' = [mem EXCEPT ![c] = Without(mem[c], s)] /\ pc' = pc
    BY <1>1 DEF ReadSchedule, Goto
  <2>2. s \in Schedule
    BY DEF Types, TypeOK, Memory
  <2>3. taken(s) \in Memory /\ taken(s).s = s
    BY <2>2 DEF Types, TypeOK, Memory, HeadRow, Without
  <2>4. Without(mem[c], s) \in Memory
    BY DEF Types, TypeOK, Memory, Without
  <2> HIDE DEF taken
  <2>5. mem' \in [Core -> Memory]
    BY <2>1, <2>3, <2>4, NewMemory DEF Types
  <2>6. pc' \in [Core -> Label]
    BY <2>1 DEF Types, TypeOK, Label
  <2>7. \A d \in Core : InHand(d)'
    <3>1. \A d \in Core \ {c} : pc'[d] = pc[d] /\ mem'[d] = mem[d]
      BY <2>1 DEF Types, TypeOK
    <3>2. InHand(c)'
      BY <1>1, <2>1, <2>2, <2>3, NewMemory DEF ReadSchedule, Types, TypeOK, InHand
    <3> QED
      BY <3>1, <3>2 DEF Types, InHand
  <2> QED
    BY <1>1, <2>5, <2>6, <2>7 DEF ReadSchedule, Types, TypeOK, tableVars, historyVars
<1>2. CASE EnqueueOccurrences(c)
  <2> DEFINE m == mem[c]
             d == def[m.s]
             due == Due(d, m.cursor, m.clock)
             sel == Selected(d, due, m.clock)
             new == {[s |-> m.s, version |-> m.version, of |-> "occurrence", at |-> o] :
                       o \in sel}
  <2>1. m \in Memory /\ m.s \in Schedule /\ d \in Definition
    BY <1>2 DEF EnqueueOccurrences, Types, TypeOK, InHand
  <2>2. m.cursor \in Nat /\ m.clock \in Nat /\ m.version \in Version
    BY <2>1 DEF Memory
  <2>3. sel \subseteq Nat /\ Between(d, m.cursor, m.clock) \subseteq Nat
    BY <2>1, <2>2, Instants
  <2>4. new \subseteq Key
    BY <2>1, <2>2, <2>3 DEF Key
  <2>5. rows' \in SUBSET Key
    BY <1>2, <2>4 DEF EnqueueOccurrences, Types, TypeOK
  <2>6. head' \in [Schedule -> HeadRow]
    <3>1. [head[m.s] EXCEPT !.cursor = m.clock] \in HeadRow
      BY <2>1, <2>2 DEF Types, TypeOK, HeadRow
    <3> QED
      BY <1>2, <2>1, <3>1 DEF EnqueueOccurrences, Types, TypeOK
  <2>7. missed' \in [Schedule -> SUBSET Nat]
    BY <1>2, <2>1, <2>3 DEF EnqueueOccurrences, Types, TypeOK
  <2>8. Dropped(m) \in Memory
    BY <2>1, DroppedType
  <2>9. mem' \in [Core -> Memory]
    BY <1>2, <2>8 DEF EnqueueOccurrences, Types, TypeOK
  <2>10. pc' \in [Core -> Label] /\ \A k \in Core : InHand(k)'
    BY <1>2 DEF EnqueueOccurrences, Goto, Types, TypeOK, InHand, Label
  <2> QED
    BY <1>2, <2>5, <2>6, <2>7, <2>9, <2>10 DEF EnqueueOccurrences, Types, TypeOK
<1> QED
  BY <1>1, <1>2

\* The observation of watches keeps the types.
LEMMA WatchTypes ==
    ASSUME Types, NEW c \in Core,
           ListWatches(c) \/ Probe(c) \/ Observe(c) \/ EndWatches(c)
    PROVE  Types'
<1>1. CASE ListWatches(c) \/ EndWatches(c)
  <2>1. {s \in Enabled : def[s].kind = "watch"} \in SUBSET Schedule
    BY DEF Enabled
  <2>2. mem' \in [Core -> Memory]
    <3> DEFINE W == {s \in Enabled : def[s].kind = "watch"}
    <3>1. [mem[c] EXCEPT !.todo = W] \in Memory
      BY <2>1 DEF Types, TypeOK, Memory
    <3>2. [mem[c] EXCEPT !.clock = now, !.again = TRUE] \in Memory
      BY DEF Types, TypeOK, Memory
    <3> HIDE DEF W
    <3> QED
      BY <1>1, <3>1, <3>2, NewMemory DEF ListWatches, EndWatches, Types, TypeOK, W
  <2>3. pc' \in [Core -> Label] /\ \A d \in Core : InHand(d)'
    BY <1>1 DEF ListWatches, EndWatches, Goto, Types, TypeOK, InHand, Label
  <2> QED
    BY <1>1, <2>2, <2>3 DEF ListWatches, EndWatches, Types, TypeOK, tableVars, historyVars
<1>2. CASE Probe(c)
  <2> DEFINE probed(s, p) == [Without(mem[c], s) EXCEPT !.s = s, !.version = head[s].version,
                             !.print = p]
  <2>1. PICK s \in mem[c].todo : \E print \in {0, 1} :
          mem' = [mem EXCEPT ![c] = probed(s, print * file[s])]
    BY <1>2 DEF Probe
  <2>2. s \in Schedule
    BY DEF Types, TypeOK, Memory
  <2>3. 0 * file[s] = 0 /\ 1 * file[s] = file[s] /\ file[s] \in Nat
    BY <2>2 DEF Types, TypeOK
  <2>4. \A print \in {0, 1} : print * file[s] \in Nat
    BY <2>3
  <2>5. PICK p \in Nat : mem' = [mem EXCEPT ![c] = probed(s, p)]
    BY <2>1, <2>4
  <2>6. probed(s, p) \in Memory /\ probed(s, p).s = s
    BY <2>2 DEF Types, TypeOK, Memory, HeadRow, Without
  <2> HIDE DEF probed
  <2>7. mem' \in [Core -> Memory] /\ mem'[c].s = s
    BY <2>5, <2>6, NewMemory DEF Types
  <2>8. pc' \in [Core -> Label] /\ \A d \in Core : InHand(d)'
    <3>1. \A d \in Core \ {c} : pc'[d] = pc[d] /\ mem'[d] = mem[d]
      BY <1>2, <2>5 DEF Probe, Goto, Types, TypeOK
    <3> QED
      BY <1>2, <2>2, <2>7, <3>1 DEF Probe, Goto, Types, TypeOK, InHand, Label
  <2> QED
    BY <1>2, <2>7, <2>8 DEF Probe, Types, TypeOK, tableVars, historyVars
<1>3. CASE Observe(c)
  <2> DEFINE m == mem[c]
             b == base[m.s]
             changed == b.row /\ b.print # 0 /\ m.print # 0 /\ b.print # m.print
             next == IF changed THEN b.generation + 1 ELSE b.generation
             key == [s |-> m.s, version |-> m.version, of |-> "change", at |-> next]
             row == [row |-> TRUE, generation |-> next,
                     print |-> IF m.print = 0 THEN b.print ELSE m.print]
  <2>1. m \in Memory /\ m.s \in Schedule /\ b \in BaseRow
    BY <1>3 DEF Observe, Types, TypeOK, InHand
  <2>2. next \in Nat
    BY <2>1 DEF BaseRow
  <2> HIDE DEF next, changed
  <2>3. key \in Key
    BY <2>1, <2>2 DEF Key, Memory
  <2>4. row \in BaseRow
    BY <2>1, <2>2 DEF BaseRow, Memory
  <2>5. rows' \in SUBSET Key
    BY <1>3, <2>3 DEF Observe, Types, TypeOK, next, changed
  <2>6. base' \in [Schedule -> BaseRow]
    BY <1>3, <2>1, <2>4 DEF Observe, Types, TypeOK, next, changed
  <2>7. Dropped(m) \in Memory
    BY <2>1, DroppedType
  <2>8. mem' \in [Core -> Memory]
    BY <1>3, <2>7 DEF Observe, Types, TypeOK
  <2>9. pc' \in [Core -> Label] /\ \A d \in Core : InHand(d)'
    BY <1>3 DEF Observe, Goto, Types, TypeOK, InHand, Label
  <2> QED
    BY <1>3, <2>5, <2>6, <2>8, <2>9 DEF Observe, Types, TypeOK, historyVars
<1> QED
  BY <1>1, <1>2, <1>3

\* Users, files, failures and time keep the types.
LEMMA EnvironmentTypes ==
    ASSUME Types, Environment \/ Tick
    PROVE  Types'
<1>1. ASSUME NEW s \in Schedule, NEW d \in Definitions, PutSchedule(s, d)
      PROVE  Types'
  <2>1. head[s] \in HeadRow /\ head[s].version + 1 \in Version
    BY <1>1, TriggerConstants DEF PutSchedule, Types, TypeOK, HeadRow, Version
  <2>2. head' \in [Schedule -> HeadRow] /\ since' \in [Schedule -> Nat]
    BY <1>1, <2>1 DEF PutSchedule, Types, TypeOK, HeadRow, NextVersion
  <2>3. def' \in [Schedule -> Definition] /\ base' \in [Schedule -> BaseRow]
    BY <1>1, TriggerConstants DEF PutSchedule, Types, TypeOK, BaseRow, NoBase
  <2>4. missed' \in [Schedule -> SUBSET Nat]
    BY <1>1 DEF PutSchedule, Types, TypeOK
  <2> QED
    BY <1>1, <2>2, <2>3, <2>4 DEF PutSchedule, Types, TypeOK, InHand, procVars
<1>2. ASSUME NEW s \in Schedule, NEW status \in Moves, UpdateScheduleStatus(s, status)
      PROVE  Types'
  <2>1. head' \in [Schedule -> HeadRow]
    BY <1>2, TriggerConstants DEF UpdateScheduleStatus, Types, TypeOK, HeadRow
  <2> QED
    BY <1>2, <2>1 DEF UpdateScheduleStatus, Types, TypeOK, InHand, procVars, historyVars
<1>3. ASSUME NEW s \in Schedule, ChangeFile(s)
      PROVE  Types'
  BY <1>3 DEF ChangeFile, Types, TypeOK, InHand, tableVars, procVars, historyVars
<1>4. ASSUME NEW c \in Core, Crash(c)
      PROVE  Types'
  <2>1. Blank \in Memory
    BY TriggerConstants DEF Blank, Memory, Version
  <2>2. mem' \in [Core -> Memory] /\ pc' \in [Core -> Label]
    BY <1>4, <2>1 DEF Crash, Goto, Types, TypeOK, Label
  <2>3. \A d \in Core : InHand(d)'
    BY <1>4 DEF Crash, Goto, Types, TypeOK, InHand
  <2> QED
    BY <1>4, <2>2, <2>3 DEF Crash, Types, TypeOK, tableVars, historyVars
<1>5. CASE Tick
  BY <1>5 DEF Tick, Types, TypeOK, InHand, tableVars, procVars, historyVars
<1> QED
  BY <1>1, <1>2, <1>3, <1>4, <1>5 DEF Environment

Leases == (\A d \in Core : Local(d)) /\ RowsEnd /\ WriterLeads

\* A step that leaves the leases alone and does not enter _ensure_leases.
LEMMA LeasesKept ==
    ASSUME IInv, NEW c \in Core, Others(c), now' = now, lease' = lease,
           mem'[c].clock <= now, pc'[c] \notin {"leader", "writer", "unlead"},
           (pc'[c] = "release_second" /\ mem'[c].has) => lease["writer"].holder # c
    PROVE  Leases'
<1>1. RowsEnd' /\ WriterLeads'
  BY DEF IInv, RowsEnd, WriterLeads
<1>2. Local(c)'
  BY DEF Local
<1>3. ASSUME NEW d \in Core \ {c} PROVE Local(d)'
  BY <1>3 DEF IInv, Local, Others, Grant
<1> QED
  BY <1>1, <1>2, <1>3 DEF Leases

\* A step of a Core that gives back, takes or keeps a lease, and takes the
\* leader lease only when no other Core has it: the others lose nothing.
LEMMA OthersKept ==
    ASSUME IInv, NEW c \in Core, Others(c), now' = now,
           NEW k \in Kind, NEW row \in LeaseRow, lease' = [lease EXCEPT ![k] = row],
           row.holder \in {c, Nobody}, row.expires <= now + TTL,
           row.holder = Nobody => row.expires = 0,
           k = "leader" => \/ lease["leader"].holder \in {c, Nobody}
                           \/ lease["leader"].expires <= now
    PROVE  RowsEnd' /\ \A d \in Core \ {c} : Local(d)'
<1>1. \A j \in Kind : lease'[j] = IF j = k THEN row ELSE lease[j]
  BY DEF IInv, Types, TypeOK
<1>2. RowsEnd'
  BY <1>1 DEF IInv, RowsEnd
<1>3. ASSUME NEW d \in Core \ {c} PROVE Local(d)'
  <2>1. pc'[d] = pc[d] /\ mem'[d] = mem[d] /\ d \in Core /\ d # c /\ d # Nobody
    BY <1>3, TriggerConstants DEF Others
  <2>2. \A j \in Kind : lease'[j].holder = d => lease'[j] = lease[j]
    BY <1>1, <2>1
  <2>3. Local(d) /\ mem[d].clock \in Nat
    BY <2>1, Columns DEF IInv, Types
  <2>4. "leader" \in Kind /\ "writer" \in Kind
    BY DEF Kind
  <2>5. ASSUME pc[d] = "writer"
        PROVE  lease'["leader"] = [holder |-> d, expires |-> mem[d].clock + TTL]
                 \/ mem[d].clock + TTL <= now
    <3>1. CASE lease["leader"] = Grant(d)
      <4>1. lease["leader"].holder = d /\ lease["leader"].expires = mem[d].clock + TTL
        BY <3>1 DEF Grant
      <4>2. CASE k = "leader"
        BY <2>1, <4>1, <4>2
      <4>3. CASE k # "leader"
        BY <1>1, <2>4, <3>1, <4>3 DEF Grant
      <4> QED
        BY <4>2, <4>3
    <3>2. CASE mem[d].clock + TTL <= now
      BY <3>2
    <3> QED
      BY <2>3, <2>5, <3>1, <3>2 DEF Local
  <2> QED
    BY <2>1, <2>2, <2>3, <2>4, <2>5 DEF Local, Grant
<1> QED
  BY <1>2, <1>3

\* A Core that acquires the leader lease finds no live writer lease: the
\* writer's leader lease would be alive as well.
LEMMA FreeLeader ==
    ASSUME IInv, NEW c \in Core, Free(c, "leader")
    PROVE  lease["writer"].expires <= now
<1>1. lease["leader"].holder = Nobody \/ lease["leader"].expires <= now
  BY Columns DEF IInv, Types, Free, Local
<1>2. lease["writer"].holder = Nobody => lease["writer"].expires = 0
  BY DEF IInv, RowsEnd, Kind
<1> QED
  BY <1>1, <1>2, Columns DEF IInv, Types, WriterLeads

\* Acquiring or renewing the leader lease.
LEMMA EnsureLeaderStep ==
    ASSUME IInv, Types', NEW c \in Core, EnsureLeader(c)
    PROVE  Leases'
<1>1. Others(c) /\ now' = now /\ mem' = mem /\ TypeOK /\ TypeOK'
  BY CycleOthers DEF IInv, Types, Cycle, EnsureLeader
<1>2. pc[c] = "leader" /\ Local(c) /\ WriterLeads
  BY DEF EnsureLeader, IInv
<1>3. CASE lease' = lease /\ pc'[c] = "release_first"
  BY <1>1, <1>2, <1>3, LeasesKept DEF Local
<1>4. CASE /\ IF mem[c].has THEN Holds(c, "leader", mem[c].clock) ELSE Free(c, "leader")
           /\ lease' = [lease EXCEPT !["leader"] = Grant(c)] /\ pc'[c] = "writer"
  <2>1. Grant(c) \in LeaseRow /\ Grant(c).holder = c /\ Grant(c).expires = mem[c].clock + TTL
    BY <1>1, GrantType
  <2>2. now \in Nat /\ TTL \in Nat /\ mem[c].clock \in Nat /\ mem[c].clock <= now
          /\ lease["leader"].expires \in Nat /\ lease["writer"].expires \in Nat
          /\ "leader" \in Kind /\ "writer" \in Kind
    BY <1>1, <1>2, Columns DEF Local
  <2>3. lease["leader"].holder \in {c, Nobody} \/ lease["leader"].expires <= now
    BY <1>4, <2>2 DEF Holds, Free
  <2>4. RowsEnd' /\ \A d \in Core \ {c} : Local(d)'
    <3>1. c # Nobody
      BY TriggerConstants
    <3>2. Grant(c).expires <= now + TTL
      BY <2>1, <2>2
    <3> QED
      BY <1>1, <1>4, <2>1, <2>2, <2>3, <3>1, <3>2, OthersKept
  <2>5. lease'["leader"] = Grant(c) /\ lease'["writer"] = lease["writer"]
    BY <1>1, <1>4, <2>2 DEF TypeOK
  <2>6. CASE mem[c].has
    <3>1. lease["leader"].holder = c /\ lease["leader"].expires <= mem[c].clock + TTL
      BY <1>2, <1>4, <2>2, <2>6 DEF Holds, Local
    <3>2. WriterLeads'
      BY <1>1, <1>2, <2>1, <2>2, <2>5, <3>1 DEF WriterLeads
    <3>3. Local(c)'
      BY <1>1, <1>2, <1>4, <2>1, <2>2, <2>5, <2>6 DEF Local, Grant, Kind
    <3> QED
      BY <2>4, <3>2, <3>3 DEF Leases
  <2>7. CASE ~mem[c].has
    <3>1. lease["writer"].expires <= now
      BY <1>4, <2>7, FreeLeader
    <3>2. WriterLeads'
      BY <1>1, <2>2, <2>5, <3>1 DEF WriterLeads
    <3>3. Local(c)'
      BY <1>1, <1>2, <1>4, <2>1, <2>2, <2>5, <3>1 DEF Local, Grant, Kind
    <3> QED
      BY <2>4, <3>2, <3>3 DEF Leases
  <2> QED
    BY <2>6, <2>7
<1> QED
  BY <1>1, <1>3, <1>4 DEF EnsureLeader, Goto, TypeOK

\* Acquiring or renewing the writer lease: the leader lease that was taken
\* just before lives as long, or neither is alive.
LEMMA EnsureWriterStep ==
    ASSUME IInv, Types', NEW c \in Core, EnsureWriter(c)
    PROVE  Leases'
<1>1. Others(c) /\ now' = now /\ TypeOK /\ TypeOK'
  BY CycleOthers DEF IInv, Types, Cycle, EnsureWriter
<1>2. pc[c] = "writer" /\ Local(c) /\ WriterLeads
  BY DEF EnsureWriter, IInv
<1>3. CASE lease' = lease /\ mem' = mem /\ pc'[c] = "release_first"
  BY <1>1, <1>2, <1>3, LeasesKept DEF Local
<1>4. CASE lease' = lease /\ mem' = mem /\ pc'[c] = "unlead" /\ ~mem[c].has
  <2>1. Local(c)'
    BY <1>1, <1>2, <1>4 DEF Local
  <2>2. ASSUME NEW d \in Core \ {c} PROVE Local(d)'
    BY <1>1, <1>4, <2>2 DEF IInv, Local, Others, Grant
  <2>3. RowsEnd' /\ WriterLeads'
    BY <1>1, <1>4 DEF IInv, RowsEnd, WriterLeads
  <2> QED
    BY <2>1, <2>2, <2>3 DEF Leases
<1>5. CASE /\ lease' = [lease EXCEPT !["writer"] = Grant(c)]
           /\ mem'[c].clock \in {0, mem[c].clock}
           /\ pc'[c] \in {"idle", "schedules"}
  <2>1. Grant(c) \in LeaseRow /\ Grant(c).holder = c /\ Grant(c).expires = mem[c].clock + TTL
    BY <1>1, GrantType
  <2>2. now \in Nat /\ TTL \in Nat /\ mem[c].clock \in Nat /\ mem[c].clock <= now
          /\ "leader" \in Kind /\ "writer" \in Kind /\ c # Nobody
    BY <1>1, <1>2, Columns, TriggerConstants DEF Local
  <2>3. RowsEnd' /\ \A d \in Core \ {c} : Local(d)'
    <3>1. Grant(c).expires <= now + TTL
      BY <2>1, <2>2
    <3> QED
      BY <1>1, <1>5, <2>1, <2>2, <3>1, OthersKept
  <2>4. lease'["writer"] = Grant(c) /\ lease'["leader"] = lease["leader"]
    BY <1>1, <1>5, <2>2 DEF TypeOK
  <2>5. lease["leader"] = Grant(c) \/ mem[c].clock + TTL <= now
    BY <1>2 DEF Local
  <2>6. WriterLeads'
    BY <1>1, <2>1, <2>2, <2>4, <2>5 DEF WriterLeads
  <2>7. Local(c)'
    BY <1>1, <1>5, <2>2 DEF Local
  <2> QED
    BY <2>3, <2>6, <2>7 DEF Leases
<1> QED
  <2>1. EnsureWriter(c) =>
          \/ lease' = lease /\ mem' = mem /\ pc'[c] = "release_first"
          \/ lease' = lease /\ mem' = mem /\ pc'[c] = "unlead" /\ ~mem[c].has
          \/ /\ lease' = [lease EXCEPT !["writer"] = Grant(c)]
             /\ mem'[c] \in {[Blank EXCEPT !.has = TRUE],
                             [mem[c] EXCEPT !.has = TRUE, !.todo = Enabled]}
             /\ pc'[c] \in {"idle", "schedules"}
    BY <1>1 DEF EnsureWriter, Goto, TypeOK
  <2>2. [Blank EXCEPT !.has = TRUE].clock = 0
          /\ [mem[c] EXCEPT !.has = TRUE, !.todo = Enabled].clock = mem[c].clock
    BY <1>1 DEF TypeOK, Memory, Blank
  <2> QED
    BY <1>3, <1>4, <1>5, <2>1, <2>2

\* Giving back leases: the writer lease goes before the leader lease, and a
\* Core that could not become Writer has no writer lease to leave behind.
LEMMA ReleaseStep ==
    ASSUME IInv, Types', NEW c \in Core,
           Unlead(c) \/ ReleaseFirst(c) \/ ReleaseSecond(c)
    PROVE  Leases'
<1>1. Others(c) /\ now' = now /\ TypeOK /\ TypeOK' /\ Local(c) /\ WriterLeads
  BY CycleOthers DEF IInv, Types, Cycle, Unlead, ReleaseFirst, ReleaseSecond
<1>2. now \in Nat /\ TTL \in Nat /\ c # Nobody
        /\ "leader" \in Kind /\ "writer" \in Kind
        /\ lease["writer"].expires \in Nat
        /\ NoRow \in LeaseRow /\ NoRow.holder = Nobody /\ NoRow.expires = 0
  BY <1>1, Columns, GrantType, TriggerConstants
<1>3. mem'[c].clock <= now
  BY <1>1, <1>2 DEF Unlead, ReleaseFirst, ReleaseSecond, TypeOK, Local, Blank
<1>4. pc'[c] \in {"idle", "release_second"}
  BY <1>1 DEF Unlead, ReleaseFirst, ReleaseSecond, TypeOK, Goto
<1>5. CASE lease' = lease /\ (pc'[c] = "release_second" /\ mem'[c].has
                               => lease["writer"].holder # c)
  BY <1>1, <1>3, <1>4, <1>5, LeasesKept
<1>6. CASE /\ lease' = [lease EXCEPT !["leader"] = NoRow] /\ lease["leader"].holder = c
           /\ pc'[c] = "idle"
           /\ lease["writer"].holder = c => lease["writer"].expires <= now
  <2>1. RowsEnd' /\ \A d \in Core \ {c} : Local(d)'
    <3>1. NoRow.expires <= now + TTL
      BY <1>2
    <3> QED
      BY <1>1, <1>2, <1>6, <3>1, OthersKept
  <2>2. lease'["writer"] = lease["writer"]
    BY <1>1, <1>6 DEF TypeOK
  <2>3. lease["writer"].expires <= now
    BY <1>1, <1>2, <1>6 DEF WriterLeads
  <2>4. WriterLeads'
    BY <1>1, <1>2, <2>2, <2>3 DEF WriterLeads
  <2>5. Local(c)'
    BY <1>1, <1>3, <1>6 DEF Local
  <2> QED
    BY <2>1, <2>4, <2>5 DEF Leases
<1>7. CASE /\ lease' = [lease EXCEPT !["writer"] = NoRow] /\ pc'[c] = "release_second"
  <2>1. RowsEnd' /\ \A d \in Core \ {c} : Local(d)'
    <3>1. NoRow.expires <= now + TTL
      BY <1>2
    <3> QED
      BY <1>1, <1>2, <1>7, <3>1, OthersKept
  <2>2. lease'["writer"] = NoRow
    BY <1>1, <1>2, <1>7 DEF TypeOK
  <2>3. WriterLeads'
    BY <1>1, <1>2, <2>2 DEF WriterLeads
  <2>4. Local(c)'
    BY <1>1, <1>2, <1>3, <1>7, <2>2 DEF Local
  <2> QED
    BY <2>1, <2>3, <2>4 DEF Leases
<1>8. CASE Unlead(c)
  <2>1. pc[c] = "unlead" /\ lease' = Released(c, "leader") /\ pc'[c] = "idle"
    BY <1>1, <1>8 DEF Unlead, Goto, TypeOK
  <2>2. lease["writer"].holder = c => lease["writer"].expires <= now
    BY <1>1, <2>1 DEF Local
  <2> QED
    BY <1>5, <1>6, <2>1, <2>2 DEF Released
<1>9. CASE ReleaseFirst(c)
  <2>1. mem' = mem /\ pc'[c] = "release_second"
    BY <1>1, <1>9 DEF ReleaseFirst, Goto, TypeOK
  <2> QED
    BY <1>5, <1>7, <1>9, <2>1 DEF ReleaseFirst, FirstReleased, Released
<1>10. CASE ReleaseSecond(c)
  <2>1. pc[c] = "release_second" /\ pc'[c] = "idle"
    BY <1>1, <1>10 DEF ReleaseSecond, Goto, TypeOK
  <2>3. lease' = IF ~mem[c].has THEN lease ELSE Released(c, "leader")
    BY <1>10, SecondIsLeader DEF ReleaseSecond
  <2>2. mem[c].has => lease["writer"].holder # c
    BY <1>1, <2>1 DEF Local
  <2> QED
    BY <1>5, <1>6, <2>1, <2>2, <2>3 DEF Released
<1> QED
  BY <1>8, <1>9, <1>10

\* Every other step of a cycle leaves the leases alone; only BeginCycle and
\* EndWatches, with a new reading of the clock, enter _ensure_leases.
LEMMA OtherStep ==
    ASSUME IInv, Types', NEW c \in Core,
           BeginCycle(c) \/ Stop(c) \/ ReadSchedule(c) \/ EnqueueOccurrences(c)
             \/ ListWatches(c) \/ Probe(c) \/ Observe(c) \/ EndWatches(c)
    PROVE  Leases'
<1>1. Others(c) /\ now' = now /\ lease' = lease /\ TypeOK /\ TypeOK'
  <2>1. Cycle(c) /\ TypeOK /\ TypeOK'
    BY DEF IInv, Types, Cycle
  <2>2. now' = now /\ lease' = lease
    BY DEF BeginCycle, Stop, ReadSchedule, EnqueueOccurrences, ListWatches, Probe, Observe,
       EndWatches
  <2> QED
    BY <2>1, <2>2, CycleOthers
<1>2. Local(c) /\ now \in Nat /\ TTL \in Nat /\ mem[c].clock \in Nat
  BY <1>1, Columns DEF IInv
<1>3. CASE pc'[c] = "leader" /\ mem'[c].clock = now
  <2>1. \A k \in Kind : lease[k].expires <= now + TTL
    BY DEF IInv, RowsEnd
  <2>2. Local(c)'
    BY <1>1, <1>2, <1>3, <2>1 DEF Local
  <2>3. ASSUME NEW d \in Core \ {c} PROVE Local(d)'
    BY <1>1, <2>3 DEF IInv, Local, Others, Grant
  <2>4. RowsEnd' /\ WriterLeads'
    BY <1>1 DEF IInv, RowsEnd, WriterLeads
  <2> QED
    BY <2>2, <2>3, <2>4 DEF Leases
<1>4. CASE mem'[c].clock \in {0, mem[c].clock}
             /\ pc'[c] \notin {"leader", "writer", "unlead", "release_second"}
  <2>1. mem'[c].clock <= now
    BY <1>2, <1>4 DEF Local
  <2> QED
    BY <1>1, <1>4, <2>1, LeasesKept
<1>5. pc \in [Core -> Label] /\ mem \in [Core -> Memory] /\ mem[c] \in Memory
  BY <1>1 DEF TypeOK
<1>6. CASE BeginCycle(c) \/ Stop(c) \/ ListWatches(c) \/ EndWatches(c)
  <2>1. CASE BeginCycle(c) \/ (EndWatches(c) /\ pc'[c] # "release_first")
    <3>1. PICK b \in BOOLEAN :
            mem' = [mem EXCEPT ![c] = [mem[c] EXCEPT !.clock = now, !.again = b]]
      BY <1>5, <2>1 DEF BeginCycle, EndWatches, Goto
    <3>2. pc'[c] = "leader"
      BY <1>5, <2>1 DEF BeginCycle, EndWatches, Goto
    <3>3. mem'[c].clock = now
      BY <1>5, <3>1 DEF Memory
    <3> QED
      BY <1>3, <3>2, <3>3
  <2>2. CASE Stop(c) \/ (EndWatches(c) /\ pc'[c] = "release_first")
    <3>1. mem' = mem /\ pc'[c] = "release_first"
      BY <1>5, <2>2 DEF Stop, EndWatches, Goto
    <3> QED
      BY <1>4, <3>1
  <2>3. CASE ListWatches(c)
    <3>1. mem'[c].clock = mem[c].clock /\ pc'[c] = "watches"
      BY <1>5, <2>3 DEF ListWatches, Goto, Memory
    <3> QED
      BY <1>4, <3>1
  <2> QED
    BY <1>6, <2>1, <2>2, <2>3
<1>7. CASE ReadSchedule(c) \/ Probe(c)
  <2>1. PICK s : \/ mem' = [mem EXCEPT ![c] = Without(mem[c], s)]
                 \/ \E v, k : mem' = [mem EXCEPT ![c] = [Without(mem[c], s) EXCEPT
                                    !.s = s, !.version = v, !.cursor = k]]
                 \/ \E v, p : mem' = [mem EXCEPT ![c] = [Without(mem[c], s) EXCEPT
                                    !.s = s, !.version = v, !.print = p]]
    BY <1>7 DEF ReadSchedule, Probe
  <2>2. mem'[c].clock = mem[c].clock
    BY <1>5, <2>1 DEF Memory, Without
  <2>3. pc'[c] \in {"schedules", "enqueue", "observe"}
    BY <1>5, <1>7 DEF ReadSchedule, Probe, Goto
  <2> QED
    BY <1>4, <2>2, <2>3
<1>8. CASE EnqueueOccurrences(c) \/ Observe(c)
  <2>1. mem' = [mem EXCEPT ![c] = Dropped(mem[c])]
    BY <1>8 DEF EnqueueOccurrences, Observe
  <2>2. mem'[c].clock = mem[c].clock
    BY <1>5, <2>1 DEF Memory, Dropped
  <2>3. pc'[c] \in {"schedules", "release_first", "watches"}
    BY <1>5, <1>8 DEF EnqueueOccurrences, Observe, Goto
  <2> QED
    BY <1>4, <2>2, <2>3
<1> QED
  BY <1>6, <1>7, <1>8

\* Users and files do not touch the leases; a crash forgets them; time only
\* makes them end.
LEMMA EnvironmentStep ==
    ASSUME IInv, Types', Environment \/ Tick
    PROVE  Leases'
<1>1. CASE Tick
  <2>1. now \in Nat /\ now' = now + 1 /\ lease' = lease /\ pc' = pc /\ mem' = mem
    BY <1>1 DEF IInv, Types, TypeOK, Tick, procVars
  <2>2. RowsEnd' /\ WriterLeads'
    BY <2>1, Columns DEF IInv, Types, RowsEnd, WriterLeads
  <2>3. ASSUME NEW d \in Core PROVE Local(d)'
    BY <2>1, <2>3, Columns DEF IInv, Types, Local, Grant, Kind
  <2> QED
    BY <2>2, <2>3 DEF Leases
<1>2. CASE \/ \E s \in Schedule, d \in Definitions : PutSchedule(s, d)
           \/ \E s \in Schedule, status \in Moves : UpdateScheduleStatus(s, status)
           \/ \E s \in Schedule : ChangeFile(s)
  <2>1. now' = now /\ lease' = lease /\ pc' = pc /\ mem' = mem
    BY <1>2 DEF PutSchedule, UpdateScheduleStatus, ChangeFile, procVars
  <2>2. \A d \in Core : Local(d)'
    BY <2>1 DEF IInv, Local, Grant
  <2>3. RowsEnd' /\ WriterLeads'
    BY <2>1 DEF IInv, RowsEnd, WriterLeads
  <2> QED
    BY <2>2, <2>3 DEF Leases
<1>3. ASSUME NEW c \in Core, Crash(c) PROVE Leases'
  <2>1. Others(c) /\ now' = now /\ lease' = lease
    BY <1>3 DEF IInv, Types, TypeOK, Crash, Goto, Others
  <2>2. mem'[c] = Blank /\ pc'[c] = "idle" /\ Blank.clock = 0
    BY <1>3 DEF IInv, Types, TypeOK, Crash, Goto, Blank
  <2>3. mem'[c].clock <= now
    BY <2>2, Columns DEF IInv, Types
  <2> QED
    BY <2>1, <2>2, <2>3, LeasesKept
<1> QED
  BY <1>1, <1>2, <1>3 DEF Environment

LEMMA NextIInv == IInv /\ [Next]_vars => IInv'
<1> SUFFICES ASSUME IInv, [Next]_vars PROVE IInv'
  OBVIOUS
<1>1. ASSUME NEW c \in Core, Cycle(c) PROVE IInv'
  <2>1. Types'
    BY <1>1, LeaseTypes, ScheduleTypes, WatchTypes DEF IInv, Cycle
  <2>2. Leases'
    BY <1>1, <2>1, EnsureLeaderStep, EnsureWriterStep, ReleaseStep, OtherStep DEF Cycle
  <2> QED
    BY <2>1, <2>2 DEF IInv, Leases
<1>2. CASE Environment \/ Tick
  <2>1. Types'
    BY <1>2, EnvironmentTypes DEF IInv
  <2>2. Leases'
    BY <1>2, <2>1, EnvironmentStep
  <2> QED
    BY <2>1, <2>2 DEF IInv, Leases
<1>3. CASE UNCHANGED vars
  BY <1>3 DEF vars, IInv, Types, TypeOK, InHand, Local, Grant, RowsEnd, WriterLeads
<1> QED
  BY <1>1, <1>2, <1>3 DEF Next

-----------------------------------------------------------------------------
(***************************************************************************)
(* The theorems.                                                           *)
(***************************************************************************)
\* The inductive invariant holds in every reachable state.
THEOREM Invariance == Spec => []IInv
  BY InitIInv, NextIInv, PTL DEF Spec

\* Schedules, cursors, baselines, keys, leases and what a cycle keeps between
\* two transactions have their types; a schedule is in hand whenever
\* enqueue_occurrences or observe_watch is called.
THEOREM TypeCorrect == Spec => []TypeOK
<1>1. IInv => TypeOK
  BY DEF IInv, Types
<1> QED
  BY <1>1, Invariance, PTL

\* The Core that may claim and dispatch is the one that may materialize,
\* although _ensure_leases takes, keeps and gives back the two leases in
\* transactions of their own, with a reading of the clock that may be old.
THEOREM WriterIsLeader == Spec => []WriterLeads
<1>1. IInv => WriterLeads
  BY DEF IInv
<1> QED
  BY <1>1, Invariance, PTL

-----------------------------------------------------------------------------
(***************************************************************************)
(* The inductive invariant of what is requested.                           *)
(***************************************************************************)
\* No key is of a version to come, no occurrence is requested before its time,
\* and a new change of a watched file has a key of its own.
KeysSoFar ==
    \A r \in rows :
        /\ r.version <= head[r.s].version
        /\ r.of = "occurrence" => r.at <= now
        /\ r.of = "change" /\ r.version = head[r.s].version => r.at <= base[r.s].generation

\* A baseline is not ahead of its file, and has a fingerprint only with a row.
Baseline(s) ==
    /\ base[s].print <= file[s]
    /\ base[s].print # 0 => base[s].row

\* What a Core has read for the schedule in hand is what its transaction will
\* find, as long as it is the leader: nobody else moves the cursor or the
\* baseline meanwhile, and a user who puts a version keeps the first and
\* empties the second.
AsRead(c) ==
    LET m == mem[c] IN
    /\ pc[c] = "enqueue" =>
         /\ head[m.s].version > 0
         /\ lease["leader"].holder = c => m.cursor = head[m.s].cursor
    /\ pc[c] = "observe" =>
         /\ m.print <= file[m.s]
         /\ (lease["leader"].holder = c /\ m.print # 0) => base[m.s].print <= m.print

Defined == \A s \in Schedule : def[s] \in Definitions \cup {NoDefinition}

Readings == KeysSoFar /\ (\A s \in Schedule : Baseline(s)) /\ (\A c \in Core : AsRead(c)) /\ Defined

RInv == Readings /\ PassedOver /\ OnTimeFires

-----------------------------------------------------------------------------
(***************************************************************************)
(* The latest members of a set of instants.                                *)
(***************************************************************************)
\* A set of naturals that is bounded has a greatest member.
LEMMA Greatest ==
    ASSUME NEW S \in SUBSET Nat, NEW b \in Nat, \A k \in S : k <= b, S # {}
    PROVE  \E x \in S : \A y \in S : y <= x
<1> DEFINE T == {b - k : k \in S}
           R == {p \in Nat \X Nat : p[1] < p[2]}
<1>1. T \subseteq Nat /\ T # {}
  <2>1. ASSUME NEW k \in S PROVE b - k \in Nat
    <3>1. k \in Nat /\ k <= b
      OBVIOUS
    <3> QED
      BY <3>1
  <2> QED
    BY <2>1
<1>2. IsWellFoundedOn(R, Nat)
  BY NatLessThanWellFounded, Zenon DEF OpToRel
<1>3. PICK t \in T : \A y \in T : ~ (<<y, t>> \in R)
  <2> HIDE DEF T, R
  <2> QED
    BY <1>1, <1>2, WFMin, Zenon
<1>4. \A y \in T : t <= y
  <2>1. ASSUME NEW y \in T, y < t PROVE FALSE
    <3>1. y \in Nat /\ t \in Nat
      BY <1>1
    <3>2. <<y, t>> \in R
      <4> HIDE DEF T
      <4> QED
        BY <2>1, <3>1
    <3> QED
      BY <1>3, <3>2
  <2>2. \A y \in T : y \in Nat /\ t \in Nat
    BY <1>1
  <2> HIDE DEF T
  <2> QED
    BY <2>1, <2>2
<1>5. PICK x \in S : t = b - x
  BY <1>3
<1>6. \A y \in S : b - y \in T
  OBVIOUS
<1>7. \A y \in S : y <= x
  <2> HIDE DEF T, R
  <2> QED
    BY <1>4, <1>5, <1>6
<1> QED
  BY <1>7

\* What is left out of the n latest members is older than n of them.
LEMMA LatestAbove ==
    ASSUME NEW S \in SUBSET Nat, NEW b \in Nat, \A k \in S : k <= b,
           NEW n \in Nat, NEW o \in Nat, ~ (Cardinality({k \in S : k > o}) < n)
    PROVE  ~ (Cardinality({k \in Latest(n, S) : k > o}) < n)
<1> DEFINE A == {k \in S : k > o}
           L == Latest(n, S)
           W == {k \in L : k > o}
<1>1. SUFFICES ASSUME Cardinality(W) < n PROVE FALSE
  OBVIOUS
<1>2. L \subseteq S /\ W \subseteq A
  BY DEF Latest
<1>3. IsFiniteSet(S) /\ IsFiniteSet(A) /\ IsFiniteSet(W)
  <2>1. IsFiniteSet(S)
    BY FS_BoundedSetOfNaturals
  <2>2. A \in SUBSET S /\ W \in SUBSET S
    BY <1>2
  <2> QED
    BY <2>1, <2>2, FS_Subset
<1>4. A \ W # {}
  <2>1. A # W
    BY <1>1
  <2> QED
    BY <1>2, <2>1
<1>5. PICK x \in A \ W : \A y \in A \ W : y <= x
  <2>1. A \ W \in SUBSET Nat /\ \A k \in A \ W : k <= b
    OBVIOUS
  <2> HIDE DEF A, W
  <2> QED
    BY <1>4, <2>1, Greatest
<1>6. {j \in S : j > x} \in SUBSET W
  <2>1. ASSUME NEW j \in S, j > x PROVE j \in W
    <3>1. j \in A
      BY <1>5, <2>1
    <3>2. ~ (j \in A \ W)
      <4> HIDE DEF A, W
      <4>1. ASSUME j \in A \ W PROVE FALSE
        <5>1. j <= x /\ j \in Nat /\ x \in Nat
          BY <1>2, <1>5, <4>1 DEF A
        <5> QED
          BY <2>1, <5>1
      <4> QED
        BY <4>1
    <3> QED
      BY <3>1, <3>2
  <2> QED
    BY <2>1
<1>7. Cardinality({j \in S : j > x}) <= Cardinality(W) /\ Cardinality({j \in S : j > x}) \in Nat
        /\ Cardinality(W) \in Nat
  BY <1>3, <1>6, FS_Subset, FS_CardinalityType
<1>8. Cardinality({j \in S : j > x}) < n
  BY <1>1, <1>7
<1>9. x \in S /\ x \in L /\ x > o
  BY <1>5, <1>8 DEF Latest
<1> QED
  BY <1>5, <1>9

\* Of the occurrences of an interval, one that fire_once or catch_up leaves out
\* is older than as many selected ones as the policy allows.
LEMMA LeftOut ==
    ASSUME NEW d \in Definition, NEW from \in Nat, NEW to \in Nat,
           NEW n \in Nat, n = (IF d.misfire = "fire_once" THEN 1 ELSE d.catchUp),
           d.misfire # "skip", NEW o \in Between(d, from, to),
           o \notin Selected(d, Due(d, from, to), to)
    PROVE  ~ (Cardinality({k \in Selected(d, Due(d, from, to), to) : k > o}) < n)
<1> DEFINE B == Between(d, from, to)
           D == Due(d, from, to)
<1>1. B \in SUBSET Nat /\ (\A k \in B : k <= to) /\ o \in Nat
  BY DEF Between, Definition
<1>2. n > 0 /\ d.catchUp \in Nat /\ n <= d.catchUp
  BY DEF Definition
<1>3. Selected(d, D, to) = Latest(n, D)
  BY DEF Selected, Definition
<1>4. D \in SUBSET B
  BY DEF Due, Latest
<1>5. ~ (Cardinality({k \in D : k > o}) < n)
  <2>1. CASE o \in D
    BY <1>3, <2>1 DEF Latest
  <2>2. CASE o \notin D
    <3> DEFINE N == d.catchUp + 1
               C == {k \in D : k > o}
    <3>1. D = Latest(N, B) /\ N \in Nat
      BY <1>2, <2>2 DEF Due
    <3>2. ~ (Cardinality({k \in B : k > o}) < N)
      BY <2>2, <3>1 DEF Latest
    <3>3. ~ (Cardinality(C) < N)
      <4> HIDE DEF B, D, N
      <4>1. ~ (Cardinality({k \in Latest(N, B) : k > o}) < N)
        BY <1>1, <3>1, <3>2, LatestAbove
      <4> QED
        BY <3>1, <4>1
    <3>4. Cardinality(C) \in Nat
      <4>1. C \in SUBSET Nat /\ \A k \in C : k <= to
        BY <1>1, <1>4
      <4> HIDE DEF C
      <4> QED
        BY <4>1, FS_BoundedSetOfNaturals, FS_CardinalityType
    <3> QED
      BY <1>2, <3>3, <3>4
  <2> QED
    BY <2>1, <2>2
<1>6. D \in SUBSET Nat /\ \A k \in D : k <= to
  BY <1>1, <1>4
<1> HIDE DEF B, D
<1>7. ~ (Cardinality({k \in Latest(n, D) : k > o}) < n)
  BY <1>1, <1>5, <1>6, LatestAbove
<1> QED
  BY <1>3, <1>7 DEF D

\* There is one whole minute in an interval that is no longer than a minute.
LEMMA WholeMinute ==
    ASSUME NEW o \in Nat, o % Minute = 0, NEW to \in Nat, o <= to, to < o + Minute
    PROVE  o = to - (to % Minute)
<1> DEFINE q == o \div Minute
           r == to - o
<1>1. Minute \in Nat /\ Minute > 0
  BY TriggerConstants
<1>2. q \in Int /\ o = Minute * q
  BY <1>1
<1>3. to = Minute * q + r /\ r \in 0..(Minute - 1)
  BY <1>1, <1>2
<1>4. to % Minute = r
  <2>1. to % Minute \in 0..(Minute - 1) /\ to = Minute * (to \div Minute) + (to % Minute)
    BY <1>1
  <2> DEFINE p == to \div Minute
             t == to % Minute
  <2>2. p \in Int /\ t \in 0..(Minute - 1) /\ r \in 0..(Minute - 1)
    BY <1>1, <1>3, <2>1
  <2>3. Minute * p + t = Minute * q + r
    BY <1>3, <2>1
  <2> HIDE DEF p, t, q, r
  <2>4. Minute * (p - q) = r - t
    BY <1>1, <1>2, <2>2, <2>3
  <2>5. CASE p > q
    <3>1. Minute * (p - q) >= Minute
      BY <1>1, <1>2, <2>2, <2>5
    <3> QED
      BY <1>1, <2>2, <2>4, <3>1
  <2>6. CASE p < q
    <3>1. Minute * (p - q) <= 0 - Minute
      BY <1>1, <1>2, <2>2, <2>6
    <3> QED
      BY <1>1, <2>2, <2>4, <3>1
  <2>7. CASE p = q
    <3>1. Minute * p = Minute * q /\ Minute * q \in Int
      BY <1>1, <1>2, <2>7
    <3>2. r = t
      BY <2>2, <2>3, <3>1
    <3> QED
      BY <3>2 DEF t
  <2> QED
    BY <1>2, <2>2, <2>5, <2>6, <2>7
<1> QED
  BY <1>4

\* In an interval no longer than that between two cycles there is at most one
\* occurrence, and every policy keeps it; skip keeps that of a Cron schedule.
LEMMA Kept ==
    ASSUME NEW d \in Definitions, NEW from \in Nat, NEW to \in Nat, to <= from + Interval,
           NEW o \in Between(d, from, to),
           d.kind # "watch", ~ (d.kind = "timer" /\ d.misfire = "skip")
    PROVE  o \in Selected(d, Due(d, from, to), to)
<1> DEFINE B == Between(d, from, to)
<1>1. d \in Definition /\ Minute \in Nat /\ Interval \in Nat /\ Interval <= Minute
  BY TriggerConstants, TriggerDefinitions
<1>2. B \in SUBSET Nat /\ o \in Nat /\ from < o /\ o <= to
  BY <1>1 DEF Between, Definition
<1>3. d.kind = "cron" => \A k \in B : k = to - (to % Minute)
  <2>1. ASSUME d.kind = "cron", NEW k \in B PROVE k = to - (to % Minute)
    <3>1. k \in Nat /\ k % Minute = 0 /\ from < k /\ k <= to
      BY <1>2, <2>1, TriggerDefinitions DEF Between
    <3>2. to < k + Minute
      BY <1>1, <3>1
    <3> QED
      BY <3>1, <3>2, WholeMinute
  <2> QED
    BY <2>1
<1>4. \A k \in B : k = o
  <2>1. CASE d.kind = "cron"
    BY <1>3, <2>1
  <2>2. CASE d.kind = "timer"
    BY <2>2, TriggerDefinitions DEF Between
  <2> QED
    BY <1>1, <2>1, <2>2 DEF Definition
<1>5. \A S \in SUBSET B : {k \in S : k > o} = {}
  <2>1. ~ (o > o)
    BY <1>2
  <2> HIDE DEF B
  <2> QED
    BY <1>4, <2>1
<1>6. \A S \in SUBSET B : \A n \in Nat \ {0} : o \in S => o \in Latest(n, S)
  <2>1. Cardinality({}) = 0
    BY FS_EmptySet
  <2>2. ASSUME NEW S \in SUBSET B, NEW n \in Nat \ {0}, o \in S PROVE o \in Latest(n, S)
    <3>1. Cardinality({k \in S : k > o}) < n
      BY <1>5, <2>1, <2>2
    <3> QED
      BY <2>2, <3>1 DEF Latest
  <2> QED
    BY <2>2
<1>7. d.catchUp \in Nat \ {0} /\ d.catchUp + 1 \in Nat \ {0}
  BY <1>1 DEF Definition
<1> DEFINE D == Due(d, from, to)
<1>8. D \in SUBSET B /\ o \in D
  BY <1>6, <1>7 DEF Due, Latest
<1> HIDE DEF D
<1>9. o \in Latest(1, D) /\ o \in Latest(d.catchUp, D)
  BY <1>6, <1>7, <1>8
<1>10. d.kind = "cron" => o \in OnTime(d, D, to)
  BY <1>3, <1>8 DEF OnTime
<1>11. d.misfire = "skip" => d.kind = "cron"
  BY <1>1 DEF Definition
<1>12. o \in Selected(d, D, to)
  BY <1>1, <1>9, <1>10, <1>11 DEF Selected, Definition
<1> QED
  BY <1>12 DEF D

-----------------------------------------------------------------------------
(***************************************************************************)
(* What the steps do to the tables.                                        *)
(***************************************************************************)
LEMMA InitRInv == Init => RInv
<1> SUFFICES ASSUME Init PROVE RInv
  OBVIOUS
<1>1. Readings
  BY DEF Init, Readings, KeysSoFar, Baseline, AsRead, Defined, NoBase
<1>2. \A s \in Schedule : Passed(s) = {}
  BY DEF Init, Passed, NoDefinition
<1> QED
  BY <1>1, <1>2 DEF RInv, PassedOver, OnTimeFires

\* The steps of a cycle but the two transactions read the tables only.
LEMMA CycleReads ==
    ASSUME NEW c \in Core, Cycle(c), ~ EnqueueOccurrences(c), ~ Observe(c)
    PROVE  UNCHANGED <<now, head, def, base, rows, file, since, missed>>
<1>1. CASE BeginCycle(c) \/ EnsureLeader(c) \/ EnsureWriter(c) \/ Unlead(c) \/ Stop(c)
  BY <1>1 DEF BeginCycle, EnsureLeader, EnsureWriter, Unlead, Stop, tableVars, historyVars
<1>2. CASE ReleaseFirst(c) \/ ReleaseSecond(c)
  BY <1>2 DEF ReleaseFirst, ReleaseSecond, tableVars, historyVars
<1>3. CASE ListWatches(c) \/ EndWatches(c)
  BY <1>3 DEF ListWatches, EndWatches, tableVars, historyVars
<1>4. CASE ReadSchedule(c)
  BY <1>4 DEF ReadSchedule, tableVars, historyVars
<1>5. CASE Probe(c)
  BY <1>5 DEF Probe, tableVars, historyVars
<1> QED
  BY <1>1, <1>2, <1>3, <1>4, <1>5 DEF Cycle

\* enqueue_occurrences inserts the selected occurrences of the current version
\* and moves the cursor to the clock of the cycle, or it changes no table.
LEMMA EnqueueTables ==
    ASSUME Types, NEW c \in Core, EnqueueOccurrences(c)
    PROVE  LET m == mem[c]
               d == def[m.s]
           IN  /\ m.s \in Schedule /\ m.version \in Version /\ m.cursor \in Nat /\ m.clock \in Nat
               /\ UNCHANGED <<now, def, base, lease, file, since>>
               /\ \/ UNCHANGED <<rows, head, missed>>
                  \/ /\ lease["leader"].holder = c /\ pc[c] = "enqueue"
                     /\ head[m.s].version = m.version
                     /\ rows' = rows \cup {[s |-> m.s, version |-> m.version, of |-> "occurrence",
                                            at |-> o] :
                                    o \in Selected(d, Due(d, m.cursor, m.clock), m.clock)}
                     /\ head'[m.s].version = head[m.s].version
                     /\ head'[m.s].cursor = m.clock
                     /\ \A s \in Schedule \ {m.s} : head'[s] = head[s]
                     /\ \A s \in Schedule : missed[s] \subseteq missed'[s]
                     /\ m.clock > m.cursor + Interval =>
                          Between(d, m.cursor, m.clock) \subseteq missed'[m.s]
<1> DEFINE m == mem[c]
           d == def[m.s]
           B == Between(d, m.cursor, m.clock)
           sel == Selected(d, Due(d, m.cursor, m.clock), m.clock)
<1>1. pc[c] = "enqueue" /\ m \in Memory /\ m.s \in Schedule /\ m.version \in Version
        /\ m.cursor \in Nat /\ m.clock \in Nat
  BY DEF EnqueueOccurrences, Types, TypeOK, InHand, Memory
<1>2. UNCHANGED <<now, def, base, lease, file, since>>
  BY DEF EnqueueOccurrences
<1>3. CASE Holds(c, "leader", m.clock) /\ Current(c)
  <2>1. lease["leader"].holder = c /\ head[m.s].version = m.version
    BY <1>3 DEF Holds, Current
  <2>2. rows' = rows \cup {[s |-> m.s, version |-> m.version, of |-> "occurrence", at |-> o] :
                            o \in sel}
    BY <1>3 DEF EnqueueOccurrences
  <2>3. head' = [head EXCEPT ![m.s].cursor = m.clock]
    BY <1>3 DEF EnqueueOccurrences
  <2>4. head \in [Schedule -> HeadRow] /\ missed \in [Schedule -> SUBSET Nat]
    BY DEF Types, TypeOK
  <2>5. /\ head'[m.s].version = head[m.s].version /\ head'[m.s].cursor = m.clock
        /\ \A s \in Schedule \ {m.s} : head'[s] = head[s]
    <3> HIDE DEF m
    <3> QED
      BY <1>1, <2>3, <2>4 DEF HeadRow
  <2>6. missed' = IF m.clock > m.cursor + Interval
                  THEN [missed EXCEPT ![m.s] = @ \cup B] ELSE missed
    BY <1>3 DEF EnqueueOccurrences
  <2>7. /\ \A s \in Schedule : missed[s] \subseteq missed'[s]
        /\ m.clock > m.cursor + Interval => B \subseteq missed'[m.s]
    <3> HIDE DEF m, B
    <3> QED
      BY <1>1, <2>4, <2>6
  <2> QED
    BY <1>1, <1>2, <2>1, <2>2, <2>5, <2>7
<1>4. CASE ~ (Holds(c, "leader", m.clock) /\ Current(c))
  <2>1. UNCHANGED <<rows, head, missed>>
    BY <1>4 DEF EnqueueOccurrences
  <2> QED
    BY <1>1, <1>2, <2>1
<1> QED
  BY <1>3, <1>4

\* observe_watch writes the baseline, with a new key when it moves, or it
\* changes no table.
LEMMA ObserveTables ==
    ASSUME Types, NEW c \in Core, Observe(c)
    PROVE  LET m == mem[c]
               b == base[m.s]
               g == b.generation
               changed == b.row /\ b.print # 0 /\ m.print # 0 /\ b.print # m.print
               key == [s |-> m.s, version |-> m.version, of |-> "change", at |-> g + 1]
           IN  /\ m.s \in Schedule /\ m.version \in Version /\ m.print \in Nat
               /\ b \in BaseRow /\ g \in Nat
               /\ UNCHANGED <<now, head, def, lease, file, since, missed>>
               /\ \/ UNCHANGED <<base, rows>>
                  \/ /\ lease["leader"].holder = c /\ pc[c] = "observe"
                     /\ head[m.s].version = m.version
                     /\ \A s \in Schedule \ {m.s} : base'[s] = base[s]
                     /\ base'[m.s].row
                     /\ base'[m.s].print = IF m.print = 0 THEN b.print ELSE m.print
                     /\ \/ /\ changed /\ rows' = rows \cup {key}
                           /\ base'[m.s].generation = g + 1
                        \/ /\ ~ changed /\ rows' = rows
                           /\ base'[m.s].generation = g
<1> DEFINE m == mem[c]
           b == base[m.s]
           changed == b.row /\ b.print # 0 /\ m.print # 0 /\ b.print # m.print
           next == IF changed THEN b.generation + 1 ELSE b.generation
           print == IF m.print = 0 THEN b.print ELSE m.print
<1>1. pc[c] = "observe" /\ m \in Memory /\ m.s \in Schedule /\ m.version \in Version
        /\ m.print \in Nat
  BY DEF Observe, Types, TypeOK, InHand, Memory
<1>2. UNCHANGED <<now, head, def, lease, file, since, missed>>
  BY DEF Observe, historyVars
<1>3. b \in BaseRow /\ b.generation \in Nat
  BY <1>1 DEF Types, TypeOK, BaseRow
<1>4. CASE Observing(c)
  <2>1. lease["leader"].holder = c /\ head[m.s].version = m.version
    BY <1>4 DEF Observing, Holds, Current
  <2>2. base' = [base EXCEPT ![m.s] = [row |-> TRUE, generation |-> next, print |-> print]]
    BY <1>4 DEF Observe
  <2>3. rows' = IF ~changed THEN rows
                ELSE rows \cup {[s |-> m.s, version |-> m.version, of |-> "change", at |-> next]}
    BY <1>4 DEF Observe
  <2>4. base \in [Schedule -> BaseRow]
    BY DEF Types, TypeOK
  <2>5. /\ base'[m.s] = [row |-> TRUE, generation |-> next, print |-> print]
        /\ \A s \in Schedule \ {m.s} : base'[s] = base[s]
    <3> HIDE DEF m, next, print
    <3> QED
      BY <1>1, <2>2, <2>4
  <2>6. base'[m.s].row /\ base'[m.s].print = print /\ base'[m.s].generation = next
    <3> HIDE DEF m, next, print
    <3> QED
      BY <2>5
  <2>7. CASE changed
    BY <1>1, <1>2, <1>3, <2>1, <2>3, <2>5, <2>6, <2>7
  <2>8. CASE ~changed
    BY <1>1, <1>2, <1>3, <2>1, <2>3, <2>5, <2>6, <2>8
  <2> QED
    BY <2>7, <2>8
<1>5. CASE ~Observing(c)
  <2>1. UNCHANGED <<base, rows>>
    BY <1>5 DEF Observe
  <2> QED
    BY <1>1, <1>2, <1>3, <2>1
<1> QED
  BY <1>4, <1>5

\* put_schedule advances the version by one, empties the baseline and begins a
\* history at the cursor.
LEMMA PutTables ==
    ASSUME Types, NEW s \in Schedule, NEW d \in Definitions, PutSchedule(s, d)
    PROVE  /\ head'[s].version = head[s].version + 1
           /\ head[s].version # 0 => head'[s].cursor = head[s].cursor
           /\ since'[s] = head'[s].cursor /\ def'[s] = d /\ base'[s] = NoBase
           /\ \A t \in Schedule \ {s} :
                /\ head'[t] = head[t] /\ def'[t] = def[t] /\ base'[t] = base[t]
                /\ since'[t] = since[t] /\ missed'[t] = missed[t]
           /\ UNCHANGED <<now, rows, lease, file, procVars>>
<1> DEFINE cursor == IF head[s].version = 0 THEN now ELSE head[s].cursor
<1>1. head' = [head EXCEPT ![s] = [version |-> head[s].version + 1, status |-> "enabled",
                                   cursor |-> cursor]]
  BY DEF PutSchedule, NextVersion
<1>2. head'[s].version = head[s].version + 1 /\ head'[s].cursor = cursor
        /\ \A t \in Schedule \ {s} : head'[t] = head[t]
  <2> HIDE DEF cursor
  <2> QED
    BY <1>1 DEF Types, TypeOK
<1> QED
  BY <1>2 DEF PutSchedule, Types, TypeOK

\* update_schedule_status changes the status.
LEMMA StatusTables ==
    ASSUME Types, NEW s \in Schedule, NEW status \in Moves, UpdateScheduleStatus(s, status)
    PROVE  /\ \A t \in Schedule : /\ head'[t].version = head[t].version
                                  /\ head'[t].cursor = head[t].cursor
           /\ UNCHANGED <<now, def, base, rows, lease, file, procVars, since, missed>>
<1>1. head' = [head EXCEPT ![s].status = status] /\ head \in [Schedule -> HeadRow]
  BY DEF UpdateScheduleStatus, Types, TypeOK
<1>2. \A t \in Schedule : head'[t].version = head[t].version /\ head'[t].cursor = head[t].cursor
  BY <1>1 DEF HeadRow
<1> QED
  BY <1>2 DEF UpdateScheduleStatus, historyVars

-----------------------------------------------------------------------------
(***************************************************************************)
(* The invariant is preserved.                                             *)
(***************************************************************************)
\* The columns that are compared.
LEMMA TableColumns ==
    ASSUME TypeOK
    PROVE  /\ now \in Nat /\ rows \subseteq Key
           /\ \A s \in Schedule : /\ head[s].version \in Version /\ head[s].version \in Nat
                                  /\ head[s].cursor \in Nat /\ since[s] \in Nat
                                  /\ base[s].print \in Nat /\ base[s].generation \in Nat
                                  /\ file[s] \in Nat /\ def[s] \in Definition
           /\ \A r \in rows : /\ r.s \in Schedule /\ r.version \in Nat /\ r.at \in Nat
                              /\ r.of \in {"occurrence", "change"}
  BY TriggerConstants DEF TypeOK, HeadRow, BaseRow, Version, Key

\* Every occurrence that is selected is due.
LEMMA SelectedDue ==
    ASSUME NEW d \in Definition, NEW from \in Nat, NEW to \in Nat,
           NEW o \in Selected(d, Due(d, from, to), to)
    PROVE  o \in d.at /\ o \in Nat /\ o <= to
<1>1. o \in Due(d, from, to)
  BY DEF Selected, Latest, OnTime
<1>2. o \in Between(d, from, to)
  BY <1>1 DEF Due, Latest
<1> QED
  BY <1>2 DEF Between, Definition

\* A key is inserted for the current version; the present is not before the
\* clock of the cycle.
LEMMA KeysStep ==
    ASSUME IInv, Readings, [Next]_vars
    PROVE  KeysSoFar'
<1>1. Types /\ TypeOK /\ KeysSoFar
  BY DEF IInv, Types, Readings
<1>2. CASE /\ now' \in {now, now + 1} /\ UNCHANGED <<head, base, rows>>
  BY <1>1, <1>2, TableColumns DEF KeysSoFar
<1>3. ASSUME NEW c \in Core, EnqueueOccurrences(c) PROVE KeysSoFar'
  <2> DEFINE m == mem[c]
             d == def[m.s]
             sel == Selected(d, Due(d, m.cursor, m.clock), m.clock)
             key(o) == [s |-> m.s, version |-> m.version, of |-> "occurrence", at |-> o]
  <2>1. m.s \in Schedule /\ m.version \in Version /\ m.cursor \in Nat /\ m.clock \in Nat
          /\ now' = now /\ base' = base
    BY <1>1, <1>3, EnqueueTables
  <2>2. CASE UNCHANGED <<rows, head>>
    BY <1>1, <2>1, <2>2 DEF KeysSoFar
  <2>3. CASE /\ head[m.s].version = m.version
             /\ rows' = rows \cup {key(o) : o \in sel}
             /\ head'[m.s].version = head[m.s].version
             /\ \A s \in Schedule \ {m.s} : head'[s] = head[s]
    <3>1. \A s \in Schedule : head'[s].version = head[s].version
      BY <2>3
    <3>2. \A o \in sel : o \in Nat /\ o <= now
      <4>1. m.clock <= now
        BY DEF IInv, Local
      <4>2. d \in Definition
        BY <1>1, <2>1, TableColumns
      <4>3. ASSUME NEW o \in sel PROVE o \in Nat /\ o <= now
        <5>1. o \in Nat /\ o <= m.clock
          <6> HIDE DEF m, d
          <6> QED
            BY <2>1, <4>2, SelectedDue
        <5> QED
          BY <1>1, <2>1, <4>1, <5>1, TableColumns
      <4> QED
        BY <4>3
    <3>3. ASSUME NEW r \in rows'
          PROVE  /\ r.version <= head'[r.s].version
                 /\ r.of = "occurrence" => r.at <= now'
                 /\ r.of = "change" /\ r.version = head'[r.s].version
                      => r.at <= base'[r.s].generation
      <4>1. CASE r \in rows
        <5> QED
          BY <1>1, <2>1, <3>1, <4>1, TableColumns DEF KeysSoFar
      <4>2. ASSUME NEW o \in sel, r = key(o)
            PROVE  /\ r.version <= head'[r.s].version
                   /\ r.of = "occurrence" /\ r.at <= now'
        <5>1. r.s = m.s /\ r.version = m.version /\ r.of = "occurrence" /\ r.at = o
          BY <4>2
        <5>2. head'[m.s].version = m.version /\ m.version \in Nat
          BY <1>1, <2>1, <2>3, TableColumns
        <5> HIDE DEF m, sel
        <5> QED
          BY <2>1, <3>2, <5>1, <5>2
      <4> QED
        BY <2>3, <3>3, <4>1, <4>2
    <3> QED
      BY <3>3 DEF KeysSoFar
  <2> QED
    BY <1>1, <1>3, <2>2, <2>3, EnqueueTables
<1>4. ASSUME NEW c \in Core, Observe(c) PROVE KeysSoFar'
  <2> DEFINE m == mem[c]
             g == base[m.s].generation
             key == [s |-> m.s, version |-> m.version, of |-> "change", at |-> g + 1]
  <2>1. m.s \in Schedule /\ m.version \in Version /\ now' = now /\ head' = head /\ g \in Nat
    BY <1>1, <1>4, ObserveTables
  <2>2. CASE UNCHANGED <<base, rows>>
    BY <1>1, <2>1, <2>2 DEF KeysSoFar
  <2>3. CASE /\ head[m.s].version = m.version
             /\ \A s \in Schedule \ {m.s} : base'[s] = base[s]
             /\ \/ rows' = rows \cup {key} /\ base'[m.s].generation = g + 1
                \/ rows' = rows /\ base'[m.s].generation = g
    <3>1. \A s \in Schedule : base'[s].generation \in Nat
                                /\ base[s].generation <= base'[s].generation
      BY <1>1, <2>1, <2>3, TableColumns
    <3>2. ASSUME NEW r \in rows'
          PROVE  /\ r.version <= head[r.s].version
                 /\ r.of = "occurrence" => r.at <= now
                 /\ r.of = "change" /\ r.version = head[r.s].version
                      => r.at <= base'[r.s].generation
      <4>1. CASE r \in rows
        <5>1. r.s \in Schedule /\ r.at \in Nat /\ base[r.s].generation \in Nat
          BY <1>1, <4>1, TableColumns
        <5> QED
          BY <1>1, <3>1, <4>1, <5>1 DEF KeysSoFar
      <4>2. CASE r = key /\ base'[m.s].generation = g + 1
        <5>1. r.s = m.s /\ r.version = m.version /\ r.of = "change" /\ r.at = g + 1
          BY <4>2
        <5>2. m.version \in Nat
          BY <1>1, <2>1, <2>3, TableColumns
        <5> QED
          BY <2>1, <2>3, <4>2, <5>1, <5>2
      <4> QED
        BY <2>3, <3>2, <4>1, <4>2
    <3> QED
      BY <2>1, <3>2 DEF KeysSoFar
  <2> QED
    BY <1>1, <1>4, <2>2, <2>3, ObserveTables
<1>5. ASSUME NEW s \in Schedule, NEW d \in Definitions, PutSchedule(s, d) PROVE KeysSoFar'
  <2>1. /\ head'[s].version = head[s].version + 1
        /\ \A t \in Schedule \ {s} : head'[t] = head[t] /\ base'[t] = base[t]
        /\ now' = now /\ rows' = rows
    BY <1>1, <1>5, PutTables
  <2>2. ASSUME NEW r \in rows
        PROVE  /\ r.version <= head'[r.s].version
               /\ r.of = "occurrence" => r.at <= now
               /\ r.of = "change" /\ r.version = head'[r.s].version
                    => r.at <= base'[r.s].generation
    <3>1. /\ r.s \in Schedule /\ r.version \in Nat /\ head[r.s].version \in Nat
          /\ r.version <= head[r.s].version
          /\ r.of = "occurrence" => r.at <= now
          /\ r.of = "change" /\ r.version = head[r.s].version => r.at <= base[r.s].generation
      BY <1>1, TableColumns DEF KeysSoFar
    <3>2. CASE r.s = s
      <4>1. r.version <= head'[r.s].version /\ r.version # head'[r.s].version
        BY <2>1, <3>1, <3>2
      <4> QED
        BY <3>1, <4>1
    <3>3. CASE r.s # s
      BY <2>1, <3>1, <3>3
    <3> QED
      BY <3>2, <3>3
  <2> QED
    BY <2>1, <2>2 DEF KeysSoFar
<1>6. ASSUME NEW s \in Schedule, NEW status \in Moves, UpdateScheduleStatus(s, status)
      PROVE  KeysSoFar'
  BY <1>1, <1>6, StatusTables, TableColumns DEF KeysSoFar
<1>7. ASSUME NEW c \in Core, Cycle(c), ~ EnqueueOccurrences(c), ~ Observe(c) PROVE KeysSoFar'
  BY <1>2, <1>7, CycleReads
<1>8. CASE (\E c \in Core : Crash(c)) \/ (\E s \in Schedule : ChangeFile(s)) \/ Tick
  BY <1>2, <1>8 DEF Crash, ChangeFile, Tick, tableVars
<1>9. CASE UNCHANGED vars
  BY <1>2, <1>9 DEF vars
<1> QED
  BY <1>3, <1>4, <1>5, <1>6, <1>7, <1>8, <1>9 DEF Next, Environment

\* A baseline takes the fingerprint of the probe, which is not ahead of the file.
LEMMA BaselineStep ==
    ASSUME Types, Readings, [Next]_vars, NEW s \in Schedule
    PROVE  Baseline(s)'
<1>1. /\ TypeOK /\ Baseline(s)
      /\ base[s].print \in Nat /\ file[s] \in Nat
  BY TableColumns DEF Types, Readings
<1>2. CASE base' = base /\ file' = file
  BY <1>1, <1>2 DEF Baseline
<1>3. ASSUME NEW c \in Core, Observe(c) PROVE Baseline(s)'
  <2> DEFINE m == mem[c]
  <2>1. m.s \in Schedule /\ m.print \in Nat /\ file' = file
    BY <1>3, ObserveTables
  <2>2. CASE UNCHANGED <<base, rows>>
    BY <1>2, <2>1, <2>2
  <2>3. CASE /\ pc[c] = "observe"
             /\ \A t \in Schedule \ {m.s} : base'[t] = base[t]
             /\ base'[m.s].row
             /\ base'[m.s].print = IF m.print = 0 THEN base[m.s].print ELSE m.print
    <3>1. m.print <= file[m.s]
      BY <2>3 DEF Readings, AsRead
    <3>2. CASE s = m.s
      <4>1. base'[s].row /\ base'[s].print \in {base[s].print, m.print}
        BY <2>3, <3>2
      <4> QED
        BY <1>1, <2>1, <3>1, <3>2, <4>1 DEF Baseline
    <3>3. CASE s # m.s
      BY <1>1, <2>1, <2>3, <3>3 DEF Baseline
    <3> QED
      BY <3>2, <3>3
  <2> QED
    BY <1>3, <2>2, <2>3, ObserveTables
<1>4. ASSUME NEW t \in Schedule, NEW d \in Definitions, PutSchedule(t, d) PROVE Baseline(s)'
  <2>1. base'[s] \in {base[s], NoBase} /\ file' = file
    BY <1>4, PutTables
  <2>2. NoBase.print = 0
    BY DEF NoBase
  <2>3. CASE base'[s] = NoBase
    <3>1. base'[s].print = 0 /\ file'[s] \in Nat
      BY <1>1, <2>1, <2>2, <2>3
    <3> QED
      BY <3>1 DEF Baseline
  <2>4. CASE base'[s] = base[s]
    BY <1>1, <2>1, <2>4 DEF Baseline
  <2> QED
    BY <2>1, <2>3, <2>4
<1>5. ASSUME NEW t \in Schedule, ChangeFile(t) PROVE Baseline(s)'
  <2>1. file' = [file EXCEPT ![t] = file[t] + 1] /\ file \in [Schedule -> Nat] /\ base' = base
    BY <1>1, <1>5 DEF ChangeFile, tableVars, TypeOK
  <2>2. file'[s] \in Nat /\ file[s] <= file'[s]
    BY <1>1, <2>1
  <2> QED
    BY <1>1, <2>1, <2>2 DEF Baseline
<1>6. ASSUME NEW t \in Schedule, NEW status \in Moves, UpdateScheduleStatus(t, status)
      PROVE  Baseline(s)'
  BY <1>2, <1>6, StatusTables
<1>7. ASSUME NEW c \in Core, EnqueueOccurrences(c) PROVE Baseline(s)'
  BY <1>2, <1>7, EnqueueTables
<1>8. ASSUME NEW c \in Core, Cycle(c), ~ EnqueueOccurrences(c), ~ Observe(c) PROVE Baseline(s)'
  BY <1>2, <1>8, CycleReads
<1>9. CASE (\E c \in Core : Crash(c)) \/ Tick
  BY <1>2, <1>9 DEF Crash, Tick, tableVars
<1>10. CASE UNCHANGED vars
  BY <1>2, <1>10 DEF vars
<1> QED
  BY <1>3, <1>4, <1>5, <1>6, <1>7, <1>8, <1>9, <1>10 DEF Next, Environment

\* No Core makes another one the leader.
LEMMA LeaderOthers ==
    ASSUME TypeOK, NEW d \in Core, Cycle(d), NEW c \in Core \ {d},
           lease'["leader"].holder = c
    PROVE  lease["leader"].holder = c
<1>1. "leader" \in Kind /\ "writer" \in Kind /\ c # Nobody /\ NoRow.holder = Nobody
        /\ Grant(d).holder = d /\ lease \in [Kind -> LeaseRow]
  BY TriggerConstants, GrantType DEF Kind, TypeOK
<1>2. \A k \in Kind : Released(d, k)["leader"] \in {lease["leader"], NoRow}
  BY <1>1 DEF Released
<1>3. FirstReleased \in Kind
  BY DEF FirstReleased, Kind
<1>4. lease'["leader"] \in {lease["leader"], NoRow, Grant(d)}
  <2>1. CASE EnsureLeader(d) \/ EnsureWriter(d)
    BY <1>1, <2>1 DEF EnsureLeader, EnsureWriter
  <2>2. CASE Unlead(d) \/ ReleaseFirst(d) \/ ReleaseSecond(d)
    BY <1>1, <1>2, <1>3, <2>2, SecondIsLeader DEF Unlead, ReleaseFirst, ReleaseSecond
  <2>3. CASE lease' = lease
    BY <2>3
  <2>4. ASSUME \/ BeginCycle(d) \/ Stop(d) \/ ReadSchedule(d) \/ EnqueueOccurrences(d)
               \/ ListWatches(d) \/ Probe(d) \/ Observe(d) \/ EndWatches(d)
        PROVE  lease' = lease
    <3>1. CASE BeginCycle(d) \/ Stop(d)
      BY <3>1 DEF BeginCycle, Stop
    <3>6. CASE ReadSchedule(d)
      BY <3>6 DEF ReadSchedule
    <3>2. CASE EnqueueOccurrences(d)
      BY <3>2 DEF EnqueueOccurrences
    <3>3. CASE Probe(d)
      BY <3>3 DEF Probe
    <3>4. CASE Observe(d)
      BY <3>4 DEF Observe
    <3>5. CASE ListWatches(d) \/ EndWatches(d)
      BY <3>5 DEF ListWatches, EndWatches
    <3> QED
      BY <2>4, <3>1, <3>2, <3>3, <3>4, <3>5, <3>6
  <2> QED
    BY <2>1, <2>2, <2>3, <2>4 DEF Cycle
<1> QED
  BY <1>1, <1>4

\* The readings of a Core while another one, or none, takes a step: the leader
\* alone moves cursors and baselines.
LEMMA ReadingKept ==
    ASSUME Types, NEW c \in Core, AsRead(c), pc'[c] = pc[c], mem'[c] = mem[c],
           lease'["leader"].holder = c => lease["leader"].holder = c,
           mem[c].s \in Schedule =>
             LET s == mem[c].s
             IN  /\ head[s].version > 0 => head'[s].version > 0
                 /\ file[s] <= file'[s] /\ file'[s] \in Nat
                 /\ lease["leader"].holder = c =>
                      /\ head[s].version > 0 => head'[s].cursor = head[s].cursor
                      /\ base'[s].print \in {0, base[s].print}
    PROVE  AsRead(c)'
<1> DEFINE s == mem[c].s
           m == mem[c]
<1>1. pc[c] \in {"enqueue", "observe"} => s \in Schedule
  BY DEF Types, InHand
<1>2. m.print \in Nat /\ (s \in Schedule => file[s] \in Nat /\ base[s].print \in Nat)
  BY TableColumns DEF Types, TypeOK, Memory
<1>3. pc[c] = "enqueue" => /\ head'[s].version > 0
                           /\ lease'["leader"].holder = c => m.cursor = head'[s].cursor
  BY <1>1 DEF AsRead
<1>4. pc[c] = "observe" => /\ m.print <= file'[s]
                           /\ (lease'["leader"].holder = c /\ m.print # 0)
                                => base'[s].print <= m.print
  BY <1>1, <1>2 DEF AsRead
<1> QED
  BY <1>3, <1>4 DEF AsRead

\* The steps that read a schedule are those after which it is in hand.
LEMMA Entering ==
    ASSUME Types, NEW c \in Core, Cycle(c), pc'[c] \in {"enqueue", "observe"}
    PROVE  /\ pc'[c] = "enqueue" => ReadSchedule(c)
           /\ pc'[c] = "observe" => Probe(c)
<1>1. pc \in [Core -> Label]
  BY DEF Types, TypeOK
<1>2. CASE BeginCycle(c) \/ Stop(c) \/ EnsureLeader(c) \/ EnsureWriter(c)
  BY <1>1, <1>2 DEF BeginCycle, Stop, EnsureLeader, EnsureWriter, Goto
<1>3. CASE Unlead(c) \/ ReleaseFirst(c) \/ ReleaseSecond(c)
  BY <1>1, <1>3 DEF Unlead, ReleaseFirst, ReleaseSecond, Goto
<1>4. CASE EnqueueOccurrences(c)
  BY <1>1, <1>4 DEF EnqueueOccurrences, Goto
<1>5. CASE Observe(c)
  BY <1>1, <1>5 DEF Observe, Goto
<1>6. CASE ListWatches(c) \/ EndWatches(c)
  BY <1>1, <1>6 DEF ListWatches, EndWatches, Goto
<1>7. ASSUME ReadSchedule(c) PROVE pc'[c] # "observe"
  <2>1. pc[c] = "schedules" /\ pc' \in {pc, [pc EXCEPT ![c] = "enqueue"]}
    BY <1>7, Zenon DEF ReadSchedule, Goto
  <2> QED
    BY <1>1, <2>1
<1>8. ASSUME Probe(c) PROVE pc'[c] = "observe"
  <2>1. pc' = [pc EXCEPT ![c] = "observe"]
    BY <1>8, Zenon DEF Probe, Goto
  <2> QED
    BY <1>1, <2>1
<1> QED
  BY <1>2, <1>3, <1>4, <1>5, <1>6, <1>7, <1>8 DEF Cycle

\* What a Core reads is what the tables have.
LEMMA ReadingTaken ==
    ASSUME Types, Types', Readings, NEW c \in Core, Cycle(c)
    PROVE  AsRead(c)'
<1>1. SUFFICES ASSUME pc'[c] \in {"enqueue", "observe"} PROVE AsRead(c)'
  BY DEF AsRead
<1>2. mem[c] \in Memory /\ mem \in [Core -> Memory] /\ pc \in [Core -> Label]
  BY DEF Types, TypeOK
<1>3. CASE pc'[c] = "enqueue"
  <2>1. ReadSchedule(c)
    BY <1>1, <1>3, Entering
  <2> DEFINE taken(s) == [Without(mem[c], s) EXCEPT !.s = s, !.version = head[s].version,
                            !.cursor = head[s].cursor]
  <2>2. PICK s \in mem[c].todo :
          \/ s \in Enabled /\ mem' = [mem EXCEPT ![c] = taken(s)]
          \/ mem' = [mem EXCEPT ![c] = Without(mem[c], s)] /\ pc' = pc
    BY <2>1 DEF ReadSchedule
  <2>3. s \in Enabled /\ mem' = [mem EXCEPT ![c] = taken(s)]
    <3>1. pc[c] = "schedules"
      BY <2>1 DEF ReadSchedule
    <3> HIDE DEF taken
    <3> QED
      BY <1>3, <2>2, <3>1
  <2>9. head' = head
    BY <2>1, Zenon DEF ReadSchedule, tableVars
  <2>4. taken(s).s = s /\ taken(s).cursor = head[s].cursor
    BY <1>2 DEF Memory, Without
  <2> HIDE DEF taken
  <2>5. mem'[c].s = s /\ mem'[c].cursor = head'[s].cursor /\ head'[s].version > 0
    BY <1>2, <2>3, <2>4, <2>9 DEF Enabled
  <2> QED
    BY <1>3, <2>5 DEF AsRead
<1>4. CASE pc'[c] = "observe"
  <2>1. Probe(c)
    BY <1>1, <1>4, Entering
  <2> DEFINE probed(s, p) == [Without(mem[c], s) EXCEPT !.s = s, !.version = head[s].version,
                             !.print = p]
  <2>2. PICK s \in mem[c].todo : \E print \in {0, 1} :
          mem' = [mem EXCEPT ![c] = probed(s, print * file[s])]
    BY <2>1 DEF Probe
  <2>3. s \in Schedule
    BY <1>2 DEF Memory
  <2>4. file[s] \in Nat /\ base[s].print \in Nat /\ base[s].print <= file[s]
    BY <2>3, TableColumns DEF Types, Readings, Baseline
  <2>5. 0 * file[s] = 0 /\ 1 * file[s] = file[s]
    BY <2>4
  <2>6. PICK p \in {0, file[s]} : mem' = [mem EXCEPT ![c] = probed(s, p)]
    BY <2>2, <2>5
  <2>7. probed(s, p).s = s /\ probed(s, p).print = p
    BY <1>2 DEF Memory, Without
  <2> HIDE DEF probed
  <2>8. mem'[c].s = s /\ mem'[c].print = p
    BY <1>2, <2>6, <2>7
  <2>9. file' = file /\ base' = base
    BY <2>1, Zenon DEF Probe, tableVars
  <2> QED
    BY <1>4, <2>4, <2>6, <2>8, <2>9 DEF AsRead
<1> QED
  BY <1>1, <1>3, <1>4

\* Readings stay true: a Core that is not the leader any more commits nothing.
LEMMA AsReadStep ==
    ASSUME Types, Types', Readings, [Next]_vars, NEW c \in Core
    PROVE  AsRead(c)'
<1>1. AsRead(c) /\ TypeOK /\ mem[c] \in Memory
  BY DEF Readings, Types, TypeOK
<1>2. \A s \in Schedule : /\ head[s].version \in Nat /\ file[s] \in Nat
                          /\ base[s].print \in Nat
  BY <1>1, TableColumns
<1>3. ASSUME NEW d \in Core, Cycle(d) PROVE AsRead(c)'
  <2>1. CASE d = c
    BY <1>3, <2>1, ReadingTaken
  <2>2. CASE d # c
    <3>1. pc'[c] = pc[c] /\ mem'[c] = mem[c]
            /\ (lease'["leader"].holder = c => lease["leader"].holder = c)
      BY <1>1, <1>3, <2>2, CycleOthers, LeaderOthers DEF Others
    <3>2. CASE EnqueueOccurrences(d)
      <4>1. /\ file' = file /\ base' = base
            /\ \A s \in Schedule : head'[s].version = head[s].version
            /\ lease["leader"].holder # d => head' = head
        BY <3>2, EnqueueTables
      <4> QED
        BY <1>1, <1>2, <2>2, <3>1, <4>1, ReadingKept
    <3>3. CASE Observe(d)
      <4>1. /\ file' = file /\ head' = head
            /\ lease["leader"].holder # d => base' = base
        BY <3>3, ObserveTables
      <4> QED
        BY <1>1, <1>2, <2>2, <3>1, <4>1, ReadingKept
    <3>4. CASE ~ EnqueueOccurrences(d) /\ ~ Observe(d)
      <4>1. file' = file /\ head' = head /\ base' = base
        BY <1>3, <3>4, CycleReads
      <4> QED
        BY <1>1, <1>2, <3>1, <4>1, ReadingKept
    <3> QED
      BY <3>2, <3>3, <3>4
  <2> QED
    BY <2>1, <2>2
<1>4. ASSUME NEW t \in Schedule, NEW d \in Definitions, PutSchedule(t, d) PROVE AsRead(c)'
  <2>1. pc' = pc /\ mem' = mem /\ lease' = lease /\ file' = file
    BY <1>4, PutTables DEF procVars
  <2>2. \A s \in Schedule :
          /\ head[s].version > 0 => head'[s].version > 0 /\ head'[s].cursor = head[s].cursor
          /\ base'[s].print \in {0, base[s].print}
    BY <1>2, <1>4, PutTables DEF NoBase
  <2> QED
    BY <1>1, <1>2, <2>1, <2>2, ReadingKept
<1>5. ASSUME NEW t \in Schedule, NEW status \in Moves, UpdateScheduleStatus(t, status)
      PROVE  AsRead(c)'
  <2>1. pc' = pc /\ mem' = mem /\ lease' = lease /\ file' = file /\ base' = base
    BY <1>5, StatusTables DEF procVars
  <2>2. \A s \in Schedule : head'[s].version = head[s].version /\ head'[s].cursor = head[s].cursor
    BY <1>5, StatusTables
  <2> QED
    BY <1>1, <1>2, <2>1, <2>2, ReadingKept
<1>6. ASSUME NEW t \in Schedule, ChangeFile(t) PROVE AsRead(c)'
  <2>1. pc' = pc /\ mem' = mem /\ lease' = lease /\ head' = head /\ base' = base
          /\ file' = [file EXCEPT ![t] = file[t] + 1] /\ file \in [Schedule -> Nat]
    BY <1>1, <1>6 DEF ChangeFile, procVars, tableVars, TypeOK
  <2>2. \A s \in Schedule : file'[s] \in Nat /\ file[s] <= file'[s]
    BY <1>2, <2>1
  <2> QED
    BY <1>1, <1>2, <2>1, <2>2, ReadingKept
<1>7. ASSUME NEW d \in Core, Crash(d) PROVE AsRead(c)'
  <2>1. file' = file /\ head' = head /\ base' = base /\ lease' = lease
    BY <1>7 DEF Crash, tableVars
  <2>2. pc'[c] = IF c = d THEN "idle" ELSE pc[c]
    BY <1>1, <1>7 DEF Crash, Goto, TypeOK
  <2>3. c # d => mem'[c] = mem[c]
    BY <1>1, <1>7 DEF Crash, TypeOK
  <2>4. CASE c = d
    BY <2>2, <2>4 DEF AsRead
  <2>5. CASE c # d
    BY <1>1, <1>2, <2>1, <2>2, <2>3, <2>5, ReadingKept
  <2> QED
    BY <2>4, <2>5
<1>8. CASE Tick \/ UNCHANGED vars
  <2>1. UNCHANGED <<head, base, file, lease, pc, mem>>
    BY <1>8 DEF Tick, vars, tableVars, procVars
  <2> QED
    BY <1>1, <1>2, <2>1, ReadingKept
<1> QED
  BY <1>3, <1>4, <1>5, <1>6, <1>7, <1>8 DEF Next, Environment

LEMMA DefinedStep ==
    ASSUME Types, Defined, [Next]_vars
    PROVE  Defined'
<1>1. CASE def' = def
  BY <1>1 DEF Defined
<1>2. ASSUME NEW s \in Schedule, NEW d \in Definitions, PutSchedule(s, d) PROVE Defined'
  BY <1>2, PutTables DEF Defined
<1>3. ASSUME NEW c \in Core, Cycle(c) PROVE def' = def
  BY <1>3, EnqueueTables, ObserveTables, CycleReads
<1>4. ASSUME NEW s \in Schedule, NEW status \in Moves, UpdateScheduleStatus(s, status)
      PROVE  def' = def
  BY <1>4, StatusTables
<1>5. CASE (\E c \in Core : Crash(c)) \/ (\E s \in Schedule : ChangeFile(s)) \/ Tick
             \/ UNCHANGED vars
  BY <1>1, <1>5 DEF Crash, ChangeFile, Tick, tableVars, vars
<1> QED
  BY <1>1, <1>2, <1>3, <1>4, <1>5 DEF Next, Environment

-----------------------------------------------------------------------------
(***************************************************************************)
(* Occurrences that the cursor has passed.                                 *)
(***************************************************************************)
\* The two promises, of one occurrence.
Policy(s) == IF def[s].misfire = "fire_once" THEN 1 ELSE def[s].catchUp
Later(s, o) == {k \in def[s].at : k > o /\ Requested(s, k)}
CaughtUp(s, o) ==
    \/ def[s].kind = "watch" \/ def[s].misfire = "skip" \/ Requested(s, o)
    \/ Cardinality(Later(s, o)) >= Policy(s)
Fired(s, o) ==
    def[s].kind = "watch" \/ (def[s].kind = "timer" /\ def[s].misfire = "skip") \/ Requested(s, o)

Answered(s) ==
    \A o \in Passed(s) : CaughtUp(s, o) /\ (o \notin missed[s] => Fired(s, o))

LEMMA Promises == (\A s \in Schedule : Answered(s)) <=> PassedOver /\ OnTimeFires
<1>1. (\A s \in Schedule : \A o \in Passed(s) : CaughtUp(s, o)) <=> PassedOver
  BY DEF PassedOver, CaughtUp, Later, Policy
<1>2. (\A s \in Schedule : \A o \in Passed(s) : o \notin missed[s] => Fired(s, o)) <=> OnTimeFires
  BY DEF OnTimeFires, Fired
<1> QED
  BY <1>1, <1>2 DEF Answered

\* No request is withdrawn, so the requests after an occurrence only grow; they
\* are finitely many, none being ahead of its time.
LEMMA LaterGrows ==
    ASSUME TypeOK, TypeOK', KeysSoFar', NEW s \in Schedule, NEW o,
           def'[s] = def[s], head'[s].version = head[s].version, rows \subseteq rows'
    PROVE  /\ Later(s, o) \subseteq Later(s, o)'
           /\ IsFiniteSet(Later(s, o)')
           /\ Requested(s, o) => Requested(s, o)'
<1>1. \A k : Requested(s, k) => Requested(s, k)'
  BY DEF Requested
<1>2. Later(s, o) \subseteq Later(s, o)'
  BY <1>1 DEF Later
<1>3. now' \in Nat /\ def'[s].at \in SUBSET Nat
  BY DEF TypeOK, Definition
<1>4. ASSUME NEW k \in Later(s, o)' PROVE k \in Nat /\ k <= now'
  <2> DEFINE r == [s |-> s, version |-> head'[s].version, of |-> "occurrence", at |-> k]
  <2>1. k \in def'[s].at /\ r \in rows' /\ r.of = "occurrence" /\ r.at = k
    BY <1>4 DEF Later, Requested
  <2> HIDE DEF r
  <2> QED
    BY <1>3, <2>1 DEF KeysSoFar
<1> DEFINE L == Later(s, o)'
<1>5. L \in SUBSET Nat /\ \A k \in L : k <= now'
  BY <1>4
<1>6. IsFiniteSet(L)
  <2> HIDE DEF L
  <2> QED
    BY <1>3, <1>5, FS_BoundedSetOfNaturals
<1> QED
  BY <1>1, <1>2, <1>6

\* What was promised of an occurrence stays so while the version is the same.
LEMMA StaysAnswered ==
    ASSUME TypeOK, TypeOK', KeysSoFar', NEW s \in Schedule, NEW o,
           def'[s] = def[s], head'[s].version = head[s].version, rows \subseteq rows'
    PROVE  /\ CaughtUp(s, o) => CaughtUp(s, o)'
           /\ Fired(s, o) => Fired(s, o)'
<1>1. Policy(s)' = Policy(s) /\ Policy(s) \in Nat
  BY DEF Policy, TypeOK, Definition
<1> DEFINE A == Later(s, o)
           B == Later(s, o)'
<1>2. A \in SUBSET B /\ IsFiniteSet(B) /\ (Requested(s, o) => Requested(s, o)')
  BY LaterGrows
<1>3. Cardinality(A) <= Cardinality(B) /\ Cardinality(A) \in Nat /\ Cardinality(B) \in Nat
  <2> HIDE DEF A, B
  <2> QED
    BY <1>2, FS_Subset, FS_CardinalityType
<1>4. Cardinality(A) >= Policy(s) => Cardinality(B) >= Policy(s)
  <2> HIDE DEF A, B
  <2> QED
    BY <1>1, <1>3
<1> QED
  BY <1>1, <1>2, <1>4 DEF CaughtUp, Fired

\* A schedule that the transaction of another one, or none, is about.
LEMMA Unpassed ==
    ASSUME TypeOK, TypeOK', KeysSoFar', NEW s \in Schedule, Answered(s),
           def'[s] = def[s], head'[s].version = head[s].version, rows \subseteq rows',
           head'[s].cursor = head[s].cursor, since'[s] = since[s], missed[s] \subseteq missed'[s]
    PROVE  Answered(s)'
<1>1. Passed(s)' = Passed(s)
  BY DEF Passed
<1> QED
  BY <1>1, StaysAnswered DEF Answered

\* enqueue_occurrences: what the cursor passes is what was due.
LEMMA EnqueueAnswered ==
    ASSUME IInv, Types', RInv, KeysSoFar', NEW c \in Core, EnqueueOccurrences(c),
           NEW s \in Schedule, Answered(s)
    PROVE  Answered(s)'
<1> DEFINE m == mem[c]
           d == def[m.s]
           B == Between(d, m.cursor, m.clock)
           sel == Selected(d, Due(d, m.cursor, m.clock), m.clock)
           key(o) == [s |-> m.s, version |-> m.version, of |-> "occurrence", at |-> o]
<1>1. TypeOK /\ TypeOK' /\ Types
  BY DEF IInv, Types
<1>2. m.s \in Schedule /\ m.version \in Version /\ m.cursor \in Nat /\ m.clock \in Nat
        /\ UNCHANGED <<now, def, base, lease, file, since>>
  BY <1>1, EnqueueTables
<1>3. CASE UNCHANGED <<rows, head, missed>>
  BY <1>1, <1>2, <1>3, Unpassed
<1>4. CASE /\ lease["leader"].holder = c /\ pc[c] = "enqueue"
           /\ head[m.s].version = m.version
           /\ rows' = rows \cup {key(o) : o \in sel}
           /\ head'[m.s].version = head[m.s].version
           /\ head'[m.s].cursor = m.clock
           /\ \A t \in Schedule \ {m.s} : head'[t] = head[t]
           /\ \A t \in Schedule : missed[t] \subseteq missed'[t]
           /\ m.clock > m.cursor + Interval => B \subseteq missed'[m.s]
  <2>1. CASE s # m.s
    BY <1>1, <1>2, <1>4, <2>1, Unpassed
  <2>2. CASE s = m.s
    <3>1. m.cursor = head[s].cursor
      BY <1>4, <2>2 DEF RInv, Readings, AsRead
    <3>2. head'[s].version = m.version /\ def'[s] = def[s] /\ since'[s] = since[s]
            /\ head'[s].version = head[s].version /\ head'[s].cursor = m.clock
            /\ missed[s] \subseteq missed'[s]
            /\ rows \subseteq rows'
      BY <1>2, <1>4, <2>2
    <3>3. \A o \in sel : Requested(s, o)'
      BY <1>4, <2>2, <3>2 DEF Requested
    <3>4. d \in Definition /\ d.at \in SUBSET Nat /\ since[s] \in Nat
      BY <1>1, <1>2, <2>2, TableColumns DEF Definition
    <3>5. ASSUME NEW o \in Passed(s)' PROVE o \in Passed(s) \/ o \in B
      <4>1. o \in d.at /\ since[s] < o /\ o <= m.clock
        BY <2>2, <3>2, <3>5 DEF Passed
      <4> QED
        BY <1>2, <2>2, <3>1, <3>4, <4>1 DEF Passed, Between
    <3>6. ASSUME NEW o \in Passed(s) PROVE CaughtUp(s, o)' /\ (o \notin missed'[s] => Fired(s, o)')
      BY <1>1, <3>2, <3>6, StaysAnswered DEF Answered
    <3>7. ASSUME NEW o \in B, d.kind # "watch", d.misfire # "skip", ~ Requested(s, o)'
          PROVE  Cardinality(Later(s, o)') >= Policy(s)'
      <4> DEFINE n == IF d.misfire = "fire_once" THEN 1 ELSE d.catchUp
                 W == {k \in sel : k > o}
                 L == Later(s, o)'
      <4>1. Policy(s)' = n /\ n \in Nat
        BY <2>2, <3>2, <3>4 DEF Policy, Definition
      <4>2. o \notin sel
        BY <3>3, <3>7
      <4>3. ~ (Cardinality(W) < n)
        <5> HIDE DEF m, d
        <5> QED
          BY <1>2, <3>4, <3>7, <4>1, <4>2, LeftOut
      <4>4. \A k \in sel : k \in d.at
        <5> HIDE DEF m, d
        <5> QED
          BY <1>2, <3>4, SelectedDue
      <4>5. W \in SUBSET L
        BY <2>2, <3>2, <3>3, <4>4 DEF Later
      <4>6. IsFiniteSet(L)
        BY <1>1, <3>2, LaterGrows
      <4>7. Cardinality(W) <= Cardinality(L) /\ Cardinality(W) \in Nat /\ Cardinality(L) \in Nat
        <5> HIDE DEF W, L
        <5> QED
          BY <4>5, <4>6, FS_Subset, FS_CardinalityType
      <4>8. Cardinality(L) >= n
        <5> HIDE DEF W, L, n
        <5> QED
          BY <4>1, <4>3, <4>7
      <4> QED
        BY <4>1, <4>8
    <3>8. ASSUME NEW o \in B PROVE CaughtUp(s, o)'
      BY <2>2, <3>2, <3>7, <3>8 DEF CaughtUp
    <3>9. ASSUME NEW o \in B, o \notin missed'[s] PROVE Fired(s, o)'
      <4>1. CASE d.kind = "watch"
        BY <2>2, <3>2, <4>1 DEF Fired
      <4>2. CASE d.kind # "watch" /\ ~ (d.kind = "timer" /\ d.misfire = "skip")
        <5>1. d \in Definitions
          BY <1>2, <4>2 DEF RInv, Readings, Defined, NoDefinition
        <5>2. Interval \in Nat /\ m.clock <= m.cursor + Interval
          BY <1>2, <1>4, <2>2, <3>9, TriggerConstants
        <5>3. o \in sel
          <6> HIDE DEF m, d
          <6> QED
            BY <1>2, <3>9, <4>2, <5>1, <5>2, Kept
        <5> QED
          BY <3>3, <5>3 DEF Fired
      <4>3. CASE d.kind = "timer" /\ d.misfire = "skip"
        BY <2>2, <3>2, <4>3 DEF Fired
      <4> QED
        BY <4>1, <4>2, <4>3
    <3> QED
      BY <3>5, <3>6, <3>8, <3>9 DEF Answered
  <2> QED
    BY <2>1, <2>2
<1> QED
  BY <1>1, <1>3, <1>4, EnqueueTables

LEMMA AnsweredStep ==
    ASSUME IInv, Types', RInv, KeysSoFar', [Next]_vars, NEW s \in Schedule
    PROVE  Answered(s)'
<1>1. Types /\ TypeOK /\ TypeOK' /\ Answered(s)
  BY Promises DEF IInv, Types, RInv
<1>2. CASE UNCHANGED <<head, def, since, missed>> /\ rows \subseteq rows'
  BY <1>1, <1>2, Unpassed
<1>3. ASSUME NEW c \in Core, EnqueueOccurrences(c) PROVE Answered(s)'
  BY <1>1, <1>3, EnqueueAnswered
<1>4. ASSUME NEW c \in Core, Observe(c)
      PROVE  UNCHANGED <<head, def, since, missed>> /\ rows \subseteq rows'
  BY <1>1, <1>4, ObserveTables
<1>5. ASSUME NEW c \in Core, Cycle(c), ~ EnqueueOccurrences(c), ~ Observe(c)
      PROVE  UNCHANGED <<head, def, since, missed>> /\ rows \subseteq rows'
  BY <1>5, CycleReads
<1>6. ASSUME NEW t \in Schedule, NEW d \in Definitions, PutSchedule(t, d) PROVE Answered(s)'
  <2>1. CASE s = t
    <3>1. since'[s] = head'[s].cursor /\ since'[s] \in Nat
      BY <1>1, <1>6, <2>1, PutTables DEF TypeOK
    <3>2. def'[s].at \subseteq Nat
      BY <1>1 DEF TypeOK, Definition
    <3>3. Passed(s)' = {}
      BY <3>1, <3>2 DEF Passed
    <3> QED
      BY <3>3 DEF Answered
  <2>2. CASE s # t
    BY <1>1, <1>6, <2>2, PutTables, Unpassed
  <2> QED
    BY <2>1, <2>2
<1>7. ASSUME NEW t \in Schedule, NEW status \in Moves, UpdateScheduleStatus(t, status)
      PROVE  Answered(s)'
  BY <1>1, <1>7, StatusTables, Unpassed
<1>8. CASE (\E c \in Core : Crash(c)) \/ (\E t \in Schedule : ChangeFile(t)) \/ Tick
             \/ UNCHANGED vars
  BY <1>2, <1>8 DEF Crash, ChangeFile, Tick, tableVars, historyVars, vars
<1> QED
  BY <1>2, <1>3, <1>4, <1>5, <1>6, <1>7, <1>8 DEF Next, Environment

LEMMA NextRInv == IInv /\ RInv /\ [Next]_vars => RInv'
<1> SUFFICES ASSUME IInv, RInv, [Next]_vars PROVE RInv'
  OBVIOUS
<1>1. Types /\ Types' /\ Readings
  BY NextIInv DEF IInv, RInv
<1>2. Readings'
  BY <1>1, KeysStep, BaselineStep, AsReadStep, DefinedStep DEF Readings
<1>3. (\A s \in Schedule : Answered(s))'
  BY <1>1, KeysStep, AnsweredStep
<1>4. PassedOver' /\ OnTimeFires'
  BY <1>3, Promises, PTL
<1> QED
  BY <1>2, <1>4 DEF RInv

\* The change of a watched file that is observed: the baseline and a new key.
LEMMA ObserveForward ==
    ASSUME Types, Readings, NEW c \in Core, Observe(c), NEW s \in Schedule,
           base[s].print # 0, base'[s].print # base[s].print
    PROVE  /\ base'[s].print > base[s].print
           /\ \E r \in rows' \ rows : r.s = s /\ r.of = "change"
<1> DEFINE m == mem[c]
           b == base[s]
           g == b.generation
           key == [s |-> s, version |-> m.version, of |-> "change", at |-> g + 1]
<1>1. m.s \in Schedule /\ m.version \in Version /\ m.print \in Nat
  BY ObserveTables
<1>2. /\ s = m.s /\ lease["leader"].holder = c /\ pc[c] = "observe"
      /\ head[s].version = m.version
      /\ base'[s].print = IF m.print = 0 THEN b.print ELSE m.print
      /\ (b.row /\ b.print # 0 /\ m.print # 0 /\ b.print # m.print) => rows' = rows \cup {key}
  BY ObserveTables
<1>3. m.print # 0 /\ b.print # m.print /\ base'[s].print = m.print
  BY <1>2
<1>4. b.row
  BY DEF Readings, Baseline
<1>5. b.print <= m.print /\ b.print \in Nat /\ g \in Nat
  BY <1>2, <1>3, TableColumns DEF Readings, AsRead, Types
<1>6. key \notin rows
  <2>1. key.s = s /\ key.version = head[s].version /\ key.of = "change" /\ key.at = g + 1
    BY <1>2
  <2>2. ~ (g + 1 <= g)
    BY <1>5
  <2> HIDE DEF key, g
  <2>3. key \in rows => key.at <= base[key.s].generation
    BY <2>1 DEF Readings, KeysSoFar
  <2> QED
    BY <2>1, <2>2, <2>3 DEF g
<1>7. key \in rows' /\ key.s = s /\ key.of = "change"
  BY <1>2, <1>3, <1>4
<1> QED
  BY <1>1, <1>3, <1>5, <1>6, <1>7

\* The step of a baseline.
Forward ==
    \A s \in Schedule :
        /\ head'[s].version = head[s].version
        /\ base[s].print # 0 /\ base'[s].print # base[s].print
        => /\ base'[s].print > base[s].print
           /\ \E r \in rows' \ rows : r.s = s /\ r.of = "change"

LEMMA ForwardStep ==
    ASSUME IInv, RInv, [Next]_vars
    PROVE  Forward
<1>1. Types /\ TypeOK /\ Readings
  BY DEF IInv, Types, RInv
<1>2. CASE base' = base
  BY <1>2 DEF Forward
<1>3. ASSUME NEW c \in Core, Observe(c) PROVE Forward
  BY <1>1, <1>3, ObserveForward DEF Forward
<1>4. ASSUME NEW c \in Core, Cycle(c), ~ Observe(c) PROVE base' = base
  BY <1>1, <1>4, EnqueueTables, CycleReads
<1>5. ASSUME NEW t \in Schedule, NEW d \in Definitions, PutSchedule(t, d) PROVE Forward
  <2>1. ASSUME NEW s \in Schedule, head'[s].version = head[s].version
        PROVE  base'[s] = base[s]
    <3>1. head[s].version \in Nat
      BY <1>1, TableColumns
    <3>2. s # t
      BY <1>1, <1>5, <2>1, <3>1, PutTables
    <3> QED
      BY <1>1, <1>5, <3>2, PutTables
  <2> QED
    BY <2>1 DEF Forward
<1>6. ASSUME NEW t \in Schedule, NEW status \in Moves, UpdateScheduleStatus(t, status)
      PROVE  base' = base
  BY <1>1, <1>6, StatusTables
<1>7. CASE (\E c \in Core : Crash(c)) \/ (\E t \in Schedule : ChangeFile(t)) \/ Tick
             \/ UNCHANGED vars
  BY <1>2, <1>7 DEF Crash, ChangeFile, Tick, tableVars, vars
<1> QED
  BY <1>2, <1>3, <1>4, <1>5, <1>6, <1>7 DEF Next, Environment

-----------------------------------------------------------------------------
(***************************************************************************)
(* The theorems about what is requested.                                   *)
(***************************************************************************)
\* What is requested agrees with the cursor, the baseline and the definition in
\* every reachable state.
THEOREM RequestInvariance == Spec => []RInv
  BY InitRInv, NextRInv, Invariance, PTL DEF Spec

\* An occurrence that the cursor has passed under fire_once or catch_up was
\* requested, or as many later ones as the policy allows were: whoever was
\* leader, and whatever users put or paused between the reading of a schedule
\* and its transaction (enqueue_occurrences).
THEOREM NothingPassedOver == Spec => []PassedOver
<1>1. RInv => PassedOver
  BY DEF RInv
<1> QED
  BY <1>1, RequestInvariance, PTL

\* No occurrence is lost to the misfire policy while the Scheduler is up, also
\* when another Core takes over: with at least a cycle a minute every due
\* occurrence is requested, under every policy (_apply_misfire).
THEOREM DueFires == Spec => []OnTimeFires
<1>1. RInv => OnTimeFires
  BY DEF RInv
<1> QED
  BY <1>1, RequestInvariance, PTL

\* The baseline of a watch never goes back, and never moves without a new
\* request, although the probe is taken before the transaction (observe_watch).
THEOREM BaselineForward == Spec => WatchForward
<1>1. IInv /\ RInv /\ [Next]_vars => [Forward]_vars
  BY ForwardStep
<1> QED
  BY <1>1, Invariance, RequestInvariance, PTL DEF Spec, WatchForward, Forward
=============================================================================
