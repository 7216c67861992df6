-------------------------- MODULE MCSchedulerTrigger --------------------------
(***************************************************************************)
(* Small instances of SchedulerTrigger for TLC.                            *)
(***************************************************************************)
EXTENDS SchedulerTrigger, TLC

\* A Cron expression that matches every minute, under a policy, or a watched file.
EveryMinute == {t \in 1..MaxTime : t % Minute = 0}
Cron(misfire) == [kind |-> "cron", at |-> EveryMinute, misfire |-> misfire, catchUp |-> 1]
Watch == [kind |-> "watch", at |-> {}, misfire |-> "skip", catchUp |-> 1]
Mixed == {Cron("skip"), Cron("catch_up"), Watch}
Second ==
    \A s \in Schedule :
        /\ def[s].kind = "watch" => head[s].version < MaxVersion
        /\ head[s].status = "paused" => def[s].misfire = "catch_up" /\ head[s].version < MaxVersion
        /\ head[s].version = MaxVersion => def[s].misfire = "catch_up"
CoreSymmetry == Permutations(Core)
=============================================================================
