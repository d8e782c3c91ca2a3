------------------------------- MODULE MCClock -------------------------------
(***************************************************************************)
(* What time drives: the task tables that the ticks run, and the alarms of *)
(* the real-time clock.  They share no state and are explored one at a     *)
(* time: part says which, and the other stays as it started.               *)
(***************************************************************************)
EXTENDS MCOsSched, Alarm

VARIABLE part

partVars == <<part, vars, alarmVars>>

\* A daily alarm, one that is due once and is set relative to now, and a weekly one of
\* the same second.
MCAlarmSetup ==
    {[kind |-> "daily", sec |-> 0, day |-> 0],
     [kind |-> "oneshot", sec |-> 2, day |-> DontCare],
     [kind |-> "weekly", sec |-> 2, day |-> 1]}

Ticks(A)  == part = "ticks" /\ A /\ UNCHANGED <<part, alarmVars>>
Alarms(A) == part = "alarm" /\ A /\ UNCHANGED <<part, vars>>

PartsInit == part \in {"ticks", "alarm"} /\ Init /\ AlarmInit
PartsNext == Ticks(Next) \/ Alarms(AlarmNext)

\* In a behaviour part does not change, so what is asked of both is asked of each.
PartsSpec ==
    /\ PartsInit /\ [][PartsNext]_partVars
    /\ WF_partVars(Ticks(SysTick_Handler) \/ Alarms(AlarmTick))
    /\ WF_partVars(Ticks(OS_BG_Update) \/ Alarms(rt_alarmsvc_thread))
    /\ WF_partVars(Alarms(alarm_update))
    /\ SF_partVars(Ticks(RunBg) \/ Alarms(alarm_update /\ late = 0 /\ current = 1))
    /\ SF_partVars(Ticks(EndDelay) \/ Alarms(alarm_update /\ late = 0 /\ current = 2))
    /\ SF_partVars(Alarms(alarm_update /\ late = 0 /\ current = 3))

\* The types of both.
TypesOK == TypeOK /\ AlarmTypeOK
=============================================================================
