-------------------------------- MODULE Alarm --------------------------------
(***************************************************************************)
(* The alarm service of drivers/rtc/alarm.c: many alarms on the one alarm  *)
(* of a real-time clock, which compares the second of the day.             *)
(*                                                                         *)
(* A call of a user is one step, made under the mutex.  alarm_update has   *)
(* two passes, each with its own reading of the time, and the clock may    *)
(* tick between them.  The device "rtc" is external; it takes every alarm, *)
(* to the second.  Callbacks do not call the service.                      *)
(*                                                                         *)
(* A day has DaySecs seconds and a week Week days.  The date of a one-shot *)
(* alarm is kept relative to today: what mktime returns is only ever       *)
(* subtracted.                                                             *)
(***************************************************************************)
EXTENDS Integers, SequencesExt

CONSTANTS
    AlarmId,        \* the alarms that may exist
    AlarmSetup,     \* what rt_alarm_create and rt_alarm_control are given
    DaySecs, Week,
    AlarmDelay,     \* RT_ALARM_DELAY
    MaxLate,        \* how many seconds after its event the service may run
    MaxCalls        \* bound on the calls of the users

ASSUME AlarmAssumption ==
    /\ DaySecs \in Nat /\ AlarmDelay \in 1 .. DaySecs - 1
    /\ Week \in Nat \ {0} /\ MaxLate \in Nat /\ MaxCalls \in Nat

VARIABLES
    alarms,         \* _container.head: the list, newest first
    alarm,          \* of each: kind, sec, day, and the bits of flag
    current,        \* _container.current
    rtc_alarm,      \* the alarm of the device: a second of the day, or NoAlarm
    clock,          \* [day |-> of the week, sec |-> of the day]
    alarm_event,    \* _container.event
    updating,       \* alarm_update is between its two passes
    late,           \* ticks since the event, or since the first pass
    woken,          \* history: the callbacks made by the last first pass
    calls           \* how many calls users have made

alarmVars == <<alarms, alarm, current, rtc_alarm, clock, alarm_event, updating,
               late, woken, calls>>

NoAlarm == -1
DontCare == -9          \* RT_ALARM_TM_NOW, or any value out of its range

ASSUME SetupAssumption ==
    \A setup \in AlarmSetup : setup.sec \in (0 .. DaySecs - 1) \cup {DontCare} /\ setup.day \in Int

Listed == ToSet(alarms)

Deleted == [kind |-> "none", sec |-> 0, day |-> 0, started |-> FALSE, inited |-> FALSE]

AlarmInit ==
    /\ alarms = <<>> /\ current = NoAlarm /\ rtc_alarm = NoAlarm
    /\ alarm = [a \in AlarmId |-> Deleted]
    /\ clock = [day |-> 0, sec |-> 0]
    /\ alarm_event = FALSE /\ updating = FALSE /\ late = 0
    /\ woken = {} /\ calls = 0
-----------------------------------------------------------------------------
\* alarm_set: the device is told the alarm's second if the alarm is started, and
\* is switched off otherwise.
alarm_set(al) == rtc_alarm' = IF al.started THEN al.sec ELSE NoAlarm

\* alarm_wakeup.  All differences are unsigned: only an alarm that is past by at
\* most RT_ALARM_DELAY wakes up.
InDelay(then, now) == now - then \in 0 .. AlarmDelay

alarm_wakeup(a) ==
    LET al == alarm[a] IN
    /\ al.started
    /\ CASE al.kind = "oneshot" -> InDelay(al.day * DaySecs + al.sec, clock.sec)
         [] al.kind = "daily"   -> InDelay(al.sec, clock.sec)
         [] al.kind = "weekly"  -> InDelay(al.day * DaySecs + al.sec,
                                           clock.day * DaySecs + clock.sec)
         [] al.kind = "monthly" -> al.day = clock.day /\ InDelay(al.sec, clock.sec)

OneShots(S) == {a \in S : alarm[a].kind = "oneshot"}

\* The first pass of alarm_update: overdue alarms wake up, and a one-shot alarm
\* stops and switches the device off, whichever alarm that was set to.  A caller
\* that has just stopped an alarm has switched the device off before.
Due(stopped)   == {a \in Listed \ stopped : alarm_wakeup(a)}
Ended(stopped) == OneShots(Due(stopped)) \cup stopped
Awake(stopped) == [a \in AlarmId |->
                      IF a \in Ended(stopped) THEN [alarm[a] EXCEPT !.started = FALSE]
                                              ELSE alarm[a]]

WakePass(stopped) ==
    /\ woken' = Due(stopped)
    /\ rtc_alarm' = IF Ended(stopped) # {} THEN NoAlarm ELSE rtc_alarm
    /\ updating' = (alarms # <<>>)
    /\ late' = 0

\* Mutant: alarms earlier in the day than now wait for another one to call the
\* service.
CandidatesToday == {a \in Listed : /\ alarm[a].started /\ a # current
                                   /\ alarm[a].sec > clock.sec}

\* The alarms the second pass chooses from: not one whose second this is.
Candidates == {a \in Listed : /\ alarm[a].started /\ a # current
                              /\ alarm[a].sec # clock.sec}

\* The one to come first: today's before tomorrow's, and of several of the same
\* second the first in the list.
Wait(a) == (alarm[a].sec - clock.sec) % DaySecs
Soonest(S) == SelectInSeq(alarms, LAMBDA a : a \in S /\ \A b \in S : Wait(a) <= Wait(b))

\* The second pass of alarm_update.
alarm_update ==
    /\ updating
    /\ updating' = FALSE /\ late' = 0
    /\ IF Candidates = {}
         THEN UNCHANGED <<current, rtc_alarm>>
         ELSE /\ current' = alarms[Soonest(Candidates)]
              /\ alarm_set(alarm[current'])
    /\ woken' = {}
    /\ UNCHANGED <<alarms, alarm, clock, alarm_event, calls>>

\* rt_alarmsvc_thread_init: the thread takes the event and the mutex.
rt_alarmsvc_thread ==
    /\ alarm_event /\ ~updating
    /\ alarm_event' = FALSE
    /\ WakePass({}) /\ alarm' = Awake({})
    /\ UNCHANGED <<alarms, current, clock, calls>>
-----------------------------------------------------------------------------
\* A call takes the mutex, which alarm_update holds to its end.
Call ==
    /\ ~updating
    /\ calls < MaxCalls /\ calls' = calls + 1
    /\ UNCHANGED <<clock, alarm_event>>

\* alarm_setup: what is left open is now, and the last second of the day is moved
\* forward.  Flags that name no kind are refused.
Kinds == {"oneshot", "daily", "weekly", "monthly"}

alarm_setup(al) ==
    LET sec == IF al.sec = DontCare THEN clock.sec ELSE al.sec
        day == IF al.day # DontCare THEN al.day
               ELSE IF al.kind = "oneshot" THEN 0 ELSE clock.day
    IN  IF al.kind \notin Kinds THEN al
        ELSE [al EXCEPT !.sec = IF sec = DaySecs - 1 THEN DaySecs - AlarmDelay ELSE sec,
                        !.day = day, !.inited = TRUE]

Created(setup) == [kind |-> setup.kind, sec |-> setup.sec, day |-> setup.day,
                   started |-> FALSE, inited |-> FALSE]

rt_alarm_create(setup) ==
    LET a == CHOOSE new \in AlarmId : new \notin Listed IN
    /\ Call /\ Listed # AlarmId
    /\ alarms' = <<a>> \o alarms
    /\ alarm' = [alarm EXCEPT ![a] = Created(setup)]
    /\ UNCHANGED <<current, rtc_alarm, updating, late, woken>>

\* Whether an alarm that is being started takes the device from the current one.
ComesFirst(new, old) ==
    LET now == clock.sec IN
    \/ new < old /\ new > now
    \/ new > now /\ old < now
    \/ new < old /\ old < now

rt_alarm_start(a) ==
    LET al == IF alarm[a].inited THEN alarm[a] ELSE alarm_setup(alarm[a])
        on == [al EXCEPT !.started = TRUE]
    IN
    /\ Call /\ a \in Listed
    /\ \/ /\ ~al.inited \/ al.started
          /\ alarm' = [alarm EXCEPT ![a] = al]
          /\ UNCHANGED <<current, rtc_alarm>>
       \/ /\ al.inited /\ ~al.started
          /\ alarm' = [alarm EXCEPT ![a] = on]
          /\ IF current = NoAlarm \/ ComesFirst(on.sec, alarm[current].sec)
               THEN current' = a /\ alarm_set(on)
               ELSE UNCHANGED <<current, rtc_alarm>>
    /\ UNCHANGED <<alarms, updating, late, woken>>

\* Mutant: the device is not switched off and no other alarm is looked for.
StopOnly(a, al) ==
    /\ current' = IF a = current THEN NoAlarm ELSE current
    /\ alarm' = [alarm EXCEPT ![a] = al]
    /\ UNCHANGED <<rtc_alarm, updating, late, woken>>

\* An alarm stops and becomes al; if it is the current one the device is switched
\* off and another alarm is looked for.
Stop(a, al) ==
    IF a = current
    THEN /\ current' = NoAlarm /\ WakePass({a})
         /\ alarm' = [Awake({a}) EXCEPT ![a] = al]
    ELSE /\ alarm' = [alarm EXCEPT ![a] = al]
         /\ UNCHANGED <<current, rtc_alarm, updating, late, woken>>

rt_alarm_stop(a) ==
    /\ Call /\ a \in Listed /\ alarm[a].started
    /\ Stop(a, [alarm[a] EXCEPT !.started = FALSE])
    /\ UNCHANGED alarms

\* rt_alarm_delete does not ask whether the alarm is started.
rt_alarm_delete(a) ==
    /\ Call /\ a \in Listed
    /\ Stop(a, Deleted)
    /\ alarms' = RemoveFirst(alarms, a)

\* rt_alarm_control with RT_ALARM_CTRL_MODIFY: rt_alarm_stop returns at once if the
\* alarm is not started, and leaves it the current one if it is that.
rt_alarm_control(a, setup) ==
    LET al == alarm_setup(Created(setup)) IN
    /\ Call /\ a \in Listed
    /\ IF alarm[a].started
         THEN Stop(a, al)
         ELSE /\ alarm' = [alarm EXCEPT ![a] = al]
              /\ UNCHANGED <<current, rtc_alarm, updating, late, woken>>
    /\ UNCHANGED alarms
-----------------------------------------------------------------------------
\* The clock, and the device that compares it with the second it was given.  At
\* midnight the dates of one-shot alarms come a day closer.
Nearer(al) == IF al.kind = "oneshot" /\ al.day > -2 THEN [al EXCEPT !.day = @ - 1] ELSE al

AlarmTick ==
    LET sec == (clock.sec + 1) % DaySecs IN
    /\ alarm_event \/ updating => late < MaxLate
    /\ late' = IF alarm_event \/ updating THEN late + 1 ELSE 0
    /\ IF sec = 0
         THEN /\ clock' = [day |-> (clock.day + 1) % Week, sec |-> 0]
              /\ alarm' = [a \in AlarmId |-> Nearer(alarm[a])]
         ELSE clock' = [clock EXCEPT !.sec = sec] /\ UNCHANGED alarm
    /\ alarm_event' = (alarm_event \/ rtc_alarm = sec)
    /\ UNCHANGED <<alarms, current, rtc_alarm, updating, woken, calls>>

AlarmCall ==
    \/ \E setup \in AlarmSetup :
          rt_alarm_create(setup) \/ \E a \in AlarmId : rt_alarm_control(a, setup)
    \/ \E a \in AlarmId : rt_alarm_start(a) \/ rt_alarm_stop(a) \/ rt_alarm_delete(a)

AlarmNext == AlarmTick \/ rt_alarmsvc_thread \/ alarm_update \/ AlarmCall

\* The clock runs, the service is not starved, and of the updates after an alarm not
\* every one has a tick between its two passes: they are some microseconds apart.
AlarmFairness ==
    /\ WF_alarmVars(AlarmTick)
    /\ WF_alarmVars(rt_alarmsvc_thread)
    /\ WF_alarmVars(alarm_update)
    /\ \A a \in AlarmId : SF_alarmVars(alarm_update /\ late = 0 /\ current = a)

AlarmSpec == AlarmInit /\ [][AlarmNext]_alarmVars /\ AlarmFairness
-----------------------------------------------------------------------------
AlarmTypeOK ==
    /\ ToSet(alarms) \subseteq AlarmId /\ IsInjective(alarms)
    /\ \A a \in AlarmId :
          /\ alarm[a].sec \in (0 .. DaySecs - 1) \cup {DontCare}
          /\ alarm[a].started => alarm[a].inited /\ a \in Listed
    /\ current \in Listed \cup {NoAlarm}
    /\ rtc_alarm \in 0 .. DaySecs - 1 \/ rtc_alarm = NoAlarm
    /\ clock \in [day : 0 .. Week - 1, sec : 0 .. DaySecs - 1]
    /\ late \in 0 .. MaxLate

Started == {a \in Listed : alarm[a].started}

\* Between two updates the device is set to the second of the current alarm or is
\* off: no call and no update arms one alarm and remembers another.
CurrentIsSet ==
    ~updating => rtc_alarm \in {NoAlarm} \cup {alarm[a].sec : a \in {current} \cap Started}

\* Once the users leave the service alone, a daily alarm that is started calls back
\* day after day, whatever was started, stopped and modified before, however late
\* the service ran, and whichever alarm is current, as long as the device is not
\* switched off for good (the README says when it is).
StartedAlarmFires ==
    \A a \in AlarmId :
        <>[](/\ a \in Started /\ alarm[a].kind = "daily"
             /\ updating \/ rtc_alarm # NoAlarm) => []<>(a \in woken)
=============================================================================
