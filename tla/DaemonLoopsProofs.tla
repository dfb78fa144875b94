------------------------- MODULE DaemonLoopsProofs --------------------------
(***************************************************************************)
(* What the mail daemon's loops promise, for every value of their          *)
(* constants: the schedule, whose calendar may have hours, days and weeks  *)
(* of any length, and the intrusion reports.                               *)
(***************************************************************************)
EXTENDS DaemonLoops, Integers, WellFoundedInduction, NaturalsInduction, TLAPS

-----------------------------------------------------------------------------
\* A set of numbers has a least one.
LEMMA Least ==
  ASSUME NEW T, T \subseteq Nat, T # {}
  PROVE  \E x \in T : \A y \in T : x <= y
<1>1. PICK x \in T : \A y \in T : ~(<<y, x>> \in OpToRel(<, Nat))
  BY NatLessThanWellFounded, WFMin
<1>2. \A y \in T : ~(y < x)
  BY <1>1 DEF OpToRel
<1> QED BY <1>2

LEMMA MinIsLeast ==
  ASSUME NEW T, T \subseteq Nat, T # {}
  PROVE  Schedule!Min(T) \in T /\ \A y \in T : Schedule!Min(T) <= y
BY Least DEF Schedule!Min

\* A number has one quotient and one remainder.
LEMMA DivUnique ==
  ASSUME NEW d \in Nat \ {0}, NEW q \in Nat, NEW r \in 0..d - 1
  PROVE  /\ d * q + r \in Nat
         /\ (d * q + r) \div d = q
         /\ (d * q + r) % d = r
<1> DEFINE n == d * q + r
           p == n \div d
<1>0. d * q \in Nat /\ n \in Nat
  OBVIOUS
<1>1. p \in Nat /\ n % d \in 0..d - 1 /\ n = d * p + (n % d)
  BY <1>0
<1>2. ASSUME p < q PROVE FALSE
  <2>1. p + 1 <= q
    BY <1>1, <1>2
  <2>2. d * (p + 1) <= d * q
    BY <2>1, <1>1
  <2>3. d * (p + 1) = d * p + d
    BY <1>1
  <2>4. d * p \in Nat
    BY <1>1
  <2> HIDE DEF p, n
  <2> QED BY <1>0, <1>1, <2>2, <2>3, <2>4 DEF n
<1>3. ASSUME q < p PROVE FALSE
  <2>1. q + 1 <= p
    BY <1>1, <1>3
  <2>2. d * (q + 1) <= d * p
    BY <2>1, <1>1
  <2>3. d * (q + 1) = d * q + d
    OBVIOUS
  <2>4. d * p \in Nat
    BY <1>1
  <2> HIDE DEF p
  <2> QED BY <1>0, <1>1, <2>2, <2>3, <2>4
<1>4. p = q
  BY <1>1, <1>2, <1>3
<1> HIDE DEF p
<1>5. n % d = r
  BY <1>0, <1>1, <1>4
<1> QED BY <1>0, <1>4, <1>5 DEF p

LEMMA Divided ==
  ASSUME NEW d \in Nat \ {0}, NEW n \in Nat
  PROVE  /\ n \div d \in Nat /\ n % d \in 0..d - 1
         /\ n = d * (n \div d) + (n % d)
OBVIOUS

\* Every remainder is found among as many numbers in a row as there are.
LEMMA Recurs ==
  ASSUME NEW d \in Nat \ {0}, NEW w \in 0..d - 1, NEW n \in Nat
  PROVE  \E x \in (n + 1)..(n + d) : x % d = w
<1> DEFINE m == n + 1
           e == m \div d
           r == m % d
<1>0. m \in Nat
  OBVIOUS
<1> HIDE DEF m
<1>1. e \in Nat /\ r \in 0..d - 1 /\ m = d * e + r
  BY <1>0, Divided
<1> HIDE DEF e, r
<1>2. n + 1 = d * e + r /\ d * e \in Nat /\ d * (e + 1) = d * e + d
  BY <1>1 DEF m
<1>3. (d * e + w) % d = w
  BY <1>1, DivUnique
<1>6. e + 1 \in Nat
  BY <1>1
<1>7. (d * (e + 1) + w) % d = w
  BY <1>6, DivUnique
<1>4. CASE r <= w
  <2>1. d * e + w \in (n + 1)..(n + d)
    BY <1>1, <1>2, <1>4
  <2> QED BY <2>1, <1>3
<1>5. CASE w < r
  <2>1. d * (e + 1) + w \in (n + 1)..(n + d)
    BY <1>1, <1>2, <1>5
  <2> QED BY <2>1, <1>7
<1> QED BY <1>1, <1>4, <1>5

-----------------------------------------------------------------------------
(* Cadences.                                                                 *)

JobAssumption(job) ==
  /\ job.hours # {} /\ job.hours \subseteq 0..HoursPerDay - 1
  /\ job.minute \in 0..MinutesPerHour - 1
  /\ job.weekday \in {None} \union (0..DaysPerWeek - 1)

CalendarAssumption ==
  {MinutesPerHour, HoursPerDay, DaysPerWeek} \subseteq Nat \ {0} /\ None \notin Nat

LEMMA ScheduleAssumed ==
  ASSUME Schedule!SchedulerAssumption
  PROVE  /\ CalendarAssumption
         /\ \A i \in DOMAIN SCHEDULE : JobAssumption(SCHEDULE[i])
BY DEF Schedule!SchedulerAssumption, CalendarAssumption, JobAssumption

\* A time is a minute of an hour of a day.
Moment(D, h, minute) == MinutesPerHour * (HoursPerDay * D + h) + minute

LEMMA MomentIs ==
  ASSUME CalendarAssumption, NEW D \in Nat, NEW h \in 0..HoursPerDay - 1,
         NEW minute \in 0..MinutesPerHour - 1
  PROVE  /\ Moment(D, h, minute) \in Nat
         /\ Moment(D, h, minute) % MinutesPerHour = minute
         /\ Schedule!Hour(Moment(D, h, minute)) = h
         /\ Schedule!Weekday(Moment(D, h, minute)) = D % DaysPerWeek
<1> DEFINE MPH == MinutesPerHour
           HPD == HoursPerDay
           H == HPD * D + h
           t == MPH * H + minute
<1>0. MPH \in Nat \ {0} /\ HPD \in Nat \ {0} /\ DaysPerWeek \in Nat \ {0}
  BY DEF CalendarAssumption
<1>1. H \in Nat /\ H \div HPD = D /\ H % HPD = h
  BY <1>0, DivUnique
<1> HIDE DEF H
<1>2. t \in Nat /\ t \div MPH = H /\ t % MPH = minute
  BY <1>0, <1>1, DivUnique
<1>3. t = (MPH * HPD) * D + (MPH * h + minute)
  <2>1. MPH * (HPD * D + h) = MPH * (HPD * D) + MPH * h
    BY <1>0
  <2>2. MPH * (HPD * D) = (MPH * HPD) * D
    BY <1>0
  <2>3. MPH * (HPD * D) \in Nat /\ MPH * h \in Nat
    BY <1>0
  <2> QED BY <2>1, <2>2, <2>3, <1>0 DEF H
<1>4. MPH * HPD \in Nat \ {0}
  BY <1>0
<1>5. MPH * h + minute \in 0..MPH * HPD - 1
  <2>1. MPH * h + MPH = MPH * (h + 1) /\ MPH * h \in Nat
    BY <1>0
  <2>2. MPH * (h + 1) <= MPH * HPD
    BY <1>0
  <2> QED BY <2>1, <2>2, <1>0, <1>4
<1>6. t \div (MPH * HPD) = D
  <2> DEFINE d == MPH * HPD
             r == MPH * h + minute
  <2>1. d \in Nat \ {0} /\ r \in 0..d - 1 /\ t = d * D + r
    BY <1>3, <1>4, <1>5
  <2> HIDE DEF d, r, t
  <2>2. t \div d = D
    BY <2>1, DivUnique
  <2> QED BY <2>2 DEF d
<1> QED BY <1>1, <1>2, <1>6 DEF Moment, H, Schedule!Hour, Schedule!Weekday

\* What the search returns is the first time after the moment at which the job
\* fires, of all there are: it looks far enough, whatever the calendar.
LEMMA NextAfterIsFirst ==
  ASSUME CalendarAssumption, NEW job, JobAssumption(job), NEW m \in Nat
  PROVE  /\ Schedule!NextAfter(job, m) \in Nat
         /\ m < Schedule!NextAfter(job, m)
         /\ Schedule!Fires(job, Schedule!NextAfter(job, m))
         /\ \A t \in Nat : m < t /\ Schedule!Fires(job, t) => Schedule!NextAfter(job, m) <= t
<1> DEFINE MPH == MinutesPerHour
           HPD == HoursPerDay
           DPW == DaysPerWeek
           q == m \div MPH
           start == m - (m % MPH) + job.minute
           Good(t) == /\ t > m /\ Schedule!Hour(t) \in job.hours
                      /\ job.weekday \in {None, Schedule!Weekday(t)}
           S == {t \in {start + step * MPH : step \in 0..Schedule!HORIZON_HOURS - 1} : Good(t)}
           n == Schedule!Min(S)
<1>0. /\ MPH \in Nat \ {0} /\ HPD \in Nat \ {0} /\ DPW \in Nat \ {0} /\ None \notin Nat
      /\ job.minute \in 0..MPH - 1 /\ job.hours \subseteq 0..HPD - 1 /\ job.hours # {}
      /\ job.weekday \in {None} \union (0..DPW - 1)
  BY DEF CalendarAssumption, JobAssumption
<1>1. q \in Nat /\ m % MPH \in 0..MPH - 1 /\ m = MPH * q + (m % MPH)
  BY <1>0, Divided
<1>2. MPH * q \in Nat /\ start = MPH * q + job.minute
  <2> HIDE DEF q
  <2>1. MPH * q \in Nat
    BY <1>0, <1>1
  <2>2. m - (m % MPH) = MPH * q
    BY <2>1, <1>1
  <2> QED BY <2>1, <2>2
<1>3. Schedule!HORIZON_HOURS = DPW * HPD + HPD /\ DPW * HPD \in Nat
  BY <1>0 DEF Schedule!HORIZON_HOURS
<1>4. Schedule!NextAfter(job, m) = n
  BY DEF Schedule!NextAfter
<1> HIDE DEF q, start
<1>5. ASSUME NEW step \in Nat
      PROVE  /\ start + step * MPH \in Nat
             /\ start + step * MPH = MPH * (q + step) + job.minute
             /\ (start + step * MPH) % MPH = job.minute
  <2>1. MPH * (q + step) = MPH * q + step * MPH /\ q + step \in Nat /\ step * MPH \in Nat
    BY <1>0, <1>1
  <2>2. (MPH * (q + step) + job.minute) % MPH = job.minute
    BY <1>0, <2>1, DivUnique
  <2>3. start + step * MPH = MPH * (q + step) + job.minute
    BY <2>1, <1>2, <1>0
  <2>4. start + step * MPH \in Nat
    BY <2>1, <1>2, <1>0
  <2> QED BY <2>2, <2>3, <2>4
<1>6. S # {}
  <2> DEFINE w == IF job.weekday = None THEN 0 ELSE job.weekday
             D0 == q \div HPD
  <2>1. w \in 0..DPW - 1
    BY <1>0
  <2>2. D0 \in Nat /\ q % HPD \in 0..HPD - 1 /\ q = HPD * D0 + (q % HPD)
    BY <1>0, <1>1, Divided
  <2> HIDE DEF D0, w
  <2>3. PICK D \in (D0 + 1)..(D0 + DPW) : D % DPW = w
    BY <1>0, <2>1, <2>2, Recurs
  <2>4. PICK h \in job.hours : h \in 0..HPD - 1
    BY <1>0
  <2> DEFINE H == HPD * D + h
             step == H - q
             t == Moment(D, h, job.minute)
  <2>5. /\ D \in Nat /\ HPD * D \in Nat /\ HPD * D >= HPD * D0 + HPD
        /\ HPD * D <= HPD * D0 + DPW * HPD /\ HPD * D0 \in Nat
    <3>0. D \in Nat /\ D - D0 \in 1..DPW
      BY <2>2, <2>3, <1>0
    <3>1. HPD * D = HPD * D0 + HPD * (D - D0)
      BY <3>0, <2>2, <1>0
    <3>2. HPD * (D - D0) >= HPD * 1 /\ HPD * (D - D0) <= HPD * DPW
      BY <3>0, <1>0
    <3>3. HPD * D \in Nat /\ HPD * D0 \in Nat /\ HPD * DPW = DPW * HPD /\ HPD * (D - D0) \in Int
      BY <3>0, <2>2, <1>0
    <3> QED BY <3>0, <3>1, <3>2, <3>3, <1>0, <1>3
  <2>6. step \in Nat /\ step > 0 /\ step <= Schedule!HORIZON_HOURS - 1
    BY <2>5, <2>4, <2>2, <1>3, <1>0, <1>1
  <2>7. t = start + step * MPH
    <3>1. q + step = H
      BY <2>5, <2>4, <1>1, <1>0
    <3> HIDE DEF step
    <3> QED BY <3>1, <1>5, <2>6 DEF Moment
  <2>8. /\ t \in Nat /\ Schedule!Hour(t) = h
        /\ Schedule!Weekday(t) = w
    BY <2>3, <2>4, <2>5, <1>0, MomentIs
  <2>9. t > m
    <3>1. step * MPH >= MPH
      BY <2>6, <1>0
    <3>2. step * MPH \in Nat
      BY <2>6, <1>0
    <3> HIDE DEF step, t
    <3> QED BY <3>1, <3>2, <2>7, <1>0, <1>1, <1>2
  <2>10. job.weekday \in {None, w}
    BY DEF w
  <2>11. Good(t)
    BY <2>8, <2>9, <2>10, <2>4
  <2> HIDE DEF step, t, Good
  <2> QED BY <2>6, <2>7, <2>11
<1>7. S \subseteq Nat
  <2>1. Schedule!HORIZON_HOURS \in Nat
    BY <1>3, <1>0
  <2>2. \A step \in 0..Schedule!HORIZON_HOURS - 1 : start + step * MPH \in Nat
    BY <2>1, <1>5
  <2> QED BY <2>2
<1> HIDE DEF n
<1>8. n \in S /\ \A t \in S : n <= t
  <2> HIDE DEF S
  <2> QED BY <1>6, <1>7, MinIsLeast DEF n
<1>9. PICK k \in 0..Schedule!HORIZON_HOURS - 1 : n = start + k * MPH /\ Good(n)
  <2> HIDE DEF Good
  <2> QED BY <1>8
<1>10. k \in Nat /\ Schedule!HORIZON_HOURS \in Nat
  BY <1>3, <1>0
<1>11. n \in Nat /\ n % MPH = job.minute
  BY <1>5, <1>9, <1>10
<1>12. n > m /\ Schedule!Fires(job, n)
  BY <1>9, <1>11 DEF Schedule!Fires
<1>13. ASSUME NEW t \in Nat, m < t, Schedule!Fires(job, t), t < n
       PROVE  FALSE
  <2> DEFINE p == t \div MPH
  <2>1. p \in Nat /\ t = MPH * p + job.minute
    BY <1>0, <1>13, Divided DEF Schedule!Fires
  <2> HIDE DEF p
  <2>2. q <= p
    <3>1. SUFFICES ASSUME p + 1 <= q PROVE FALSE
      BY <2>1, <1>1
    <3>2. MPH * (p + 1) <= MPH * q /\ MPH * (p + 1) = MPH * p + MPH /\ MPH * p \in Nat
      BY <3>1, <2>1, <1>0, <1>1
    <3> QED BY <3>2, <2>1, <1>0, <1>1, <1>2, <1>13
  <2> DEFINE step == p - q
  <2>3. step \in Nat /\ q + step = p
    BY <2>1, <2>2, <1>1
  <2> HIDE DEF step
  <2>4. t = start + step * MPH
    BY <2>1, <2>3, <1>5
  <2>5. step < k
    <3>1. SUFFICES ASSUME k <= step PROVE FALSE
      BY <2>3, <1>10
    <3>2. k * MPH <= step * MPH /\ k * MPH \in Nat /\ step * MPH \in Nat
      BY <3>1, <2>3, <1>10, <1>0
    <3>3. start \in Nat
      BY <1>2, <1>0
    <3> QED BY <3>2, <3>3, <2>4, <1>9, <1>13
  <2>6. step \in 0..Schedule!HORIZON_HOURS - 1
    BY <2>3, <2>5, <1>10
  <2>7. Good(t)
    BY <1>13 DEF Schedule!Fires
  <2>8. t \in S
    <3> HIDE DEF Good
    <3> QED BY <2>4, <2>6, <2>7
  <2> QED BY <2>8, <1>8, <1>11, <1>13
<1>14. \A t \in Nat : m < t /\ Schedule!Fires(job, t) => n <= t
  BY <1>13, <1>11
<1> QED BY <1>4, <1>11, <1>12, <1>14

-----------------------------------------------------------------------------
(* The schedule (daemons/scheduler.py).                                      *)

First == Schedule!Min(ready)

Firing(j, t) == \E i \in DOMAIN SCHEDULE :
                  SCHEDULE[i].name = j /\ Schedule!Fires(SCHEDULE[i], t)

\* Since a mark the job has not fired: whoever reads it finds nothing due.
Quiet(j, mark) == mark = None \/ \A t \in Nat : mark < t /\ t <= now => ~Firing(j, t)

ScheduleShapes ==
  /\ now \in Schedule!Times /\ faults \in 0..MaxFaults
  /\ at \in {"asleep", "starting", "running", "saving", "truncated"}
  /\ file \in [Schedule!Jobs -> Schedule!Times \union {None}]
  /\ marks \in [Schedule!Jobs -> Schedule!Times \union {None}]
  /\ ready \subseteq DOMAIN SCHEDULE
  /\ ran \subseteq Schedule!Jobs /\ todo \subseteq Accounts /\ owed \subseteq Schedule!Jobs
  /\ runs \in [Schedule!Jobs -> Nat] /\ lost \in [Schedule!Jobs -> Nat]
  /\ summaries \in [Accounts -> Nat]

ScheduleCounts ==
  /\ \A j \in Schedule!Jobs : runs[j] <= 1 + lost[j] /\ lost[j] <= faults
  /\ \A a \in Accounts : summaries[a] <= runs[Schedule!SUMMARY]
  /\ \A a \in todo : summaries[a] < runs[Schedule!SUMMARY]

\* How far the tick is.
ScheduleTick ==
  /\ ready # {} <=> at \in {"starting", "running"}
  /\ at = "running" => Schedule!Current \in ran
  /\ at = "asleep" => ran = {}
  /\ todo # {} => at = "running" /\ Schedule!Current = Schedule!SUMMARY

\* A job that waits for its turn in the tick has had no run for this firing
\* whose mark could still be written down.
ScheduleWaiting ==
  \A i \in ready : (at = "running" => i # First) =>
    SCHEDULE[i].name \notin ran /\ runs[SCHEDULE[i].name] <= lost[SCHEDULE[i].name]

\* A run that was written down is not due again: by the file, and by the copy of
\* it that this tick will write, but for the job it is at.
ScheduleFileInv ==
  \A j \in Schedule!Jobs \ ran : runs[j] > lost[j] => Quiet(j, file[j])

ScheduleMarksInv ==
  \A j \in Schedule!Jobs :
    at # "asleep" /\ runs[j] > lost[j] /\ ~(at = "running" /\ j = Schedule!Current)
      => Quiet(j, marks[j])

ScheduleIInv == /\ ScheduleShapes /\ ScheduleCounts /\ ScheduleTick
                /\ ScheduleWaiting /\ ScheduleFileInv /\ ScheduleMarksInv

LEMMA ScheduleFacts ==
  ASSUME Schedule!SchedulerAssumption
  PROVE  /\ LastMinute \in Nat /\ MaxFaults \in Nat /\ None \notin Nat
         /\ DOMAIN SCHEDULE \subseteq Nat
         /\ Schedule!SUMMARY \in Schedule!Jobs
         /\ \A i \in DOMAIN SCHEDULE : SCHEDULE[i].name \in Schedule!Jobs
         /\ \A i, k \in DOMAIN SCHEDULE : SCHEDULE[i].name = SCHEDULE[k].name => i = k
         /\ \A j \in Schedule!Jobs : \E i \in DOMAIN SCHEDULE : SCHEDULE[i].name = j
<1>1. DOMAIN SCHEDULE \subseteq Nat
  BY DEF Schedule!SchedulerAssumption
<1> QED BY <1>1 DEF Schedule!SchedulerAssumption, Schedule!Jobs

LEMMA FirstReady ==
  ASSUME Schedule!SchedulerAssumption, ready \subseteq DOMAIN SCHEDULE, ready # {}
  PROVE  /\ First \in ready /\ First \in DOMAIN SCHEDULE
         /\ Schedule!Current = SCHEDULE[First].name
         /\ Schedule!Current \in Schedule!Jobs
<1>1. ready \subseteq Nat
  BY ScheduleFacts
<1>2. First \in ready
  BY <1>1, MinIsLeast DEF First
<1> QED BY <1>2, ScheduleFacts DEF Schedule!Current, First

\* What is due by a mark has fired since.
LEMMA DueHasFired ==
  ASSUME Schedule!SchedulerAssumption, now \in Schedule!Times, NEW i \in DOMAIN SCHEDULE,
         NEW mark \in Schedule!Times, Schedule!NextAfter(SCHEDULE[i], mark) <= now
  PROVE  ~Quiet(SCHEDULE[i].name, mark)
<1> DEFINE t == Schedule!NextAfter(SCHEDULE[i], mark)
<1>1. CalendarAssumption /\ JobAssumption(SCHEDULE[i])
  BY ScheduleAssumed
<1>2. mark \in Nat /\ mark # None
  BY ScheduleFacts DEF Schedule!Times
<1>3. t \in Nat /\ mark < t /\ Schedule!Fires(SCHEDULE[i], t)
  BY <1>1, <1>2, NextAfterIsFirst
<1>4. Firing(SCHEDULE[i].name, t)
  BY <1>3 DEF Firing
<1> HIDE DEF t
<1>5. t <= now
  BY DEF t
<1> QED BY <1>2, <1>3, <1>4, <1>5 DEF Quiet

LEMMA ScheduleInitIInv ==
  ASSUME Schedule!SchedulerAssumption, Schedule!Init
  PROVE  ScheduleIInv
<1>1. ScheduleShapes
  BY ScheduleFacts DEF Schedule!Init, ScheduleShapes, Schedule!Times, Schedule!NoMarks
<1>2. ScheduleCounts /\ ScheduleTick /\ ScheduleWaiting
  BY ScheduleFacts DEF Schedule!Init, ScheduleCounts, ScheduleTick, ScheduleWaiting
<1>3. ScheduleFileInv /\ ScheduleMarksInv
  BY DEF Schedule!Init, ScheduleFileInv, ScheduleMarksInv
<1> QED BY <1>1, <1>2, <1>3 DEF ScheduleIInv

\* The steps.  While the clock stands still a job is quiet as long as its mark is
\* the same.
LEMMA ScheduleClock ==
  ASSUME Schedule!SchedulerAssumption, ScheduleIInv, Schedule!Clock
  PROVE  ScheduleIInv'
<1> DEFINE fired == {SCHEDULE[i].name : i \in {k \in DOMAIN SCHEDULE :
                                                 Schedule!Fires(SCHEDULE[k], now')}}
           running == IF at = "running" THEN {Schedule!Current} ELSE {}
<1>0. /\ ScheduleShapes /\ ScheduleCounts /\ ScheduleTick /\ ScheduleWaiting
      /\ ScheduleFileInv /\ ScheduleMarksInv
  BY DEF ScheduleIInv
<1>1. /\ now < LastMinute /\ now' = now + 1
      /\ runs' = [j \in Schedule!Jobs |-> IF j \notin fired THEN runs[j]
                                          ELSE IF j \in running THEN 1 ELSE 0]
      /\ lost' = [j \in Schedule!Jobs |-> IF j \in fired THEN 0 ELSE lost[j]]
      /\ summaries' = IF Schedule!SUMMARY \in fired THEN [a \in Accounts |-> 0] ELSE summaries
      /\ owed' = owed \union {j \in fired : file[j] # None}
      /\ UNCHANGED <<file, at, marks, ready, ran, todo, faults>>
  BY DEF Schedule!Clock, Schedule!tick
<1>2. \A j : j \in fired <=> Firing(j, now')
  BY DEF Firing
<1>3. fired \subseteq Schedule!Jobs
  BY ScheduleFacts
<1>4. First' = First /\ Schedule!Current' = Schedule!Current
  BY <1>1 DEF First, Schedule!Current
<1>5. ready # {} => First \in ready /\ Schedule!Current = SCHEDULE[First].name
  BY <1>0, FirstReady DEF ScheduleShapes
<1> HIDE DEF fired, running
<1>6. \A j, mark : Quiet(j, mark) /\ j \notin fired => Quiet(j, mark)'
  <2>1. now \in Nat
    BY <1>0, ScheduleFacts DEF ScheduleShapes, Schedule!Times
  <2>2. \A t \in Nat : t <= now' => t <= now \/ t = now'
    BY <2>1, <1>1
  <2> QED BY <2>2, <1>2 DEF Quiet, Firing
<1>7. \A j \in Schedule!Jobs :
           /\ j \notin fired => runs'[j] = runs[j] /\ lost'[j] = lost[j]
           /\ j \in fired => lost'[j] = 0
           /\ j \in fired /\ j \in running => runs'[j] = 1
           /\ j \in fired /\ j \notin running => runs'[j] = 0
  BY <1>1
<1>8. ScheduleShapes'
  <2>1. now' \in Schedule!Times
    BY <1>0, <1>1, ScheduleFacts DEF ScheduleShapes, Schedule!Times
  <2>2. /\ runs' \in [Schedule!Jobs -> Nat] /\ lost' \in [Schedule!Jobs -> Nat]
        /\ summaries' \in [Accounts -> Nat]
    BY <1>0, <1>1 DEF ScheduleShapes
  <2>3. owed' \subseteq Schedule!Jobs
    BY <1>0, <1>1, <1>3 DEF ScheduleShapes
  <2> QED BY <2>1, <2>2, <2>3, <1>0, <1>1 DEF ScheduleShapes, Schedule!Times
<1>9. ScheduleTick'
  BY <1>0, <1>1, <1>4 DEF ScheduleTick
<1>10. ScheduleCounts'
  <2>1. \A j \in Schedule!Jobs : runs'[j] <= 1 + lost'[j] /\ lost'[j] <= faults'
    BY <1>0, <1>1, <1>7, ScheduleFacts DEF ScheduleShapes, ScheduleCounts
  <2>2. CASE Schedule!SUMMARY \in fired
    <3>1. \A a \in Accounts : summaries'[a] = 0
      BY <1>1, <2>2
    <3>2. todo # {} => runs'[Schedule!SUMMARY] = 1
      BY <1>0, <1>7, <2>2, ScheduleFacts DEF ScheduleTick, running
    <3>3. runs'[Schedule!SUMMARY] \in Nat
      BY <1>8, ScheduleFacts DEF ScheduleShapes
    <3> QED BY <2>1, <3>1, <3>2, <3>3, <1>0, <1>1 DEF ScheduleCounts, ScheduleShapes
  <2>3. CASE Schedule!SUMMARY \notin fired
    BY <2>1, <2>3, <1>0, <1>1, <1>7, ScheduleFacts DEF ScheduleCounts, ScheduleShapes
  <2> QED BY <2>2, <2>3
<1>11. ScheduleWaiting'
  <2> SUFFICES ASSUME NEW i \in ready, at = "running" => i # First
               PROVE  /\ SCHEDULE[i].name \notin ran
                      /\ runs'[SCHEDULE[i].name] <= lost'[SCHEDULE[i].name]
    BY <1>1, <1>4 DEF ScheduleWaiting
  <2>1. SCHEDULE[i].name \notin running
    BY <1>0, <1>5, ScheduleFacts DEF running, ScheduleShapes
  <2>2. SCHEDULE[i].name \in Schedule!Jobs
    BY <1>0, ScheduleFacts DEF ScheduleShapes
  <2>3. SCHEDULE[i].name \notin ran /\ runs[SCHEDULE[i].name] <= lost[SCHEDULE[i].name]
    BY <1>0 DEF ScheduleWaiting
  <2> QED BY <1>7, <2>1, <2>2, <2>3
<1>12. ScheduleFileInv'
  <2> SUFFICES ASSUME NEW j \in Schedule!Jobs, j \notin ran, runs'[j] > lost'[j]
               PROVE  Quiet(j, file[j])'
    BY <1>1 DEF ScheduleFileInv
  <2>1. j \notin running
    BY <1>0 DEF ScheduleTick, running
  <2>2. j \notin fired
    BY <1>7, <2>1
  <2>3. Quiet(j, file[j])
    BY <1>0, <1>7, <2>2 DEF ScheduleFileInv
  <2>4. Quiet(j, file[j]) => Quiet(j, file'[j])
    BY <1>1
  <2> QED BY <2>2, <2>3, <1>1, <1>6 DEF Quiet
<1>13. ScheduleMarksInv'
  <2> SUFFICES ASSUME NEW j \in Schedule!Jobs, at # "asleep", runs'[j] > lost'[j],
                      ~(at = "running" /\ j = Schedule!Current)
               PROVE  Quiet(j, marks[j])'
    BY <1>1, <1>4 DEF ScheduleMarksInv
  <2>1. j \notin running
    BY DEF running
  <2>2. j \notin fired
    BY <1>7, <2>1
  <2>3. Quiet(j, marks[j])
    BY <1>0, <1>7, <2>2 DEF ScheduleMarksInv
  <2> QED BY <2>2, <2>3, <1>1, <1>6 DEF Quiet
<1> QED BY <1>8, <1>9, <1>10, <1>11, <1>12, <1>13 DEF ScheduleIInv

LEMMA ScheduleWake ==
  ASSUME Schedule!SchedulerAssumption, ScheduleIInv, Schedule!Wake
  PROVE  ScheduleIInv'
<1> DEFINE seeded == {j \in Schedule!Jobs : file[j] = None}
           known  == [j \in Schedule!Jobs |-> IF j \in seeded THEN now ELSE file[j]]
<1>0. /\ ScheduleShapes /\ ScheduleCounts /\ ScheduleTick /\ ScheduleWaiting
      /\ ScheduleFileInv /\ ScheduleMarksInv
  BY DEF ScheduleIInv
<1>1. /\ at = "asleep" /\ marks' = known /\ ready' = Schedule!Due(known)
      /\ owed' = owed \ seeded
      /\ at' = IF ready' # {} THEN "starting" ELSE IF seeded # {} THEN "saving" ELSE "asleep"
      /\ at' # "asleep" /\ ran' = {} /\ todo' = {}
      /\ UNCHANGED <<now, file, faults, runs, lost, summaries>>
  BY DEF Schedule!Wake
<1>2. \A j \in Schedule!Jobs : known[j] = IF file[j] = None THEN now ELSE file[j]
  OBVIOUS
<1>3. known \in [Schedule!Jobs -> Schedule!Times]
  BY <1>0 DEF ScheduleShapes
<1>4. \A j, mark : Quiet(j, mark) <=> Quiet(j, mark)'
  BY <1>1 DEF Quiet
<1>5. \A j \in Schedule!Jobs : runs[j] > lost[j] => Quiet(j, file[j])
  BY <1>0, <1>1 DEF ScheduleFileInv, ScheduleTick
<1>6. \A j \in Schedule!Jobs : runs[j] > lost[j] => Quiet(j, known[j])
  <2>1. now \in Nat
    BY <1>0 DEF ScheduleShapes, Schedule!Times
  <2>2. \A j : Quiet(j, now)
    BY <2>1 DEF Quiet
  <2> HIDE DEF known
  <2> QED BY <1>2, <1>5, <2>2
<1> HIDE DEF known
<1>7. \A i \in ready' : runs[SCHEDULE[i].name] <= lost[SCHEDULE[i].name]
  <2> SUFFICES ASSUME NEW i \in ready', runs[SCHEDULE[i].name] > lost[SCHEDULE[i].name]
               PROVE  FALSE
    BY <1>0, <1>1, ScheduleFacts DEF ScheduleShapes, Schedule!Due
  <2> DEFINE mark == known[SCHEDULE[i].name]
  <2>1. i \in DOMAIN SCHEDULE /\ Schedule!NextAfter(SCHEDULE[i], mark) <= now
    BY <1>1 DEF Schedule!Due
  <2>2. SCHEDULE[i].name \in Schedule!Jobs
    BY <2>1, ScheduleFacts
  <2>3. mark \in Schedule!Times /\ now \in Schedule!Times
    BY <1>0, <1>3, <2>2 DEF ScheduleShapes
  <2>4. ~Quiet(SCHEDULE[i].name, mark)
    BY <2>1, <2>3, DueHasFired
  <2> QED BY <1>6, <2>2, <2>4
<1>8. ScheduleShapes'
  BY <1>0, <1>1, <1>3, ScheduleFacts DEF ScheduleShapes, Schedule!Due
<1>9. ScheduleCounts' /\ ScheduleTick'
  BY <1>0, <1>1 DEF ScheduleCounts, ScheduleTick
<1>10. ScheduleWaiting'
  BY <1>1, <1>7 DEF ScheduleWaiting
<1>11. ScheduleFileInv'
  BY <1>1, <1>4, <1>5 DEF ScheduleFileInv
<1>12. ScheduleMarksInv'
  BY <1>1, <1>4, <1>6 DEF ScheduleMarksInv
<1> QED BY <1>8, <1>9, <1>10, <1>11, <1>12 DEF ScheduleIInv

LEMMA ScheduleStart ==
  ASSUME Schedule!SchedulerAssumption, ScheduleIInv, Schedule!Start
  PROVE  ScheduleIInv'
<1> DEFINE c == Schedule!Current
<1>0. /\ ScheduleShapes /\ ScheduleCounts /\ ScheduleTick /\ ScheduleWaiting
      /\ ScheduleFileInv /\ ScheduleMarksInv
  BY DEF ScheduleIInv
<1>1. /\ at = "starting" /\ at' = "running" /\ ran' = ran \union {c}
      /\ runs' = [runs EXCEPT ![c] = @ + 1]
      /\ todo' = IF c = Schedule!SUMMARY THEN Accounts ELSE {}
      /\ UNCHANGED <<now, file, marks, ready, faults, lost, summaries, owed>>
  BY DEF Schedule!Start
<1>2. First \in ready /\ c = SCHEDULE[First].name /\ c \in Schedule!Jobs
  BY <1>0, <1>1, FirstReady DEF ScheduleShapes, ScheduleTick
<1>3. First' = First /\ Schedule!Current' = c
  BY <1>1 DEF First, Schedule!Current
<1> HIDE DEF c
<1>4. \A j, mark : Quiet(j, mark) <=> Quiet(j, mark)'
  BY <1>1 DEF Quiet
<1>5. c \notin ran /\ runs[c] <= lost[c]
  BY <1>0, <1>1, <1>2 DEF ScheduleWaiting
<1>6. \A j \in Schedule!Jobs : runs'[j] = IF j = c THEN runs[j] + 1 ELSE runs[j]
  BY <1>0, <1>1 DEF ScheduleShapes
<1>7. ScheduleShapes'
  BY <1>0, <1>1, <1>2 DEF ScheduleShapes
<1>8. ScheduleTick'
  BY <1>0, <1>1, <1>3 DEF ScheduleTick
<1>9. ScheduleCounts'
  <2>1. \A j \in Schedule!Jobs : runs'[j] <= 1 + lost'[j] /\ lost'[j] <= faults'
    BY <1>0, <1>1, <1>5, <1>6 DEF ScheduleShapes, ScheduleCounts
  <2>2. \A a \in Accounts : summaries'[a] <= runs'[Schedule!SUMMARY]
    BY <1>0, <1>1, <1>6, ScheduleFacts DEF ScheduleShapes, ScheduleCounts
  <2>3. \A a \in todo' : summaries'[a] < runs'[Schedule!SUMMARY]
    BY <1>0, <1>1, <1>6, ScheduleFacts DEF ScheduleShapes, ScheduleCounts
  <2> QED BY <2>1, <2>2, <2>3 DEF ScheduleCounts
<1>10. ScheduleWaiting'
  <2> SUFFICES ASSUME NEW i \in ready, i # First
               PROVE  /\ SCHEDULE[i].name \notin ran'
                      /\ runs'[SCHEDULE[i].name] <= lost[SCHEDULE[i].name]
    BY <1>1, <1>3 DEF ScheduleWaiting
  <2>1. SCHEDULE[i].name # c /\ SCHEDULE[i].name \in Schedule!Jobs
    BY <1>0, <1>2, ScheduleFacts DEF ScheduleShapes
  <2> QED BY <2>1, <1>0, <1>1, <1>6 DEF ScheduleWaiting
<1>11. ScheduleFileInv'
  BY <1>0, <1>1, <1>4, <1>6 DEF ScheduleFileInv
<1>12. ScheduleMarksInv'
  BY <1>0, <1>1, <1>3, <1>4, <1>6 DEF ScheduleMarksInv
<1> QED BY <1>7, <1>8, <1>9, <1>10, <1>11, <1>12 DEF ScheduleIInv

LEMMA ScheduleSummarise ==
  ASSUME Schedule!SchedulerAssumption, ScheduleIInv, NEW a \in Accounts, Schedule!Summarise(a)
  PROVE  ScheduleIInv'
<1>0. /\ ScheduleShapes /\ ScheduleCounts /\ ScheduleTick /\ ScheduleWaiting
      /\ ScheduleFileInv /\ ScheduleMarksInv
  BY DEF ScheduleIInv
<1>1. /\ at = "running" /\ a \in todo /\ todo' = todo \ {a}
      /\ summaries' \in {summaries, [summaries EXCEPT ![a] = @ + 1]}
      /\ UNCHANGED <<now, file, at, marks, ready, ran, faults, runs, lost, owed>>
  BY DEF Schedule!Summarise
<1>2. First' = First /\ Schedule!Current' = Schedule!Current
  BY <1>1 DEF First, Schedule!Current
<1>3. \A j, mark : Quiet(j, mark) <=> Quiet(j, mark)'
  BY <1>1 DEF Quiet
<1>4. /\ summaries' \in [Accounts -> Nat]
      /\ \A b \in Accounts : summaries'[b] = IF b = a THEN summaries'[a] ELSE summaries[b]
      /\ summaries'[a] <= summaries[a] + 1
  <2>1. summaries \in [Accounts -> Nat]
    BY <1>0 DEF ScheduleShapes
  <2>2. CASE summaries' = summaries
    BY <2>1, <2>2
  <2>3. CASE summaries' = [summaries EXCEPT ![a] = @ + 1]
    BY <2>1, <2>3
  <2> QED BY <1>1, <2>2, <2>3
<1>5. ScheduleShapes'
  BY <1>0, <1>1, <1>4 DEF ScheduleShapes
<1>6. ScheduleCounts'
  BY <1>0, <1>1, <1>4, ScheduleFacts DEF ScheduleCounts, ScheduleShapes
<1>7. ScheduleTick'
  BY <1>0, <1>1, <1>2 DEF ScheduleTick
<1>8. ScheduleWaiting'
  BY <1>0, <1>1, <1>2 DEF ScheduleWaiting
<1>9. ScheduleFileInv' /\ ScheduleMarksInv'
  BY <1>0, <1>1, <1>2, <1>3 DEF ScheduleFileInv, ScheduleMarksInv
<1> QED BY <1>5, <1>6, <1>7, <1>8, <1>9 DEF ScheduleIInv

LEMMA ScheduleFinish ==
  ASSUME Schedule!SchedulerAssumption, ScheduleIInv, Schedule!Finish
  PROVE  ScheduleIInv'
<1> DEFINE c == Schedule!Current
<1>0. /\ ScheduleShapes /\ ScheduleCounts /\ ScheduleTick /\ ScheduleWaiting
      /\ ScheduleFileInv /\ ScheduleMarksInv
  BY DEF ScheduleIInv
<1>1. /\ at = "running" /\ todo = {} /\ marks' = [marks EXCEPT ![c] = now]
      /\ ready' = ready \ {First}
      /\ at' = IF ready' = {} THEN "saving" ELSE "starting"
      /\ owed' = owed \ {c}
      /\ UNCHANGED <<now, file, ran, todo, faults, runs, lost, summaries>>
  BY DEF Schedule!Finish, First
<1> HIDE DEF c
<1>2. \A j, mark : Quiet(j, mark) <=> Quiet(j, mark)'
  BY <1>1 DEF Quiet
<1>3. Quiet(c, now) /\ \A j \in Schedule!Jobs : marks'[j] = IF j = c THEN now ELSE marks[j]
  BY <1>0, <1>1 DEF ScheduleShapes, Quiet, Schedule!Times
<1>4. ScheduleShapes'
  BY <1>0, <1>1 DEF ScheduleShapes
<1>5. ScheduleCounts' /\ ScheduleTick'
  BY <1>0, <1>1 DEF ScheduleCounts, ScheduleTick
<1>6. ScheduleWaiting'
  BY <1>0, <1>1 DEF ScheduleWaiting
<1>7. ScheduleFileInv'
  BY <1>0, <1>1, <1>2 DEF ScheduleFileInv
<1>8. ScheduleMarksInv'
  BY <1>0, <1>1, <1>2, <1>3 DEF ScheduleMarksInv, c
<1> QED BY <1>4, <1>5, <1>6, <1>7, <1>8 DEF ScheduleIInv

LEMMA ScheduleFileSteps ==
  ASSUME Schedule!SchedulerAssumption, ScheduleIInv,
         Schedule!Truncate \/ Schedule!Save \/ Schedule!LoseFile
  PROVE  ScheduleIInv'
<1>0. /\ ScheduleShapes /\ ScheduleCounts /\ ScheduleTick /\ ScheduleWaiting
      /\ ScheduleFileInv /\ ScheduleMarksInv
  BY DEF ScheduleIInv
<1>1. now' = now /\ runs' = runs /\ lost' = lost /\ summaries' = summaries
  BY DEF Schedule!Truncate, Schedule!Save, Schedule!LoseFile, Schedule!history
<1>2. \A j, mark : Quiet(j, mark) <=> Quiet(j, mark)'
  BY <1>1 DEF Quiet
<1>3. \A j \in Schedule!Jobs : Quiet(j, Schedule!NoMarks[j])
  BY DEF Quiet, Schedule!NoMarks
<1>4. CASE Schedule!Truncate
  <2>1. /\ at = "saving" /\ at' = "truncated" /\ file' = Schedule!NoMarks
        /\ UNCHANGED <<now, marks, ready, ran, todo, faults, runs, lost, summaries, owed>>
    BY <1>4 DEF Schedule!Truncate, Schedule!tick, Schedule!history
  <2>2. ScheduleShapes'
    BY <1>0, <2>1 DEF ScheduleShapes, Schedule!NoMarks
  <2>3. ScheduleCounts' /\ ScheduleTick' /\ ScheduleWaiting'
    BY <1>0, <2>1 DEF ScheduleCounts, ScheduleTick, ScheduleWaiting
  <2>4. ScheduleFileInv'
    BY <1>2, <1>3, <2>1 DEF ScheduleFileInv
  <2>5. ScheduleMarksInv'
    BY <1>0, <1>2, <2>1 DEF ScheduleMarksInv
  <2> QED BY <2>2, <2>3, <2>4, <2>5 DEF ScheduleIInv
<1>5. CASE Schedule!Save
  <2>1. /\ at = "truncated" /\ at' = "asleep" /\ file' = marks /\ marks' = Schedule!NoMarks
        /\ ready' = {} /\ ran' = {} /\ todo' = {}
        /\ UNCHANGED <<now, faults, runs, lost, summaries, owed>>
    BY <1>5 DEF Schedule!Save, Schedule!history
  <2>2. ScheduleShapes'
    BY <1>0, <2>1 DEF ScheduleShapes, Schedule!NoMarks
  <2>3. ScheduleCounts' /\ ScheduleTick' /\ ScheduleWaiting'
    BY <1>0, <2>1 DEF ScheduleCounts, ScheduleTick, ScheduleWaiting
  <2>4. ScheduleFileInv'
    BY <1>0, <1>2, <2>1 DEF ScheduleFileInv, ScheduleMarksInv
  <2>5. ScheduleMarksInv'
    BY <2>1 DEF ScheduleMarksInv
  <2> QED BY <2>2, <2>3, <2>4, <2>5 DEF ScheduleIInv
<1>6. CASE Schedule!LoseFile
  <2>1. /\ at = "asleep" /\ file' = Schedule!NoMarks
        /\ faults < MaxFaults /\ faults' = faults + 1
        /\ UNCHANGED <<now, at, marks, ready, ran, todo, runs, lost, summaries, owed>>
    BY <1>6 DEF Schedule!LoseFile, Schedule!tick, Schedule!history
  <2>2. ScheduleShapes'
    BY <1>0, <2>1, ScheduleFacts DEF ScheduleShapes, Schedule!NoMarks
  <2>3. ScheduleCounts'
    BY <1>0, <2>1, ScheduleFacts DEF ScheduleCounts, ScheduleShapes
  <2>4. ScheduleTick' /\ ScheduleWaiting'
    BY <1>0, <2>1 DEF ScheduleTick, ScheduleWaiting
  <2>5. ScheduleFileInv'
    BY <1>2, <1>3, <2>1 DEF ScheduleFileInv
  <2>6. ScheduleMarksInv'
    BY <2>1 DEF ScheduleMarksInv
  <2> QED BY <2>2, <2>3, <2>4, <2>5, <2>6 DEF ScheduleIInv
<1> QED BY <1>4, <1>5, <1>6

\* What a tick that is cut short began may run again, and is counted as lost.
LEMMA ScheduleUnsaved ==
  ASSUME Schedule!SchedulerAssumption, ScheduleIInv, Schedule!Unsaved
  PROVE  ScheduleIInv'
<1>0. /\ ScheduleShapes /\ ScheduleCounts /\ ScheduleTick /\ ScheduleWaiting
      /\ ScheduleFileInv /\ ScheduleMarksInv
  BY DEF ScheduleIInv
<1>1. /\ at' = "asleep" /\ marks' = Schedule!NoMarks
      /\ ready' = {} /\ ran' = {} /\ todo' = {}
      /\ lost' = [j \in Schedule!Jobs |-> IF j \in ran THEN lost[j] + 1 ELSE lost[j]]
      /\ faults < MaxFaults /\ faults' = faults + 1
      /\ UNCHANGED <<now, file, runs, summaries, owed>>
  BY DEF Schedule!Unsaved
<1>2. \A j, mark : Quiet(j, mark) <=> Quiet(j, mark)'
  BY <1>1 DEF Quiet
<1>3. \A j \in Schedule!Jobs : lost'[j] = IF j \in ran THEN lost[j] + 1 ELSE lost[j]
  BY <1>1
<1>4. ScheduleShapes'
  <2>1. lost' \in [Schedule!Jobs -> Nat] /\ faults' \in 0..MaxFaults
    BY <1>0, <1>1, ScheduleFacts DEF ScheduleShapes
  <2> QED BY <2>1, <1>0, <1>1 DEF ScheduleShapes, Schedule!NoMarks
<1>5. ScheduleCounts'
  BY <1>0, <1>1, <1>3, ScheduleFacts DEF ScheduleCounts, ScheduleShapes
<1>6. ScheduleTick' /\ ScheduleWaiting' /\ ScheduleMarksInv'
  BY <1>1 DEF ScheduleTick, ScheduleWaiting, ScheduleMarksInv
<1>7. ScheduleFileInv'
  <2> SUFFICES ASSUME NEW j \in Schedule!Jobs, runs[j] > lost'[j]
               PROVE  Quiet(j, file[j])
    BY <1>1, <1>2 DEF ScheduleFileInv
  <2>1. j \notin ran
    BY <1>0, <1>3 DEF ScheduleCounts, ScheduleShapes
  <2> QED BY <2>1, <1>0, <1>3 DEF ScheduleFileInv
<1> QED BY <1>4, <1>5, <1>6, <1>7 DEF ScheduleIInv

LEMMA ScheduleStepIInv ==
  ASSUME Schedule!SchedulerAssumption, ScheduleIInv, [Schedule!Next]_(Schedule!vars)
  PROVE  ScheduleIInv'
<1>1. CASE Schedule!Clock
  BY <1>1, ScheduleClock
<1>2. CASE Schedule!Wake
  BY <1>2, ScheduleWake
<1>3. CASE Schedule!Start
  BY <1>3, ScheduleStart
<1>4. ASSUME NEW a \in Accounts, Schedule!Summarise(a) PROVE ScheduleIInv'
  BY <1>4, ScheduleSummarise
<1>5. CASE Schedule!Finish
  BY <1>5, ScheduleFinish
<1>6. CASE Schedule!Truncate \/ Schedule!Save \/ Schedule!LoseFile
  BY <1>6, ScheduleFileSteps
<1>7. CASE Schedule!SaveFails \/ Schedule!Dies
  BY <1>7, ScheduleUnsaved DEF Schedule!SaveFails, Schedule!Dies
<1>8. CASE UNCHANGED Schedule!vars
  <2>1. UNCHANGED <<now, file, at, marks, ready, ran, todo, faults, runs, lost, summaries, owed>>
    BY <1>8 DEF Schedule!vars, Schedule!tick, Schedule!history
  <2>2. First' = First /\ Schedule!Current' = Schedule!Current
    BY <2>1 DEF First, Schedule!Current
  <2>3. \A j, mark : Quiet(j, mark) <=> Quiet(j, mark)'
    BY <2>1 DEF Quiet
  <2>4. ScheduleShapes' /\ ScheduleCounts' /\ ScheduleTick' /\ ScheduleWaiting'
    BY <2>1, <2>2 DEF ScheduleIInv, ScheduleShapes, ScheduleCounts, ScheduleTick, ScheduleWaiting
  <2>5. ScheduleFileInv' /\ ScheduleMarksInv'
    BY <2>1, <2>2, <2>3 DEF ScheduleIInv, ScheduleFileInv, ScheduleMarksInv
  <2> QED BY <2>4, <2>5 DEF ScheduleIInv
<1> QED BY <1>1, <1>2, <1>3, <1>4, <1>5, <1>6, <1>7, <1>8 DEF Schedule!Next, Schedule!Thread

LEMMA ScheduleInvGives ==
  ASSUME Schedule!SchedulerAssumption, ScheduleIInv
  PROVE  Schedule!RunsExplained /\ Schedule!TypeOK
<1>0. /\ ScheduleShapes /\ ScheduleCounts /\ ScheduleTick /\ ScheduleWaiting
      /\ ScheduleFileInv /\ ScheduleMarksInv
  BY DEF ScheduleIInv
<1>1. Schedule!RunsExplained
  BY <1>0 DEF Schedule!RunsExplained, ScheduleCounts
<1>2. MaxFaults \in Nat /\ faults \in 0..MaxFaults
  BY <1>0, ScheduleFacts DEF ScheduleShapes
<1>3. \A j \in Schedule!Jobs : runs[j] \in 0..1 + MaxFaults /\ lost[j] \in 0..MaxFaults
  BY <1>0, <1>2 DEF ScheduleShapes, ScheduleCounts
<1>4. \A a \in Accounts : summaries[a] \in 0..1 + MaxFaults
  BY <1>0, <1>2, <1>3, ScheduleFacts DEF ScheduleShapes, ScheduleCounts
<1>5. /\ runs \in [Schedule!Jobs -> 0..1 + MaxFaults]
      /\ lost \in [Schedule!Jobs -> 0..MaxFaults]
      /\ summaries \in [Accounts -> 0..1 + MaxFaults]
  BY <1>0, <1>3, <1>4 DEF ScheduleShapes
<1> QED BY <1>0, <1>1, <1>5 DEF Schedule!TypeOK, ScheduleShapes

LEMMA ScheduleIsAPart == Spec => Schedule!Spec
<1>1. Init => Schedule!Init
  BY DEF Init
<1>2. [Next]_vars => [Schedule!Next]_(Schedule!vars)
  BY DEF Next, vars, scheduleVars, Schedule!vars, Schedule!tick, Schedule!history
<1> QED BY <1>1, <1>2, PTL DEF Spec, Schedule!Spec

LEMMA ScheduleInvHolds == Spec => []ScheduleIInv
<1>0. Schedule!SchedulerAssumption
  BY LoopsAssumption
<1>1. Schedule!Init => ScheduleIInv
  BY <1>0, ScheduleInitIInv
<1>2. ScheduleIInv /\ [Schedule!Next]_(Schedule!vars) => ScheduleIInv'
  BY <1>0, ScheduleStepIInv
<1> QED BY <1>1, <1>2, ScheduleIsAPart, PTL DEF Schedule!Spec

\* However long the hours, days and weeks, whatever the jobs' times and wherever
\* the daemon dies, a save fails or the marks' file is lost: a firing is run a
\* second time only for a run whose mark was never saved, and an account is sent
\* no more summaries than its job had runs (daemons/scheduler.py).
THEOREM RunsAreExplained == Spec => []RunsExplained
<1>0. Schedule!SchedulerAssumption
  BY LoopsAssumption
<1>1. ScheduleIInv => RunsExplained
  BY <1>0, ScheduleInvGives DEF RunsExplained
<1> QED BY <1>1, ScheduleInvHolds, PTL

\* A job that was run and written down is not due again before its next firing,
\* and one that fired after its mark is: the search a tick makes through the hours
\* finds the first firing after a moment, and finds one always (next_after and due
\* in daemons/scheduler.py).
THEOREM DueExactlyWhenFired ==
  ASSUME Schedule!SchedulerAssumption, now \in Nat,
         NEW i \in DOMAIN SCHEDULE, NEW mark \in Nat
  PROVE  Schedule!NextAfter(SCHEDULE[i], mark) <= now
           <=> \E t \in Nat : mark < t /\ t <= now /\ Schedule!Fires(SCHEDULE[i], t)
<1> DEFINE n == Schedule!NextAfter(SCHEDULE[i], mark)
<1>1. CalendarAssumption /\ JobAssumption(SCHEDULE[i])
  BY ScheduleAssumed
<1>2. /\ n \in Nat /\ mark < n /\ Schedule!Fires(SCHEDULE[i], n)
      /\ \A t \in Nat : mark < t /\ Schedule!Fires(SCHEDULE[i], t) => n <= t
  BY <1>1, NextAfterIsFirst
<1> HIDE DEF n
<1> QED BY <1>2 DEF n

-----------------------------------------------------------------------------
(* The intrusion reports (procwatch.py, intrusion.py, daemon_loop.py).       *)

\* A report is of a process that was seen, and what is being told is logged.
IntrusionIInv ==
  /\ Intrusions!TypeOK
  /\ \A r \in Roles : watcher[r] = "reporting" => intruder[r] # 0
  /\ daemon = "telling" => inHand \subseteq logged

\* Where a report is, once it was written.
Held == (UNION {spool[r] : r \in REPORTING}) \union inHand \union logged \union swallowed

LEMMA IntrusionInitIInv ==
  ASSUME Intrusions!IntrusionAssumption, Intrusions!Init
  PROVE  IntrusionIInv
BY DEF Intrusions!IntrusionAssumption, Intrusions!Init, IntrusionIInv, Intrusions!TypeOK

LEMMA IntrusionStep ==
  ASSUME Intrusions!IntrusionAssumption, IntrusionIInv, [Intrusions!Next]_(Intrusions!vars)
  PROVE  IntrusionIInv' /\ Held \subseteq Held'
<1> USE DEF Intrusions!IntrusionAssumption, IntrusionIInv, Intrusions!TypeOK, Intrusions!Reports
<1>1. ASSUME NEW r \in Roles, Intrusions!Appear(r) PROVE IntrusionIInv' /\ Held \subseteq Held'
  BY <1>1 DEF Intrusions!Appear, Held, Intrusions!spools, Intrusions!fates
<1>2. ASSUME NEW r \in Roles, Intrusions!Notice(r) PROVE IntrusionIInv' /\ Held \subseteq Held'
  BY <1>2 DEF Intrusions!Notice, Held, Intrusions!spools, Intrusions!fates
<1>3. ASSUME NEW r \in Roles, Intrusions!Refuse(r) PROVE IntrusionIInv' /\ Held \subseteq Held'
  <2>1. PICK written \in {TRUE, FALSE} :
          /\ written => r \in REPORTING
          /\ spool' = IF written THEN [spool EXCEPT ![r] = @ \union {intruder[r]}] ELSE spool
          /\ swallowed' = swallowed \union (IF written THEN {} ELSE {intruder[r]})
                            \union (IF r = MAIL THEN inHand \ logged ELSE {})
    BY <1>3 DEF Intrusions!Refuse
  <2>2. /\ r \in up /\ watcher[r] = "reporting" /\ up' = up \ {r}
        /\ inHand' = IF r = MAIL THEN {} ELSE inHand
        /\ UNCHANGED <<intruder, watcher, daemon, appeared, logged, told>>
    BY <1>3 DEF Intrusions!Refuse
  <2>3. intruder[r] \in 1..MaxIntrusions
    BY <2>2
  <2>4. spool' \in [REPORTING -> SUBSET (1..MaxIntrusions)]
    BY <2>1, <2>3
  <2>5. \A s \in REPORTING : spool[s] \subseteq spool'[s]
    BY <2>1
  <2>6. /\ swallowed \subseteq swallowed' /\ swallowed' \subseteq 1..MaxIntrusions
        /\ inHand \subseteq inHand' \union logged \union swallowed'
    BY <2>1, <2>2, <2>3
  <2>7. IntrusionIInv'
    BY <2>2, <2>4, <2>6
  <2>8. Held \subseteq Held'
    <3>1. UNION {spool[s] : s \in REPORTING} \subseteq UNION {spool'[s] : s \in REPORTING}
      BY <2>5
    <3>2. inHand \union logged \union swallowed \subseteq inHand' \union logged' \union swallowed'
      BY <2>2, <2>6
    <3> QED BY <3>1, <3>2, Zenon DEF Held
  <2> QED BY <2>7, <2>8
<1>4. ASSUME NEW r \in Roles, Intrusions!Restart(r) PROVE IntrusionIInv' /\ Held \subseteq Held'
  BY <1>4 DEF Intrusions!Restart, Held, Intrusions!spools, Intrusions!fates
<1>5. ASSUME NEW r \in REPORTING, Intrusions!Drain(r) PROVE IntrusionIInv' /\ Held \subseteq Held'
  <2>1. /\ inHand' = inHand \union spool[r] /\ spool' = [spool EXCEPT ![r] = {}]
        /\ daemon # "telling"
        /\ UNCHANGED <<up, intruder, watcher, daemon, appeared, logged, told, swallowed>>
    BY <1>5 DEF Intrusions!Drain, Intrusions!fates
  <2>2. spool' \in [REPORTING -> SUBSET (1..MaxIntrusions)] /\ inHand' \subseteq 1..MaxIntrusions
    BY <2>1
  <2>3. IntrusionIInv'
    BY <2>1, <2>2
  <2>4. \A s \in REPORTING : spool[s] \subseteq spool'[s] \union inHand'
    BY <2>1
  <2>5. ASSUME NEW x \in UNION {spool[s] : s \in REPORTING} PROVE x \in Held'
    <3>1. PICK s \in REPORTING : x \in spool[s]
      BY <2>5
    <3>2. x \in spool'[s] \union inHand'
      BY <2>4, <3>1
    <3>3. spool'[s] \subseteq UNION {spool'[u] : u \in REPORTING}
      OBVIOUS
    <3> QED BY <3>2, <3>3, Zenon DEF Held
  <2>6. ASSUME NEW x \in inHand \union logged \union swallowed PROVE x \in Held'
    BY <2>1, <2>6, Zenon DEF Held
  <2>7. Held \subseteq Held'
    BY <2>5, <2>6, Zenon DEF Held
  <2> QED BY <2>3, <2>7
<1>6. CASE Intrusions!Log
  <2>1. /\ logged' = logged \union inHand /\ daemon' = "telling"
        /\ UNCHANGED <<up, intruder, watcher, spool, inHand, appeared, told, swallowed>>
    BY <1>6 DEF Intrusions!Log, Intrusions!spools
  <2>2. IntrusionIInv'
    BY <2>1
  <2>3. Held \subseteq Held'
    BY <2>1, Zenon DEF Held
  <2> QED BY <2>2, <2>3
<1>7. CASE Intrusions!Tell
  <2>1. /\ daemon = "telling" /\ inHand' = {} /\ daemon' = "serving"
        /\ told' \in {told, told \union inHand}
        /\ UNCHANGED <<up, intruder, watcher, spool, appeared, logged, swallowed>>
    BY <1>7 DEF Intrusions!Tell
  <2>2. inHand \subseteq logged
    BY <2>1
  <2>3. IntrusionIInv'
    BY <2>1, <2>2
  <2>4. Held \subseteq Held'
    BY <2>1, <2>2, Zenon DEF Held
  <2> QED BY <2>3, <2>4
<1>8. CASE Intrusions!Serve
  BY <1>8 DEF Intrusions!Serve, Held, Intrusions!spools, Intrusions!fates
<1>9. CASE UNCHANGED Intrusions!vars
  BY <1>9 DEF Intrusions!vars, Held, Intrusions!spools, Intrusions!fates
<1> QED BY <1>1, <1>2, <1>3, <1>4, <1>5, <1>6, <1>7, <1>8, <1>9
        DEF Intrusions!Next, Intrusions!Watch, Intrusions!Report

LEMMA IntrusionIsAPart == Spec => Intrusions!Init /\ [][Intrusions!Next]_(Intrusions!vars)
<1>1. Init => Intrusions!Init
  BY DEF Init
<1>2. [Next]_vars => [Intrusions!Next]_(Intrusions!vars)
  BY DEF Next, vars, intrusionVars, Intrusions!vars, Intrusions!spools, Intrusions!fates
<1> QED BY <1>1, <1>2, PTL DEF Spec

\* A report that was written stays in a spool, in the daemon's hand or in its log
\* until it is counted as swallowed, whichever containers restart (intrusion.py,
\* report_intrusions in daemon_loop.py).
THEOREM ReportsAreKept == Spec => [][Held \subseteq Held']_intrusionVars
<1>0. Intrusions!IntrusionAssumption
  BY LoopsAssumption
<1>1. Intrusions!Init => IntrusionIInv
  BY <1>0, IntrusionInitIInv
<1>2. IntrusionIInv /\ [Intrusions!Next]_(Intrusions!vars)
        => IntrusionIInv' /\ [Held \subseteq Held']_intrusionVars
  BY <1>0, IntrusionStep
<1> QED BY <1>1, <1>2, IntrusionIsAPart, PTL

\* Both loops' variables keep their shape; in particular the operator's chat is
\* told nothing that is not in the log (report_intrusions in daemon_loop.py).
THEOREM TypeCorrect == Spec => []TypesOK
<1>0. Schedule!SchedulerAssumption /\ Intrusions!IntrusionAssumption
  BY LoopsAssumption
<1>1. Intrusions!Init => IntrusionIInv
  BY <1>0, IntrusionInitIInv
<1>2. IntrusionIInv /\ [Intrusions!Next]_(Intrusions!vars) => IntrusionIInv'
  BY <1>0, IntrusionStep
<1>3. ScheduleIInv => Schedule!TypeOK
  BY <1>0, ScheduleInvGives
<1>4. IntrusionIInv /\ Schedule!TypeOK => TypesOK
  BY DEF IntrusionIInv, TypesOK
<1> QED BY <1>1, <1>2, <1>3, <1>4, IntrusionIsAPart, ScheduleInvHolds, PTL
=============================================================================
