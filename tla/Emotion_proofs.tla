---------------------------- MODULE Emotion_proofs ----------------------------
(***************************************************************************)
(* The need of a session is what the wall clock makes it, up to the time   *)
(* that heartbeats kept it waiting; for every scale, growth and            *)
(* assessments.                                                            *)
(***************************************************************************)
EXTENDS Emotion, TLAPS

LEMMA Constants ==
    /\ Full \in Nat /\ Growth \in Nat /\ MaxTime \in Nat
    /\ Initial \in Need /\ Reset \in Need /\ Assessments \subseteq Need
BY EmotionAssumption

USE Constants DEF Need

-----------------------------------------------------------------------------
(* The dynamics: each operator is monotone and brings two needs no further *)
(* apart, and time may be added up.                                        *)

\* How far x is above y, at most hi, and below, at most lo.
Between(x, y, lo, hi) == x - y <= hi /\ y - x <= lo

LEMMA GrowthNat == \A a \in Nat : Growth * a \in Nat
OBVIOUS

LEMMA GrowthTimes == \A a, b \in Nat : Growth * (a + b) = Growth * a + Growth * b
OBVIOUS

LEMMA GrowthMono ==
    ASSUME NEW a \in Nat, NEW b \in Nat, a <= b
    PROVE  Growth * a <= Growth * b
<1>1. b - a \in Nat /\ b = a + (b - a)
  OBVIOUS
<1>2. Growth * b = Growth * a + Growth * (b - a)
  BY <1>1, GrowthTimes
<1>3. Growth * a \in Nat /\ Growth * b \in Nat /\ Growth * (b - a) \in Nat
  BY <1>1, GrowthNat
<1>4. QED BY <1>2, <1>3

LEMMA EvolveType ==
    ASSUME NEW need \in Need, NEW d \in Int
    PROVE  Evolve(need, d) \in Need
<1>1. CASE d > 0
  <2>1. d \in Nat
    BY <1>1
  <2>2. Growth * d \in Nat
    BY <2>1, GrowthNat
  <2>3. QED BY <1>1, <2>2 DEF Evolve, AtMost
<1>2. CASE ~(d > 0)
  <2>1. Growth * 0 = 0
    OBVIOUS
  <2>2. QED BY <1>2, <2>1 DEF Evolve, AtMost
<1>3. QED BY <1>1, <1>2

LEMMA EvolveNot ==
    ASSUME NEW need \in Need, NEW d \in Int, d <= 0
    PROVE  Evolve(need, d) = need
BY DEF Evolve, AtMost

LEMMA EvolveNat ==
    ASSUME NEW need \in Need, NEW d \in Nat
    PROVE  /\ Growth * d \in Nat
           /\ Evolve(need, d) = AtMost(Full, need + Growth * d)
           /\ need <= Evolve(need, d) /\ Evolve(need, d) <= need + Growth * d
<1>1. Growth * d \in Nat
  OBVIOUS
<1>2. Evolve(need, d) = AtMost(Full, need + Growth * d)
  BY DEF Evolve
<1>3. QED BY <1>1, <1>2 DEF AtMost

LEMMA EvolveTwice ==
    ASSUME NEW need \in Need, NEW a \in Nat, NEW b \in Nat
    PROVE  Evolve(Evolve(need, a), b) = Evolve(need, a + b)
<1>1. a \in Int /\ Evolve(need, a) \in Need
  BY EvolveType
<1>2. Growth * a \in Nat /\ Growth * b \in Nat /\ Growth * (a + b) = Growth * a + Growth * b
  BY GrowthNat, GrowthTimes
<1>3. Evolve(need, a) = AtMost(Full, need + Growth * a)
  BY EvolveNat
<1>4. Evolve(Evolve(need, a), b) = AtMost(Full, Evolve(need, a) + Growth * b)
  BY <1>1, EvolveNat
<1>5. Evolve(need, a + b) = AtMost(Full, need + (Growth * a + Growth * b))
  BY <1>2, EvolveNat
<1>6. QED BY <1>1, <1>2, <1>3, <1>4, <1>5 DEF AtMost

LEMMA EvolveOnce ==
    ASSUME NEW need \in Need, NEW a \in Nat
    PROVE  Evolve(need, a + 1) = Evolve(Evolve(need, a), 1)
<1>1. 1 \in Nat
  OBVIOUS
<1>2. QED BY <1>1, EvolveTwice

LEMMA EvolveLater ==
    ASSUME NEW need \in Need, NEW a \in Nat, NEW b \in Nat, a <= b
    PROVE  /\ Evolve(need, a) <= Evolve(need, b)
           /\ Evolve(need, b) <= Evolve(need, a) + Growth * (b - a)
<1>1. b - a \in Nat /\ a + (b - a) = b /\ a \in Int
  OBVIOUS
<1>2. Evolve(need, a) \in Need
  BY <1>1, EvolveType
<1>3. Evolve(need, b) = Evolve(Evolve(need, a), b - a)
  BY <1>1, EvolveTwice
<1>4. QED BY <1>1, <1>2, <1>3, EvolveNat

LEMMA EvolveBetween ==
    ASSUME NEW x \in Need, NEW y \in Need, NEW d \in Nat, NEW lo \in Nat, NEW hi \in Nat,
           Between(x, y, lo, hi)
    PROVE  Between(Evolve(x, d), Evolve(y, d), lo, hi)
BY EvolveNat DEF Between, AtMost

LEMMA CoupledBetween ==
    ASSUME NEW x \in Need, NEW y \in Need, NEW lo \in Nat, NEW hi \in Nat, Between(x, y, lo, hi)
    PROVE  Between(Coupled(x), Coupled(y), lo, hi)
BY DEF Between, Coupled, AtMost

LEMMA MergedType ==
    ASSUME NEW x \in Need, NEW assessed \in Need
    PROVE  Merged(x, assessed) \in Need
BY DEF Merged

LEMMA MergedBetween ==
    ASSUME NEW x \in Need, NEW y \in Need, NEW assessed \in Need, NEW lo \in Nat, NEW hi \in Nat,
           Between(x, y, lo, hi)
    PROVE  Between(Merged(x, assessed), Merged(y, assessed), lo, hi)
BY DEF Between, Merged

\* An entry read for an earlier time: what it says at the present grows by no more
\* than the time since, and what is read falls short of it by no more.
LEMMA ReadBack ==
    ASSUME NEW need \in Need, NEW at \in Nat, NEW now \in Nat, NEW time \in Nat,
           at <= time, now <= time
    PROVE  LET x == Evolve(need, time - at)
               read == Evolve(need, now - at)
               y == Evolve(read, time - now)
           IN  /\ x \in Need /\ read \in Need /\ y \in Need
               /\ x <= y /\ y <= x + Growth * (time - now)
               /\ read <= x /\ x <= read + Growth * (time - now)
<1> DEFINE x == Evolve(need, time - at)
           read == Evolve(need, now - at)
           y == Evolve(read, time - now)
<1>0. time - at \in Int /\ now - at \in Int /\ time - now \in Int
  OBVIOUS
<1>1. x \in Need /\ read \in Need
  BY <1>0, EvolveType
<1>2. time - now \in Nat /\ time - at \in Nat /\ Growth * (time - now) \in Nat
  BY GrowthNat
<1> HIDE DEF read
<1>3. y \in Need /\ read <= y /\ y <= read + Growth * (time - now)
  BY <1>0, <1>1, <1>2, EvolveType, EvolveNat
<1> USE DEF read
<1>4. CASE at <= now
  <2>1. now - at \in Nat /\ (now - at) + (time - now) = time - at
    BY <1>4
  <2>2. y = x
    BY <1>2, <2>1, EvolveTwice
  <2>3. QED BY <1>1, <1>2, <1>3, <2>2
<1>5. CASE now < at
  <2>1. read = need
    BY <1>5, EvolveNot
  <2>2. x <= y
    BY <1>2, <1>5, <2>1, EvolveLater
  <2>3. need <= x
    BY <1>2, EvolveNat
  <2>4. QED BY <1>1, <1>2, <1>3, <2>1, <2>2, <2>3
<1>6. QED BY <1>4, <1>5

-----------------------------------------------------------------------------
(* Types, and the order of the times. *)

Waiting == hb.pc \in {"before", "assess"}

\* The lag at the start of the heartbeat that keeps the session waiting.
Start == IF Waiting THEN lag - (clock - hb.now) ELSE lag

Timed ==
    /\ entry.at <= clock /\ file.at <= clock /\ hb.now <= clock
    /\ lag <= clock /\ Start >= 0

LEMMA GotType ==
    ASSUME TypeOK, NEW t \in 0..MaxTime
    PROVE  /\ Got(t) \in Entries /\ Got(t).known /\ Got(t).at = t
           /\ Got(t).need = IF entry.known THEN Evolve(entry.need, t - entry.at) ELSE Initial
<1>1. entry.known \in BOOLEAN /\ entry.need \in Need /\ t - entry.at \in Int
  BY DEF TypeOK, Entries
<1>2. Evolve(entry.need, t - entry.at) \in Need
  BY <1>1, EvolveType
<1>3. QED BY <1>1, <1>2 DEF Got, Entry, Entries

LEMMA EntryType ==
    ASSUME NEW need \in Need, NEW at \in 0..MaxTime
    PROVE  /\ Entry(need, at) \in Entries
           /\ Entry(need, at).known /\ Entry(need, at).need = need /\ Entry(need, at).at = at
BY DEF Entry, Entries

LEMMA NoEntryType == NoEntry \in Entries /\ ~NoEntry.known /\ NoEntry.at = 0
BY DEF NoEntry, Entries

LEMMA RestoredType ==
    ASSUME TypeOK
    PROVE  /\ Restored \in Entries /\ (Restored.known <=> file.known)
           /\ file.known => Restored.at = clock /\ Restored.need = Evolve(file.need, clock - file.at)
           /\ ~file.known => Restored.at = 0
<1>1. file.known \in BOOLEAN /\ file.need \in Need /\ clock - file.at \in Int /\ clock \in 0..MaxTime
  BY DEF TypeOK, Entries
<1>2. Evolve(file.need, clock - file.at) \in Need
  BY <1>1, EvolveType
<1>3. CASE file.known
  BY <1>1, <1>2, <1>3, EntryType DEF Restored
<1>4. CASE ~file.known
  BY <1>1, <1>4, NoEntryType DEF Restored
<1>5. QED BY <1>3, <1>4

\* What a save does: to the entry, the snapshot and the histories.
LEMMA SaveEffect ==
    ASSUME TypeOK, Save
    PROVE  /\ due' = due
           /\ \/ /\ entry.known /\ entry' = Got(clock) /\ file' = Got(clock) /\ fileDue' = due
              \/ entry' = entry /\ file' = NoEntry /\ fileDue' = 0
BY DEF Save, Kept

LEMMA StepTimed == TypeOK /\ Timed /\ [Next]_vars => TypeOK' /\ Timed'
<1> SUFFICES ASSUME TypeOK, Timed, [Next]_vars PROVE TypeOK' /\ Timed'
  OBVIOUS
<1> USE DEF Waiting, Start, Goto, Idle
<1>0. /\ clock \in 0..MaxTime /\ hb.now \in 0..MaxTime
      /\ due \in Need /\ fileDue \in Need
      /\ Got(clock) \in Entries /\ Got(clock).at = clock /\ Got(clock).need \in Need
      /\ Got(hb.now) \in Entries /\ Got(hb.now).at = hb.now /\ Got(hb.now).need \in Need
      /\ DueNow \in Need
  <2>1. clock \in 0..MaxTime /\ hb.now \in 0..MaxTime /\ due \in Need /\ fileDue \in Need
    BY DEF TypeOK
  <2>2. QED BY <2>1, GotType DEF Entries, DueNow
<1>1. CASE StartHeartbeat
  <2>1. /\ hb'.now = clock /\ hb'.pc \in {"before", "after"}
        /\ hb' \in [pc : {"idle", "before", "assess", "after"}, now : 0..MaxTime, need : Need, old : BOOLEAN]
    <3>1. PICK pc \in {"before", "after"} :
              hb' = [pc |-> pc, now |-> clock, need |-> 0, old |-> FALSE]
      BY <1>1 DEF StartHeartbeat
    <3>2. QED BY <1>0, <3>1
  <2>2. UNCHANGED <<clock, phase, session, entry, file, due, fileDue, lag>>
    BY <1>1 DEF StartHeartbeat
  <2>3. TypeOK'
    BY <2>1, <2>2 DEF TypeOK
  <2>4. Timed'
    BY <1>0, <2>1, <2>2 DEF Timed, TypeOK
  <2>5. QED BY <2>3, <2>4
<1>2. CASE Visit
  <2>1. UNCHANGED <<clock, phase, session, file, fileDue, lag>> /\ hb.pc = "before"
    BY <1>2 DEF Visit
  <2>2. /\ entry' \in Entries /\ entry'.at <= clock
        /\ due' \in Need
    <3>1. CASE session = "talked"
      <4>1. entry' = Got(hb.now) /\ due' = DueNow
        BY <1>2, <3>1 DEF Visit
      <4>2. hb.now <= clock
        BY <2>1 DEF Timed
      <4>3. QED BY <1>0, <4>1, <4>2
    <3>2. CASE session # "talked"
      <4>1. entry' = entry /\ due' = due
        BY <1>2, <3>2 DEF Visit
      <4>2. entry \in Entries /\ entry.at <= clock
        BY DEF TypeOK, Timed
      <4>3. QED BY <1>0, <4>1, <4>2
    <3>3. QED BY <3>1, <3>2
  <2>3. /\ hb'.now = hb.now /\ hb'.pc \in {"assess", "after"}
        /\ hb' \in [pc : {"idle", "before", "assess", "after"}, now : 0..MaxTime, need : Need, old : BOOLEAN]
    <3>1. \/ hb' = [hb EXCEPT !.pc = "after"]
          \/ hb' = [hb EXCEPT !.pc = "assess", !.need = entry'.need]
      BY <1>2 DEF Visit
    <3>2. entry'.need \in Need
      BY <2>2 DEF Entries
    <3>3. hb \in [pc : {"idle", "before", "assess", "after"}, now : 0..MaxTime, need : Need, old : BOOLEAN]
      BY DEF TypeOK
    <3>4. QED BY <3>1, <3>2, <3>3
  <2>4. TypeOK'
    BY <2>1, <2>2, <2>3 DEF TypeOK
  <2>5. Timed'
    BY <1>0, <2>1, <2>2, <2>3 DEF Timed, TypeOK
  <2>6. QED BY <2>4, <2>5
<1>3. ASSUME NEW assessed \in Assessments, Assessed(assessed) PROVE TypeOK' /\ Timed'
  <2>1. Merged(Basis, assessed) \in Need /\ Merged(DueNow, assessed) \in Need
    BY <1>0, MergedType DEF Basis
  <2>2. /\ Entry(Merged(Basis, assessed), clock) \in Entries
        /\ Entry(Merged(Basis, assessed), clock).at = clock
    BY <1>0, <2>1, EntryType
  <2>3. QED BY <1>0, <1>3, <2>1, <2>2 DEF Assessed, TypeOK, Timed
<1>4. CASE AssessFailed
  BY <1>4 DEF AssessFailed, TypeOK, Timed
<1>5. CASE RecordSend
  BY <1>0, <1>5, SaveEffect, NoEntryType DEF RecordSend, TypeOK, Timed
<1>6. CASE FinishHeartbeat
  <2>1. (phase = "up" /\ Save) \/ UNCHANGED <<entry, file, due, fileDue>>
    BY <1>6 DEF FinishHeartbeat
  <2>2. /\ entry' \in Entries /\ entry'.at <= clock /\ file' \in Entries /\ file'.at <= clock
        /\ due' \in Need /\ fileDue' \in Need
    BY <1>0, <2>1, SaveEffect, NoEntryType DEF TypeOK, Timed
  <2>3. QED BY <1>0, <1>6, <2>2 DEF FinishHeartbeat, TypeOK, Timed
<1>7. CASE UserMessage
  <2>1. Coupled(Got(clock).need) \in Need /\ Coupled(DueNow) \in Need
    BY <1>0 DEF Coupled, AtMost
  <2>2. /\ Entry(Coupled(Got(clock).need), clock) \in Entries
        /\ Entry(Coupled(Got(clock).need), clock).at = clock
    BY <1>0, <2>1, EntryType
  <2>3. QED BY <1>0, <1>7, <2>1, <2>2 DEF UserMessage, TypeOK, Timed
<1>8. CASE AgentMessage
  BY <1>8 DEF AgentMessage, TypeOK, Timed
<1>9. CASE PluginInit
  BY <1>0, <1>9, RestoredType DEF PluginInit, TypeOK, Timed
<1>10. CASE Teardown
  <2>1. UNCHANGED <<clock, session, lag>> /\ phase' = "torn" /\ entry' = NoEntry /\ due' = 0
    BY <1>10 DEF Teardown
  <2>2. file' \in {Got(clock), NoEntry} /\ fileDue' \in {due, 0}
    BY <1>10 DEF Teardown, Kept
  <2>3. /\ hb'.now = hb.now /\ hb'.pc = hb.pc
        /\ hb' \in [pc : {"idle", "before", "assess", "after"}, now : 0..MaxTime, need : Need, old : BOOLEAN]
    BY <1>10 DEF Teardown, TypeOK
  <2>4. TypeOK'
    BY <1>0, <2>1, <2>2, <2>3, NoEntryType DEF TypeOK
  <2>5. Timed'
    BY <1>0, <2>1, <2>2, <2>3, NoEntryType DEF Timed, TypeOK
  <2>6. QED BY <2>4, <2>5
<1>11. CASE Crash
  BY <1>0, <1>11, NoEntryType DEF Crash, TypeOK, Timed
<1>12. CASE ClockTick
  <2>1. 1 \in Int
    OBVIOUS
  <2>2. Evolve(due, 1) \in Need
    BY <1>0, <2>1, EvolveType
  <2>3. Evolve(fileDue, 1) \in Need
    BY <1>0, <2>1, EvolveType
  <2>4. /\ clock' = clock + 1 /\ clock < MaxTime /\ UNCHANGED <<phase, session, entry, file, hb>>
        /\ lag' = IF Waiting THEN lag + 1 ELSE lag
    BY <1>12 DEF ClockTick, TypeOK
  <2>5. TypeOK'
    BY <1>0, <1>12, <2>2, <2>3, <2>4 DEF ClockTick, TypeOK, Timed
  <2>6. Timed'
    BY <1>0, <2>4 DEF TypeOK, Timed, Entries
  <2>7. QED BY <2>5, <2>6
<1>13. CASE UNCHANGED vars
  BY <1>13 DEF vars, TypeOK, Timed
<1>14. QED
  BY <1>1, <1>2, <1>3, <1>4, <1>5, <1>6, <1>7, <1>8, <1>9, <1>10, <1>11, <1>12, <1>13 DEF Next

\* In every configuration, every variable keeps its type.
THEOREM TypeCorrect == Spec => []TypeOK
<1>1. Init => TypeOK /\ Timed
  BY NoEntryType DEF Init, TypeOK, Timed, Start, Waiting, Idle
<1>2. QED BY <1>1, StepTimed, PTL DEF Spec

-----------------------------------------------------------------------------
(* The need and the wall clock. *)

\* What an entry says at a time.
Said(e, t) == Evolve(e.need, t - e.at)

\* It is off a reference by what two spans of time make up.
Accounted(e, reference, t, lo, hi) ==
    e.known => Between(Said(e, t), reference, Growth * lo, Growth * hi)

\* An entry that a heartbeat has read for its start counts the time since twice,
\* and comes to forget it when it is assessed; before, it is off by earlier lags.
High == IF hb.pc = "before" THEN Start ELSE lag

NeedInv ==
    /\ Accounted(entry, due, clock, Start, High)
    /\ Accounted(file, fileDue, clock, Start, High)

LEMMA Lags ==
    ASSUME TypeOK, Timed
    PROVE  Start \in Nat /\ High \in Nat /\ lag \in Nat /\ Start <= High /\ High <= lag
BY DEF TypeOK, Timed, Start, High, Waiting

LEMMA SaidType ==
    ASSUME NEW e \in Entries, NEW t \in 0..MaxTime
    PROVE  /\ Said(e, t) \in Need
           /\ e.at = t => Said(e, t) = e.need
<1>1. e.need \in Need /\ t - e.at \in Int
  BY DEF Entries
<1>2. e.at = t => t - e.at <= 0
  BY DEF Entries
<1>3. QED BY <1>1, <1>2, EvolveType, EvolveNot DEF Said

LEMMA Wider ==
    ASSUME NEW x \in Int, NEW y \in Int, NEW lo \in Nat, NEW hi \in Nat, NEW lo2 \in Nat, NEW hi2 \in Nat,
           lo <= lo2, hi <= hi2, Between(x, y, Growth * lo, Growth * hi)
    PROVE  Between(x, y, Growth * lo2, Growth * hi2)
<1>1. Growth * lo <= Growth * lo2 /\ Growth * hi <= Growth * hi2
  BY GrowthMono
<1>2. Growth * lo \in Nat /\ Growth * lo2 \in Nat /\ Growth * hi \in Nat /\ Growth * hi2 \in Nat
  BY GrowthNat
<1>3. QED BY <1>1, <1>2 DEF Between

LEMMA AccountedWider ==
    ASSUME NEW e \in Entries, NEW reference \in Need, NEW t \in 0..MaxTime,
           NEW lo \in Nat, NEW hi \in Nat, NEW lo2 \in Nat, NEW hi2 \in Nat,
           lo <= lo2, hi <= hi2, Accounted(e, reference, t, lo, hi)
    PROVE  Accounted(e, reference, t, lo2, hi2)
<1>1. Said(e, t) \in Int /\ reference \in Int
  BY SaidType
<1>2. QED BY <1>1, Wider DEF Accounted

LEMMA NoEntryAccounted ==
    ASSUME NEW reference, NEW t, NEW lo, NEW hi
    PROVE  Accounted(NoEntry, reference, t, lo, hi)
BY NoEntryType DEF Accounted

\* An entry that is read for the present says what it said.
LEMMA GotAccounted ==
    ASSUME TypeOK, Timed, NeedInv
    PROVE  /\ Got(clock) \in Entries /\ DueNow \in Need
           /\ Said(Got(clock), clock) = Got(clock).need
           /\ Accounted(Got(clock), DueNow, clock, Start, High)
<1>1. clock \in 0..MaxTime /\ due \in Need /\ DueNow \in Need
  BY DEF TypeOK, DueNow
<1>2. Got(clock) \in Entries /\ Said(Got(clock), clock) = Got(clock).need
  BY <1>1, GotType, SaidType
<1>3. CASE entry.known
  <2>1. Got(clock).need = Said(entry, clock) /\ DueNow = due
    BY <1>1, <1>3, GotType DEF Said, DueNow
  <2>2. QED BY <1>1, <1>2, <1>3, <2>1 DEF NeedInv, Accounted
<1>4. CASE ~entry.known
  <2>1. Got(clock).need = Initial /\ DueNow = Initial
    BY <1>1, <1>4, GotType DEF DueNow
  <2>2. Growth * Start \in Nat /\ Growth * High \in Nat
    BY Lags, GrowthNat
  <2>3. QED BY <1>1, <1>2, <2>1, <2>2 DEF Accounted, Between
<1>5. QED BY <1>1, <1>2, <1>3, <1>4

\* Read for the start of the heartbeat it may say more, but only by the lag since;
\* and what is read may be less, by no more than that.
LEMMA ReadAccounted ==
    ASSUME TypeOK, Timed, NeedInv, Waiting
    PROVE  /\ Got(hb.now) \in Entries /\ DueNow \in Need
           /\ hb.pc = "before" => Accounted(Got(hb.now), DueNow, clock, Start, lag)
           /\ Between(Got(hb.now).need, DueNow, Growth * lag, Growth * lag)
<1>1. /\ clock \in 0..MaxTime /\ hb.now \in 0..MaxTime /\ hb.now <= clock /\ clock - hb.now \in Nat
      /\ due \in Need /\ DueNow \in Need /\ entry \in Entries
  BY DEF TypeOK, Timed, DueNow
<1>2. /\ Got(hb.now) \in Entries /\ Got(hb.now).at = hb.now
      /\ Got(hb.now).need = IF entry.known THEN Evolve(entry.need, hb.now - entry.at) ELSE Initial
  BY <1>1, GotType
<1>3. lag = Start + (clock - hb.now)
  BY DEF Start, TypeOK, Timed
<1>4. /\ Growth * Start \in Nat /\ Growth * High \in Nat /\ Growth * lag \in Nat
      /\ Growth * (clock - hb.now) \in Nat
      /\ Growth * lag = Growth * Start + Growth * (clock - hb.now)
      /\ Growth * High <= Growth * lag
  <2>1. Growth * (Start + (clock - hb.now)) = Growth * Start + Growth * (clock - hb.now)
    BY <1>1, Lags, GrowthTimes
  <2>2. QED BY <1>1, <1>3, <2>1, Lags, GrowthNat, GrowthMono
<1>5. CASE entry.known
  <2> DEFINE x == Said(entry, clock)
             read == Got(hb.now).need
             y == Said(Got(hb.now), clock)
  <2>1. /\ x \in Need /\ read \in Need /\ y \in Need
        /\ x <= y /\ y <= x + Growth * (clock - hb.now)
        /\ read <= x /\ x <= read + Growth * (clock - hb.now)
    <3>1. /\ entry.need \in Need /\ entry.at \in Nat /\ hb.now \in Nat /\ clock \in Nat
          /\ entry.at <= clock
      BY <1>1 DEF Entries, Timed
    <3>2. /\ x = Evolve(entry.need, clock - entry.at)
          /\ read = Evolve(entry.need, hb.now - entry.at)
          /\ y = Evolve(read, clock - hb.now)
      BY <1>2, <1>5 DEF Said
    <3> HIDE DEF x, read, y
    <3>3. QED BY <1>1, <3>1, <3>2, ReadBack
  <2>2. Between(x, due, Growth * Start, Growth * High) /\ DueNow = due
    BY <1>5 DEF NeedInv, Accounted, DueNow
  <2>3. Between(read, due, Growth * lag, Growth * lag)
    BY <1>1, <1>4, <2>1, <2>2 DEF Between
  <2>4. hb.pc = "before" => Between(y, due, Growth * Start, Growth * lag)
    <3>1. hb.pc = "before" => Growth * High = Growth * Start
      BY DEF High
    <3>2. QED BY <1>1, <1>4, <2>1, <2>2, <3>1 DEF Between
  <2>5. QED BY <1>1, <1>2, <2>2, <2>3, <2>4 DEF Accounted
<1>6. CASE ~entry.known
  <2>1. Got(hb.now).need = Initial /\ DueNow = Initial
    BY <1>2, <1>6 DEF DueNow
  <2>2. Said(Got(hb.now), clock) = Evolve(Initial, clock - hb.now)
    BY <1>2, <2>1 DEF Said
  <2>3. /\ Evolve(Initial, clock - hb.now) \in Need
        /\ Initial <= Evolve(Initial, clock - hb.now)
        /\ Evolve(Initial, clock - hb.now) <= Initial + Growth * (clock - hb.now)
    <3>1. Initial \in Need /\ clock - hb.now \in Int
      BY <1>1
    <3>2. Evolve(Initial, clock - hb.now) \in Need
      BY <3>1, EvolveType
    <3>3. QED BY <1>1, <3>1, <3>2, EvolveNat
  <2>4. Between(Got(hb.now).need, DueNow, Growth * lag, Growth * lag)
    BY <1>4, <2>1 DEF Between
  <2>5. Growth * (clock - hb.now) <= Growth * lag
    BY <1>4
  <2>6. Between(Said(Got(hb.now), clock), DueNow, Growth * Start, Growth * lag)
    BY <1>4, <2>1, <2>2, <2>3, <2>5 DEF Between
  <2>7. QED BY <1>1, <1>2, <2>4, <2>6 DEF Accounted
<1>7. QED BY <1>5, <1>6

LEMMA StepNeed == TypeOK /\ Timed /\ NeedInv /\ [Next]_vars => NeedInv'
<1> SUFFICES ASSUME TypeOK, Timed, NeedInv, [Next]_vars PROVE NeedInv'
  OBVIOUS
<1>0. /\ clock \in 0..MaxTime /\ entry \in Entries /\ file \in Entries
      /\ due \in Need /\ fileDue \in Need
  BY DEF TypeOK
<1>1. TypeOK' /\ Timed'
  BY StepTimed
<1>2. /\ Start \in Nat /\ High \in Nat /\ lag \in Nat /\ Start <= High /\ High <= lag
      /\ Start' \in Nat /\ High' \in Nat
  <2>1. Start' \in Nat /\ High' \in Nat
    BY <1>1 DEF TypeOK, Timed, Start, High, Waiting
  <2>2. QED BY <2>1, Lags
\* A step that takes no time and settles no lag.
<1>3. ASSUME UNCHANGED clock, Start <= Start', High <= High',
             NEW e \in Entries, NEW reference \in Need, Accounted(e, reference, clock, Start, High)
      PROVE  Accounted(e, reference, clock', Start', High')
  BY <1>0, <1>2, <1>3, AccountedWider
<1>4. ASSUME UNCHANGED <<clock, entry, file, due, fileDue>>, Start <= Start', High <= High'
      PROVE  NeedInv'
  BY <1>0, <1>3, <1>4 DEF NeedInv
\* A step after which the session is not kept waiting.
<1>5. ASSUME UNCHANGED <<clock, lag>>, hb'.pc \in {"idle", "after"}
      PROVE  Start' = lag /\ High' = lag /\ Start <= Start' /\ High <= High'
  BY <1>2, <1>5 DEF Start, High, Waiting
<1>6. ASSUME UNCHANGED <<clock, lag>>, hb'.pc = hb.pc, hb'.now = hb.now
      PROVE  Start' = Start /\ High' = High /\ Start <= Start' /\ High <= High'
  BY <1>2, <1>6 DEF Start, High, Waiting
<1>7. ASSUME UNCHANGED clock, Start <= Start', High <= High', Save
      PROVE  NeedInv'
  <2>1. Accounted(Got(clock), DueNow, clock', Start', High') /\ DueNow \in Need
    BY <1>3, <1>7, GotAccounted
  <2>2. Accounted(entry, due, clock', Start', High')
    BY <1>0, <1>3, <1>7 DEF NeedInv
  <2>3. Accounted(NoEntry, 0, clock', Start', High')
    BY NoEntryAccounted
  <2>4. entry.known => DueNow = due
    BY DEF DueNow
  <2>5. QED BY <1>7, <2>1, <2>2, <2>3, <2>4, SaveEffect DEF NeedInv
<1>8. CASE StartHeartbeat
  <2>1. UNCHANGED <<clock, entry, file, due, fileDue, lag>> /\ hb'.now = clock /\ Start = lag /\ High = lag
    BY <1>8 DEF StartHeartbeat, Start, High, Waiting, Idle
  <2>2. Start' = lag /\ High' = lag
    BY <1>0, <1>2, <2>1 DEF Start, High, Waiting
  <2>3. QED BY <1>2, <1>4, <2>1, <2>2
<1>9. CASE Visit
  <2>1. /\ hb.pc = "before" /\ UNCHANGED <<clock, file, fileDue, lag>>
        /\ hb'.now = hb.now /\ hb'.pc \in {"assess", "after"}
    BY <1>9 DEF Visit, Goto, TypeOK
  <2>2. Start = High /\ Start <= Start' /\ High' = lag /\ High <= High'
    BY <1>2, <2>1 DEF Start, High, Waiting
  <2>3. CASE UNCHANGED <<entry, due>>
    BY <1>4, <2>1, <2>2, <2>3
  <2>4. CASE entry' = Got(hb.now) /\ due' = DueNow
    <3>1. Accounted(Got(hb.now), DueNow, clock, Start, lag) /\ Got(hb.now) \in Entries /\ DueNow \in Need
      BY <2>1, ReadAccounted DEF Waiting
    <3>2. Accounted(entry', due', clock', Start', High')
      BY <1>0, <1>2, <2>1, <2>2, <2>4, <3>1, AccountedWider
    <3>3. Accounted(file', fileDue', clock', Start', High')
      BY <1>0, <1>3, <2>1, <2>2 DEF NeedInv
    <3>4. QED BY <3>2, <3>3 DEF NeedInv
  <2>5. QED BY <1>9, <2>3, <2>4 DEF Visit
<1>10. ASSUME NEW assessed \in Assessments, Assessed(assessed) PROVE NeedInv'
  <2>1. hb.pc = "assess" /\ UNCHANGED <<clock, file, fileDue, lag>> /\ hb'.pc = "after"
    BY <1>10 DEF Assessed, Goto, TypeOK
  <2>2. Start' = lag /\ High' = lag /\ Start <= Start' /\ High <= High'
    BY <1>5, <2>1
  <2>3. CASE UNCHANGED <<entry, due>>
    BY <1>4, <2>1, <2>2, <2>3
  <2>4. CASE entry' = Entry(Merged(Basis, assessed), clock) /\ due' = Merged(DueNow, assessed)
    <3>1. Basis \in Need /\ DueNow \in Need /\ Between(Basis, DueNow, Growth * lag, Growth * lag)
      BY <2>1, ReadAccounted DEF Waiting, Basis, Entries
    <3>2. Growth * lag \in Nat
      BY <1>2, GrowthNat
    <3>3. Between(Merged(Basis, assessed), Merged(DueNow, assessed), Growth * lag, Growth * lag)
      BY <3>1, <3>2, MergedBetween
    <3>4. Merged(Basis, assessed) \in Need
      BY <3>1, MergedType
    <3>5. /\ Entry(Merged(Basis, assessed), clock) \in Entries
          /\ Said(Entry(Merged(Basis, assessed), clock), clock) = Merged(Basis, assessed)
      BY <1>0, <3>4, EntryType, SaidType
    <3>6. Accounted(entry', due', clock', Start', High')
      BY <2>1, <2>2, <2>4, <3>3, <3>5 DEF Accounted
    <3>7. Accounted(file', fileDue', clock', Start', High')
      BY <1>0, <1>3, <2>1, <2>2 DEF NeedInv
    <3>8. QED BY <3>6, <3>7 DEF NeedInv
  <2>5. QED BY <1>10, <2>3, <2>4 DEF Assessed
<1>11. CASE AssessFailed
  BY <1>4, <1>5, <1>11 DEF AssessFailed, Goto, TypeOK
<1>12. CASE RecordSend
  BY <1>6, <1>7, <1>12 DEF RecordSend
<1>13. CASE FinishHeartbeat
  BY <1>4, <1>5, <1>7, <1>13 DEF FinishHeartbeat, Idle
<1>14. CASE UserMessage
  <2>1. UNCHANGED <<clock, file, hb, fileDue, lag>>
        /\ entry' = Entry(Coupled(Got(clock).need), clock) /\ due' = Coupled(DueNow)
    BY <1>14 DEF UserMessage
  <2>2. Start' = Start /\ High' = High
    BY <1>6, <2>1
  <2>3. /\ Got(clock).need \in Need /\ DueNow \in Need
        /\ Between(Got(clock).need, DueNow, Growth * Start, Growth * High)
    BY <1>0, GotType, GotAccounted DEF Accounted, Entries
  <2>4. Between(Coupled(Got(clock).need), Coupled(DueNow), Growth * Start, Growth * High)
    BY <1>2, <2>3, GrowthNat, CoupledBetween
  <2>5. Coupled(Got(clock).need) \in Need
    BY <2>3 DEF Coupled, AtMost
  <2>6. /\ Entry(Coupled(Got(clock).need), clock) \in Entries
        /\ Said(Entry(Coupled(Got(clock).need), clock), clock) = Coupled(Got(clock).need)
    BY <1>0, <2>5, EntryType, SaidType
  <2>7. Accounted(entry', due', clock', Start', High')
    BY <2>1, <2>2, <2>4, <2>6 DEF Accounted
  <2>8. Accounted(file', fileDue', clock', Start', High')
    BY <2>1, <2>2 DEF NeedInv
  <2>9. QED BY <2>7, <2>8 DEF NeedInv
<1>15. CASE AgentMessage
  BY <1>4, <1>6, <1>15 DEF AgentMessage
<1>16. CASE PluginInit
  <2>1. UNCHANGED <<clock, file, hb, fileDue, lag>> /\ entry' = Restored /\ due' = fileDue
    BY <1>16 DEF PluginInit
  <2>2. Start' = Start /\ High' = High
    BY <1>6, <2>1
  <2>3. Restored.known => file.known /\ Said(Restored, clock) = Said(file, clock)
    <3>1. Restored \in Entries /\ (Restored.known <=> file.known)
      BY RestoredType
    <3>2. file.known => Said(Restored, clock) = Restored.need /\ Restored.need = Said(file, clock)
      BY <1>0, <3>1, RestoredType, SaidType DEF Said
    <3>3. QED BY <3>1, <3>2
  <2>4. Accounted(Restored, fileDue, clock, Start, High)
    BY <2>3 DEF NeedInv, Accounted
  <2>5. QED BY <2>1, <2>2, <2>4 DEF NeedInv
<1>17. CASE Teardown
  <2>1. /\ UNCHANGED <<clock, lag>> /\ hb'.pc = hb.pc /\ hb'.now = hb.now /\ entry' = NoEntry
        /\ \/ entry.known /\ file' = Got(clock) /\ fileDue' = due
           \/ file' = NoEntry
    BY <1>17 DEF Teardown, Kept, TypeOK
  <2>2. Start' = Start /\ High' = High
    BY <1>6, <2>1
  <2>3. entry.known => DueNow = due
    BY DEF DueNow
  <2>4. Accounted(file', fileDue', clock', Start', High')
    BY <2>1, <2>2, <2>3, GotAccounted, NoEntryAccounted
  <2>5. QED BY <2>1, <2>4, NoEntryAccounted DEF NeedInv
<1>18. CASE Crash
  <2>1. UNCHANGED <<clock, file, fileDue, lag>> /\ entry' = NoEntry /\ hb'.pc = "idle"
    BY <1>18 DEF Crash, Idle
  <2>2. Accounted(file', fileDue', clock', Start', High')
    BY <1>0, <1>3, <1>5, <2>1 DEF NeedInv
  <2>3. QED BY <2>1, <2>2, NoEntryAccounted DEF NeedInv
<1>19. CASE ClockTick
  <2>1. /\ clock' = clock + 1 /\ UNCHANGED <<entry, file, hb>>
        /\ due' = Evolve(due, 1) /\ fileDue' = Evolve(fileDue, 1)
        /\ lag' = IF Waiting THEN lag + 1 ELSE lag
    BY <1>2, <1>19 DEF ClockTick, Waiting
  <2>2. Start' = Start /\ High <= High'
    <3>1. hb.now \in Int /\ (clock + 1) - hb.now = (clock - hb.now) + 1
      <4>1. hb.now \in 0..MaxTime
        BY DEF TypeOK
      <4>2. QED BY <1>0, <4>1
    <3>2. CASE Waiting
      <4>1. Waiting' /\ lag' = lag + 1
        BY <2>1, <3>2 DEF Waiting
      <4>2. Start' = Start
        BY <1>0, <1>2, <2>1, <3>1, <3>2, <4>1 DEF Start
      <4>3. QED BY <1>2, <2>1, <4>1, <4>2 DEF High
    <3>3. CASE ~Waiting
      BY <1>2, <2>1, <3>3 DEF Start, High, Waiting
    <3>4. QED BY <3>2, <3>3
  <2>3. ASSUME NEW e \in Entries, NEW reference \in Need, e.at <= clock,
               Accounted(e, reference, clock, Start, High)
        PROVE  Accounted(e, Evolve(reference, 1), clock', Start', High')
    <3>1. Said(e, clock') = Evolve(Said(e, clock), 1)
      <4>1. e.need \in Need /\ clock - e.at \in Nat /\ clock' - e.at = (clock - e.at) + 1
        BY <1>0, <2>1, <2>3 DEF Entries
      <4>2. QED BY <4>1, EvolveOnce DEF Said
    <3>2. 1 \in Nat /\ 1 \in Int /\ Said(e, clock) \in Need /\ Growth * Start \in Nat /\ Growth * High \in Nat
      BY <1>0, <1>2, <2>3, SaidType, GrowthNat
    <3>3. e.known => Between(Evolve(Said(e, clock), 1), Evolve(reference, 1), Growth * Start, Growth * High)
      BY <2>3, <3>2, EvolveBetween DEF Accounted
    <3>4. Evolve(Said(e, clock), 1) \in Need /\ Evolve(reference, 1) \in Need
      <4>1. Evolve(Said(e, clock), 1) \in Need
        BY <3>2, EvolveType
      <4>2. Evolve(reference, 1) \in Need
        BY <2>3, <3>2, EvolveType
      <4>3. QED BY <4>1, <4>2
    <3>5. Evolve(Said(e, clock), 1) \in Int /\ Evolve(reference, 1) \in Int
      BY <3>4
    <3>6. e.known => Between(Evolve(Said(e, clock), 1), Evolve(reference, 1), Growth * Start', Growth * High')
      <4>1. Growth * Start' = Growth * Start /\ Growth * High <= Growth * High' /\ Growth * High' \in Nat
        BY <1>2, <2>2, GrowthMono, GrowthNat
      <4>2. QED BY <3>2, <3>3, <3>5, <4>1 DEF Between
    <3>7. QED BY <3>1, <3>6 DEF Accounted
  <2>4. QED BY <1>0, <2>1, <2>3 DEF NeedInv, Timed
<1>20. CASE UNCHANGED vars
  BY <1>4, <1>6, <1>20 DEF vars
<1>21. QED
  BY <1>8, <1>9, <1>10, <1>11, <1>12, <1>13, <1>14, <1>15, <1>16, <1>17, <1>18, <1>19, <1>20 DEF Next

LEMMA NeedAlways == Spec => [](TypeOK /\ Timed /\ NeedInv)
<1>1. Init => TypeOK /\ Timed /\ NeedInv
  BY NoEntryType, NoEntryAccounted DEF Init, TypeOK, Timed, Start, Waiting, Idle, NeedInv
<1>2. QED BY <1>1, StepTimed, StepNeed, PTL DEF Spec

LEMMA LagCovers ==
    ASSUME TypeOK, Timed, NEW e \in Entries, NEW reference \in Need,
           Accounted(e, reference, clock, Start, High), e.known
    PROVE  Within(Evolve(e.need, clock - e.at), reference)
<1>1. Start \in Nat /\ High \in Nat /\ lag \in Nat /\ Start <= High /\ High <= lag
  BY Lags
<1>2. Start <= lag
  BY <1>1
<1>3. clock \in 0..MaxTime
  BY DEF TypeOK
<1>4. Accounted(e, reference, clock, lag, lag)
  BY <1>1, <1>2, <1>3, AccountedWider
<1>5. QED BY <1>4 DEF Accounted, Between, Said, Within

\* For every scale, growth, reset and assessments: the need of a session is what
\* the wall clock, the messages and the assessments make it, but for the time that
\* heartbeats kept it waiting.
THEOREM NeedAlwaysElapsed == Spec => []NeedIsElapsed
<1>1. TypeOK /\ Timed /\ NeedInv => NeedIsElapsed
  BY LagCovers DEF NeedInv, NeedIsElapsed, TypeOK
<1>2. QED BY <1>1, NeedAlways, PTL

\* The same of the need that the snapshot would restore at any time.
THEOREM SavedNeedAlwaysElapsed == Spec => []SavedNeedIsElapsed
<1>1. TypeOK /\ Timed /\ NeedInv => SavedNeedIsElapsed
  BY LagCovers DEF NeedInv, SavedNeedIsElapsed, TypeOK
<1>2. QED BY <1>1, NeedAlways, PTL

=============================================================================
