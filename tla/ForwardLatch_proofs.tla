------------------------- MODULE ForwardLatch_proofs -------------------------
(***************************************************************************)
(* The bound on a pause of the forwarding, for any number of threads.      *)
(***************************************************************************)
EXTENDS ForwardLatch, TLAPS

\* A thread that is still to close the latch read its time before the pause
\* began, so the end it sets is no later than the first one.
Straggling == {"post", "add", "check"}
StragglersAreOld ==
    \A h \in Hooks : call[h].pc \in Straggling /\ left > 0 => call[h].age >= paused
OpenIsNotPaused == left = 0 => paused = 0
IInv == TypeOK /\ PauseBounded /\ OpenIsNotPaused /\ StragglersAreOld

LEMMA InitIInv == Init => IInv
BY LatchAssumption DEF Init, IInv, TypeOK, Count, Calls, NotForwarding, PauseBounded,
       OpenIsNotPaused, StragglersAreOld, Straggling

LEMMA StepIInv == IInv /\ [Next]_vars => IInv'
<1> SUFFICES ASSUME IInv, [Next]_vars PROVE IInv'
  OBVIOUS
<1> USE LatchAssumption DEF Bookkeeping, Straggling, Count
<1>0. TypeOK /\ PauseBounded /\ OpenIsNotPaused /\ StragglersAreOld
  BY DEF IInv
<1>1. ASSUME NEW h \in Hooks, Forward(h) PROVE IInv'
  <2>1. /\ call' = [call EXCEPT ![h].pc = "post"] /\ left = 0
        /\ UNCHANGED <<up, failures, left, paused>>
    BY <1>1 DEF Forward, Goto
  <2>2. QED BY <1>0, <2>1 DEF IInv, TypeOK, Calls, PauseBounded, OpenIsNotPaused, StragglersAreOld
<1>2. ASSUME NEW h \in Hooks, Succeed(h) PROVE IInv'
  <2>1. /\ call' = [call EXCEPT ![h].pc = "reset"]
        /\ UNCHANGED <<up, failures, left, paused>>
    BY <1>2 DEF Succeed, Goto
  <2>2. QED BY <1>0, <2>1 DEF IInv, TypeOK, Calls, PauseBounded, OpenIsNotPaused, StragglersAreOld
<1>3. ASSUME NEW h \in Hooks, Fail(h) PROVE IInv'
  <2>1. /\ call' = [call EXCEPT ![h].pc = "add", ![h].read = failures]
        /\ UNCHANGED <<up, failures, left, paused>> /\ call[h].pc = "post"
    BY <1>3 DEF Fail
  <2>2. QED BY <1>0, <2>1 DEF IInv, TypeOK, Calls, PauseBounded, OpenIsNotPaused, StragglersAreOld
<1>4. ASSUME NEW h \in Hooks, Reset(h) PROVE IInv'
  <2>1. /\ call' = [call EXCEPT ![h].pc = "unlatch"] /\ failures' = 0
        /\ UNCHANGED <<up, left, paused>>
    BY <1>4 DEF Reset, Goto
  <2>2. QED BY <1>0, <2>1 DEF IInv, TypeOK, Calls, PauseBounded, OpenIsNotPaused, StragglersAreOld
<1>5. ASSUME NEW h \in Hooks, Unlatch(h) PROVE IInv'
  <2>1. /\ call' = [call EXCEPT ![h] = NotForwarding] /\ left' = 0 /\ paused' = 0
        /\ UNCHANGED <<up, failures>>
    BY <1>5 DEF Unlatch, Return
  <2>2. QED BY <1>0, <2>1 DEF IInv, TypeOK, Calls, NotForwarding, PauseBounded, OpenIsNotPaused,
                              StragglersAreOld
<1>6. ASSUME NEW h \in Hooks, Add(h) PROVE IInv'
  <2>1. /\ call' = [call EXCEPT ![h].pc = "check"] /\ call[h].pc = "add"
        /\ failures' = IF call[h].read < Threshold THEN call[h].read + 1 ELSE Threshold
        /\ UNCHANGED <<up, left, paused>>
    BY <1>6 DEF Add, Goto
  <2>2. QED BY <1>0, <2>1 DEF IInv, TypeOK, Calls, PauseBounded, OpenIsNotPaused, StragglersAreOld
<1>7. ASSUME NEW h \in Hooks, Check(h) PROVE IInv'
  <2>1. call[h].pc = "check" /\ UNCHANGED <<up, failures, paused>>
    BY <1>7 DEF Check
  <2>2. CASE failures >= Threshold
    <3>1. call' = [call EXCEPT ![h].pc = "clear"] /\ left' = Latch - call[h].age
      BY <1>7, <2>2 DEF Check, Goto, Until
    <3>2. /\ paused <= call[h].age /\ left' \in 0..Latch /\ left' > 0
          /\ paused + left' <= Latch
      BY <1>0, <2>1, <3>1 DEF TypeOK, Calls, OpenIsNotPaused, StragglersAreOld
    <3>3. ASSUME NEW g \in Hooks, call'[g].pc \in Straggling PROVE call'[g].age >= paused'
      BY <1>0, <2>1, <3>1, <3>3 DEF TypeOK, Calls, OpenIsNotPaused, StragglersAreOld
    <3>4. QED BY <1>0, <2>1, <3>1, <3>2, <3>3
              DEF IInv, TypeOK, Calls, PauseBounded, OpenIsNotPaused, StragglersAreOld
  <2>3. CASE ~(failures >= Threshold)
    <3>1. call' = [call EXCEPT ![h] = NotForwarding] /\ left' = left
      BY <1>7, <2>3 DEF Check, Return
    <3>2. QED BY <1>0, <2>1, <3>1 DEF IInv, TypeOK, Calls, NotForwarding, PauseBounded,
                                      OpenIsNotPaused, StragglersAreOld
  <2>4. QED BY <2>2, <2>3
<1>8. ASSUME NEW h \in Hooks, Clear(h) PROVE IInv'
  <2>1. /\ call' = [call EXCEPT ![h] = NotForwarding] /\ failures' = 0
        /\ UNCHANGED <<up, left, paused>>
    BY <1>8 DEF Clear, Return
  <2>2. QED BY <1>0, <2>1 DEF IInv, TypeOK, Calls, NotForwarding, PauseBounded, OpenIsNotPaused,
                              StragglersAreOld
<1>9. ASSUME Tick PROVE IInv'
  <2>0. /\ \A g \in Hooks : call[g].pc \in {"idle", "post"} /\ call[g].age < Timeout
        /\ call' = [g \in Hooks |-> IF call[g].pc = "post"
                                    THEN [call[g] EXCEPT !.age = @ + 1] ELSE call[g]]
        /\ UNCHANGED <<up, failures>>
    BY <1>0, <1>9 DEF Tick, TypeOK, Calls
  <2>1. /\ left' = IF left > 0 THEN left - 1 ELSE 0
        /\ paused' = IF left' > 0 THEN paused + 1 ELSE 0
    BY <1>0, <1>9 DEF Tick, TypeOK, PauseBounded
  <2>2. call' \in [Hooks -> Calls]
    BY <1>0, <2>0 DEF TypeOK, Calls
  <2>3. ASSUME NEW g \in Hooks, call'[g].pc \in Straggling, left' > 0
        PROVE  call'[g].age >= paused'
    BY <1>0, <2>0, <2>1, <2>3 DEF TypeOK, Calls, StragglersAreOld
  <2>4. QED BY <1>0, <2>0, <2>1, <2>2, <2>3
            DEF IInv, TypeOK, PauseBounded, OpenIsNotPaused, StragglersAreOld
<1>10. CASE Toggle
  BY <1>0, <1>10 DEF Toggle, IInv, TypeOK, PauseBounded, OpenIsNotPaused, StragglersAreOld
<1>11. CASE UNCHANGED vars
  BY <1>0, <1>11 DEF vars, IInv, TypeOK, PauseBounded, OpenIsNotPaused, StragglersAreOld
<1>12. QED
  BY <1>1, <1>2, <1>3, <1>4, <1>5, <1>6, <1>7, <1>8, <1>9, <1>10, <1>11 DEF Next, Proceed

\* However many threads forward events, lose each other's counts and close the
\* latch over one another, a pause lasts at most FORWARD_LATCH_SEC from the
\* moment it began.
THEOREM PausesAreBounded == Spec => []PauseBounded
<1>1. IInv => PauseBounded
  BY DEF IInv
<1>2. QED BY <1>1, InitIInv, StepIInv, PTL DEF Spec

-----------------------------------------------------------------------------
(* A pause runs out. *)

\* How many steps a thread has still to take at most.
Due(pc) ==
    IF pc = "post" THEN 4
    ELSE IF pc = "add" THEN 3
    ELSE IF pc \in {"check", "reset"} THEN 2
    ELSE IF pc \in {"clear", "unlatch"} THEN 1
    ELSE 0
NoneLater == \A h \in Hooks : Due(call'[h].pc) <= Due(call[h].pc)
SomeSooner == \E h \in Hooks : Due(call'[h].pc) < Due(call[h].pc)

LEMMA ProceedSooner ==
    ASSUME TypeOK, NEW h \in Hooks, Proceed(h)
    PROVE  NoneLater /\ SomeSooner
<1>1. /\ \A g \in Hooks \ {h} : call'[g] = call[g]
      /\ Due(call'[h].pc) < Due(call[h].pc)
  <2>1. CASE Succeed(h) \/ Reset(h) \/ Add(h)
    <3>1. PICK pc \in {"reset", "unlatch", "check"} :
              call' = [call EXCEPT ![h].pc = pc] /\ Due(pc) < Due(call[h].pc)
      BY <2>1 DEF Succeed, Reset, Add, Goto, Due
    <3>2. QED BY <3>1 DEF TypeOK, Calls
  <2>2. CASE Fail(h)
    <3>1. call[h].pc = "post"
      BY <2>2 DEF Fail
    <3>2. call' = [call EXCEPT ![h].pc = "add", ![h].read = failures]
      BY <2>2 DEF Fail
    <3>3. call'[h].pc = "add" /\ \A g \in Hooks \ {h} : call'[g] = call[g]
      BY <3>2 DEF TypeOK, Calls
    <3>4. QED BY <3>1, <3>3 DEF Due
  <2>3. CASE Check(h)
    <3>1. call[h].pc = "check"
      BY <2>3 DEF Check
    <3>2. call' \in {[call EXCEPT ![h].pc = "clear"], [call EXCEPT ![h] = NotForwarding]}
      BY <2>3 DEF Check, Goto, Return
    <3>3. call'[h].pc \in {"clear", "idle"} /\ \A g \in Hooks \ {h} : call'[g] = call[g]
      BY <3>2 DEF TypeOK, Calls, NotForwarding
    <3>4. QED BY <3>1, <3>3 DEF Due
  <2>4. CASE Unlatch(h) \/ Clear(h)
    <3>1. call[h].pc \in {"unlatch", "clear"}
      BY <2>4 DEF Unlatch, Clear
    <3>2. call' = [call EXCEPT ![h] = NotForwarding]
      BY <2>4 DEF Unlatch, Clear, Return
    <3>3. call'[h].pc = "idle" /\ \A g \in Hooks \ {h} : call'[g] = call[g]
      BY <3>2 DEF TypeOK, NotForwarding
    <3>4. QED BY <3>1, <3>3 DEF Due
  <2>5. QED BY <2>1, <2>2, <2>3, <2>4 DEF Proceed
<1>2. QED BY <1>1 DEF NoneLater, SomeSooner, Due

\* Why a pause ends, for any number of threads, up to fairness: while it lasts no
\* thread begins to forward, each step of one brings it nearer its return, and
\* time brings the end nearer.  Only a thread that so comes nearer its return may
\* put the end off.
PauseRunsOut ==
    [][left > 0 =>
        /\ NoneLater
        /\ (\E h \in Hooks : Proceed(h)) => SomeSooner
        /\ Tick => left' < left
        /\ left' > left => SomeSooner]_vars

THEOREM PausesRunOut == Spec => PauseRunsOut
<1>1. ASSUME IInv, [Next]_vars, left > 0
      PROVE  /\ NoneLater
             /\ (\E h \in Hooks : Proceed(h)) => SomeSooner
             /\ Tick => left' < left
             /\ left' > left => SomeSooner
  <2>0. /\ TypeOK /\ left \in Nat
        /\ Tick => left' < left
    BY <1>1, LatchAssumption DEF IInv, TypeOK, Tick
  <2>1. CASE \E h \in Hooks : Proceed(h)
    <3>1. NoneLater /\ SomeSooner
      BY <2>0, <2>1, ProceedSooner
    <3>2. QED BY <2>0, <3>1
  <2>2. CASE ~(\E h \in Hooks : Proceed(h)) /\ Tick
    <3>1. \A h \in Hooks : call'[h].pc = call[h].pc
      BY <2>0, <2>2 DEF Tick, TypeOK, Calls
    <3>2. ~(left' > left)
      BY <1>1, <2>2 DEF Tick, IInv, TypeOK
    <3>3. QED BY <2>0, <2>2, <3>1, <3>2 DEF NoneLater, Due
  <2>3. CASE ~(\E h \in Hooks : Proceed(h)) /\ ~Tick
    <3>1. UNCHANGED <<left, call>>
      BY <1>1, <2>3 DEF Next, Forward, Toggle, vars
    <3>2. QED BY <2>0, <2>3, <3>1 DEF NoneLater, Due
  <2>4. QED BY <2>1, <2>2, <2>3
<1>2. IInv /\ [Next]_vars =>
        (left > 0 => /\ NoneLater
                     /\ (\E h \in Hooks : Proceed(h)) => SomeSooner
                     /\ Tick => left' < left
                     /\ left' > left => SomeSooner)
  BY <1>1
<1>3. QED BY <1>2, InitIInv, StepIInv, PTL DEF Spec, PauseRunsOut
=============================================================================
