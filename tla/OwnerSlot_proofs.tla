--------------------------- MODULE OwnerSlot_proofs ---------------------------
(***************************************************************************)
(* Mutual exclusion of the owner slot, for any number of processes, when   *)
(* acquisitions do not overlap.                                            *)
(***************************************************************************)
EXTENDS OwnerSlot, TLAPS

Holding == {"owner", "remove"}
Claiming == {"write", "open", "rewrite", "confirm"}

\* One process acquires at a time; whoever holds the slot is named by the marker
\* unless exposed; and nobody else holds it once a process has got past the
\* checks.  Only an exposed process can have lost the marker it has open.
OneAcquires == \A p, q \in Pids : pc[p] \in Acquiring /\ pc[q] \in Acquiring => p = q
HolderIsNamed == \A p \in Pids \ exposed : pc[p] \in Holding \cup {"confirm"} => marker = p
ClaimsAFreeSlot ==
    \A p, q \in Pids : pc[p] \in Claiming /\ pc[q] \in Holding => q \in exposed
UnlinkedIsExposed ==
    \A p \in unlinked : p \in exposed /\ pc[p] \in {"write", "rewrite"} /\ marker = Absent
UnguardedIsExposed == \A p \in Pids : pc[p] = "unguarded" => p \in exposed
ConfirmsItself == \A p \in Pids : pc[p] = "confirm" => marker \notin Pids \ {p}
IInv == /\ TypeOK /\ OneAcquires /\ HolderIsNamed /\ ClaimsAFreeSlot
        /\ UnlinkedIsExposed /\ UnguardedIsExposed /\ ConfirmsItself

LEMMA InitIInv == Init => IInv
BY DEF Init, IInv, TypeOK, States, Acquiring, Holding, Claiming, OneAcquires,
       HolderIsNamed, ClaimsAFreeSlot, UnlinkedIsExposed, UnguardedIsExposed,
                ConfirmsItself

LEMMA StepIInv ==
    ASSUME "race" \notin Events, IInv, [Next]_vars
    PROVE  IInv'
<1> USE DEF Acquiring, Holding, Claiming, Goto
<1>0. /\ TypeOK /\ OneAcquires /\ HolderIsNamed /\ ClaimsAFreeSlot
      /\ UnlinkedIsExposed /\ UnguardedIsExposed /\ ConfirmsItself
      /\ Absent \notin Pids /\ Blank \notin Pids /\ Absent # Blank
  BY PidsAssumption DEF IInv, Absent, Blank
<1>1. ASSUME NEW p \in Pids, Begin(p) PROVE IInv'
  <2>1. pc' = [pc EXCEPT ![p] = "create"] /\ \A q \in Pids : pc[q] \notin Acquiring
        /\ UNCHANGED <<marker, unlinked, exposed>> /\ pc[p] = "gone"
    BY <1>1 DEF Begin
  <2>2. QED BY <1>0, <2>1
            DEF IInv, TypeOK, States, OneAcquires, HolderIsNamed,
                ClaimsAFreeSlot, UnlinkedIsExposed, UnguardedIsExposed,
                ConfirmsItself
<1>2. ASSUME NEW p \in Pids, Create(p) PROVE IInv'
  <2>1. CASE marker = Absent
    <3>1. pc' = [pc EXCEPT ![p] = "write"] /\ marker' = Blank /\ pc[p] = "create"
          /\ UNCHANGED <<unlinked, exposed>>
      BY <1>2, <2>1 DEF Create
    <3>2. \A q \in Pids \ exposed : pc[q] \notin Holding \cup {"confirm"}
      BY <1>0, <2>1 DEF HolderIsNamed
    <3>3. unlinked = {}
      BY <1>0, <3>1 DEF UnlinkedIsExposed, OneAcquires, TypeOK
    <3>4. QED BY <1>0, <3>1, <3>2, <3>3
              DEF IInv, TypeOK, States, OneAcquires, HolderIsNamed,
                  ClaimsAFreeSlot, UnlinkedIsExposed, UnguardedIsExposed,
                ConfirmsItself
  <2>2. CASE marker # Absent
    <3>1. pc' = [pc EXCEPT ![p] = "read"] /\ UNCHANGED <<marker, unlinked, exposed>>
          /\ pc[p] = "create"
      BY <1>2, <2>2 DEF Create
    <3>2. QED BY <1>0, <3>1
              DEF IInv, TypeOK, States, OneAcquires, HolderIsNamed,
                  ClaimsAFreeSlot, UnlinkedIsExposed, UnguardedIsExposed,
                ConfirmsItself
  <2>3. QED BY <2>1, <2>2
<1>3. ASSUME NEW p \in Pids, Write(p) PROVE IInv'
  <2>1. /\ pc' = [pc EXCEPT ![p] = "owner"] /\ exposed' = exposed /\ pc[p] = "write"
        /\ marker' = (IF p \in unlinked THEN marker ELSE p) /\ unlinked' = unlinked \ {p}
    BY <1>3 DEF Write, Written
  <2>2. \A q \in Pids : q # p => pc[q] \notin Acquiring /\ (pc[q] \in Holding => q \in exposed)
    BY <1>0, <2>1 DEF OneAcquires, ClaimsAFreeSlot
  <2>3. unlinked' = {} /\ (p \in unlinked => p \in exposed)
    BY <1>0, <2>1, <2>2 DEF UnlinkedIsExposed, TypeOK
  <2>4. QED BY <1>0, <2>1, <2>2, <2>3
            DEF IInv, TypeOK, States, OneAcquires, HolderIsNamed,
                ClaimsAFreeSlot, UnlinkedIsExposed, UnguardedIsExposed,
                ConfirmsItself
<1>4. ASSUME NEW p \in Pids, Read(p) PROVE IInv'
  <2>1. PICK current \in OwnerPid :
          /\ pc' = [pc EXCEPT ![p] = IF TakesOver(p, current) THEN "open" ELSE "inert"]
          /\ exposed' = exposed \cup IF current = marker THEN {}
                                     ELSE {q \in Pids \ {p} : marker = q /\ Alive(q)}
    BY <1>4 DEF Read
  <2>2. pc[p] = "read" /\ UNCHANGED <<marker, unlinked>> /\ exposed \subseteq exposed'
        /\ exposed' \subseteq Pids
    BY <1>0, <1>4, <2>1 DEF Read, TypeOK
  <2>3. CASE TakesOver(p, current)
    <3>1. pc' = [pc EXCEPT ![p] = "open"]
      BY <2>1, <2>3
    <3>2. \A q \in Pids : pc[q] \in Holding => q \in exposed'
      <4> SUFFICES ASSUME NEW q \in Pids, pc[q] \in Holding, q \notin exposed
                   PROVE  q \in exposed'
        BY <2>2
      <4>1. marker = q /\ q # p /\ Alive(q)
        BY <1>0, <2>2 DEF HolderIsNamed, Alive
      <4>2. current # marker
        BY <2>3, <4>1 DEF TakesOver
      <4>3. QED BY <2>1, <4>1, <4>2
    <3>3. QED BY <1>0, <2>2, <3>1, <3>2
              DEF IInv, TypeOK, States, OneAcquires, HolderIsNamed,
                  ClaimsAFreeSlot, UnlinkedIsExposed, UnguardedIsExposed,
                ConfirmsItself
  <2>4. CASE ~TakesOver(p, current)
    <3>1. pc' = [pc EXCEPT ![p] = "inert"]
      BY <2>1, <2>4
    <3>2. QED BY <1>0, <2>2, <3>1
              DEF IInv, TypeOK, States, OneAcquires, HolderIsNamed,
                  ClaimsAFreeSlot, UnlinkedIsExposed, UnguardedIsExposed,
                ConfirmsItself
  <2>5. QED BY <2>3, <2>4
<1>5. ASSUME NEW p \in Pids, Open(p) PROVE IInv'
  <2>1. pc' = [pc EXCEPT ![p] = "rewrite"] /\ marker' = Blank /\ pc[p] = "open"
        /\ UNCHANGED <<unlinked, exposed>>
    BY <1>5 DEF Open
  <2>2. \A q \in Pids \ exposed : pc[q] \notin Holding \cup {"confirm"}
    BY <1>0, <2>1 DEF OneAcquires, ClaimsAFreeSlot
  <2>3. unlinked = {}
    BY <1>0, <2>1 DEF UnlinkedIsExposed, OneAcquires, TypeOK
  <2>4. QED BY <1>0, <2>1, <2>2, <2>3
            DEF IInv, TypeOK, States, OneAcquires, HolderIsNamed,
                ClaimsAFreeSlot, UnlinkedIsExposed, UnguardedIsExposed,
                ConfirmsItself
<1>6. ASSUME NEW p \in Pids, Rewrite(p) PROVE IInv'
  <2>1. /\ pc' = [pc EXCEPT ![p] = "confirm"] /\ exposed' = exposed /\ pc[p] = "rewrite"
        /\ marker' = (IF p \in unlinked THEN marker ELSE p) /\ unlinked' = unlinked \ {p}
    BY <1>6 DEF Rewrite, Written
  <2>2. \A q \in Pids : q # p => pc[q] \notin Acquiring /\ (pc[q] \in Holding => q \in exposed)
    BY <1>0, <2>1 DEF OneAcquires, ClaimsAFreeSlot
  <2>3. unlinked' = {} /\ (p \in unlinked => p \in exposed /\ marker = Absent)
    BY <1>0, <2>1, <2>2 DEF UnlinkedIsExposed, TypeOK
  <2>4. QED BY <1>0, <2>1, <2>2, <2>3
            DEF IInv, TypeOK, States, OneAcquires, HolderIsNamed,
                ClaimsAFreeSlot, UnlinkedIsExposed, UnguardedIsExposed,
                ConfirmsItself
<1>7. ASSUME NEW p \in Pids, Confirm(p) PROVE IInv'
  <2>1. pc' = [pc EXCEPT ![p] = "owner"] /\ pc[p] = "confirm"
        /\ UNCHANGED <<marker, unlinked, exposed>>
    BY <1>0, <1>7 DEF Confirm, Confirmed, ConfirmsItself, OwnerPid
  <2>2. \A q \in Pids : q # p => pc[q] \notin Acquiring /\ (pc[q] \in Holding => q \in exposed)
    BY <1>0, <2>1 DEF OneAcquires, ClaimsAFreeSlot
  <2>3. p \in exposed \/ marker = p
    BY <1>0, <2>1 DEF HolderIsNamed
  <2>4. QED BY <1>0, <2>1, <2>2, <2>3
            DEF IInv, TypeOK, States, OneAcquires, HolderIsNamed,
                ClaimsAFreeSlot, UnlinkedIsExposed, UnguardedIsExposed,
                ConfirmsItself
<1>8. ASSUME NEW p \in Pids, FailOpen(p) PROVE IInv'
  <2>1. pc' = [pc EXCEPT ![p] = "unguarded"] /\ marker' = marker /\ pc[p] \in Acquiring
        /\ unlinked' = unlinked \ {p} /\ exposed' = exposed \cup {p}
    BY <1>8 DEF FailOpen
  <2>2. QED BY <1>0, <2>1
            DEF IInv, TypeOK, States, OneAcquires, HolderIsNamed,
                ClaimsAFreeSlot, UnlinkedIsExposed, UnguardedIsExposed,
                ConfirmsItself
<1>9. ASSUME NEW p \in Pids, Release(p) PROVE IInv'
  <2>1. UNCHANGED <<marker, unlinked, exposed>> /\ pc[p] \in {"owner", "unguarded"}
    BY <1>9 DEF Release
  <2>2. CASE marker = p /\ pc' = [pc EXCEPT ![p] = "remove"]
    <3>1. \A q \in Pids \ exposed : pc[q] \in Holding => q = p
      BY <1>0, <2>2 DEF HolderIsNamed
    <3>2. \A q \in Pids : pc[q] \in Claiming => p \in exposed \/ pc[p] = "unguarded"
      BY <1>0, <2>1 DEF ClaimsAFreeSlot
    <3>3. pc[p] = "unguarded" => p \in exposed
      BY <1>0, <2>1 DEF UnguardedIsExposed
    <3>4. QED BY <1>0, <2>1, <2>2, <3>1, <3>2, <3>3
              DEF IInv, TypeOK, States, OneAcquires, HolderIsNamed,
                  ClaimsAFreeSlot, UnlinkedIsExposed, UnguardedIsExposed,
                ConfirmsItself
  <2>3. CASE pc' = [pc EXCEPT ![p] = "left"] \/ pc' = [pc EXCEPT ![p] = "released"]
    BY <1>0, <2>1, <2>3
       DEF IInv, TypeOK, States, OneAcquires, HolderIsNamed,
           ClaimsAFreeSlot, UnlinkedIsExposed, UnguardedIsExposed,
                ConfirmsItself
  <2>4. QED
    <3>1. \A current \in OwnerPid : current = p => marker = p
      BY <1>0 DEF OwnerPid
    <3>2. QED BY <1>9, <2>2, <2>3, <3>1 DEF Release
<1>10. ASSUME NEW p \in Pids, Remove(p) PROVE IInv'
  <2>1. /\ pc' = [pc EXCEPT ![p] = "released"] /\ marker' = Absent /\ pc[p] = "remove"
        /\ unlinked' = {q \in Pids : pc[q] \in {"write", "rewrite"}}
        /\ exposed' = exposed \cup IF p \in exposed
                                   THEN unlinked' \cup {q \in Pids \ {p} : marker = q} ELSE {}
    BY <1>10 DEF Remove
  <2>2. \A q \in Pids : q \notin exposed' /\ q # p => pc[q] \notin Holding \cup {"confirm"}
    <3> SUFFICES ASSUME NEW q \in Pids, q \notin exposed', q # p,
                        pc[q] \in Holding \cup {"confirm"}
                 PROVE  FALSE
      OBVIOUS
    <3>1. marker = q
      BY <1>0, <2>1 DEF HolderIsNamed
    <3>2. p \in exposed
      BY <1>0, <2>1, <3>1 DEF HolderIsNamed
    <3>3. QED BY <2>1, <3>1, <3>2
  <2>3. unlinked' \subseteq exposed'
    <3>1. unlinked' # {} => p \in exposed
      BY <1>0, <2>1 DEF ClaimsAFreeSlot
    <3>2. QED BY <2>1, <3>1
  <2>4. unlinked' \subseteq Pids /\ exposed' \subseteq Pids /\ exposed \subseteq exposed'
    BY <1>0, <2>1 DEF TypeOK
  <2>5. TypeOK' /\ OneAcquires'
    BY <1>0, <2>1, <2>4 DEF TypeOK, States, OneAcquires
  <2>6. HolderIsNamed'
    BY <1>0, <2>1, <2>2 DEF HolderIsNamed, TypeOK
  <2>7. ClaimsAFreeSlot'
    BY <1>0, <2>1, <2>4 DEF ClaimsAFreeSlot, TypeOK
  <2>8. UnlinkedIsExposed' /\ UnguardedIsExposed' /\ ConfirmsItself'
    BY <1>0, <2>1, <2>3, <2>4 DEF UnlinkedIsExposed, UnguardedIsExposed, ConfirmsItself, TypeOK
  <2>9. QED BY <2>5, <2>6, <2>7, <2>8 DEF IInv
<1>11. ASSUME NEW p \in Pids, FailRemove(p) PROVE IInv'
  <2>1. UNCHANGED <<marker, unlinked, exposed>> /\ pc[p] = "remove"
        /\ (pc' = [pc EXCEPT ![p] = "left"] \/ pc' = [pc EXCEPT ![p] = "released"])
    BY <1>11 DEF FailRemove
  <2>2. QED BY <1>0, <2>1
            DEF IInv, TypeOK, States, OneAcquires, HolderIsNamed,
                ClaimsAFreeSlot, UnlinkedIsExposed, UnguardedIsExposed,
                ConfirmsItself
<1>12. ASSUME NEW p \in Pids, Exit(p) PROVE IInv'
  <2>1. pc' = [pc EXCEPT ![p] = "gone"] /\ marker' = marker /\ unlinked' = unlinked \ {p}
        /\ exposed' = exposed \ {p}
    BY <1>12 DEF Exit
  <2>2. QED BY <1>0, <2>1
            DEF IInv, TypeOK, States, OneAcquires, HolderIsNamed,
                ClaimsAFreeSlot, UnlinkedIsExposed, UnguardedIsExposed,
                ConfirmsItself
<1>13. CASE UNCHANGED vars
  BY <1>0, <1>13 DEF vars, IInv, TypeOK, OneAcquires, HolderIsNamed,
                     ClaimsAFreeSlot, UnlinkedIsExposed, UnguardedIsExposed,
                ConfirmsItself
<1>14. QED
  BY <1>1, <1>2, <1>3, <1>4, <1>5, <1>6, <1>7, <1>8, <1>9, <1>10, <1>11, <1>12, <1>13
     DEF Next, Acquire

LEMMA Inductive ==
    ASSUME "race" \notin Events
    PROVE  Spec => []IInv
<1>1. IInv /\ [Next]_vars => IInv'
  BY StepIInv
<1>2. QED BY <1>1, InitIInv, PTL DEF Spec

\* However many processes come, go, crash at any step and come back under an
\* old pid: two run the stack together only if a failed access has exposed one of
\* them, provided acquisitions do not overlap.
THEOREM SlotIsExclusive ==
    ASSUME "race" \notin Events
    PROVE  Spec => []OneOwner
<1>1. IInv => OneOwner
  BY DEF IInv, HolderIsNamed, UnguardedIsExposed, Holding, OneOwner, Owners
<1>2. QED BY <1>1, Inductive, PTL

\* Likewise the marker names whoever runs the stack without having been exposed,
\* so that the next process to look finds it.
THEOREM OwnerAlwaysNamed ==
    ASSUME "race" \notin Events
    PROVE  Spec => []OwnerIsNamed
<1>1. IInv => OwnerIsNamed
  BY DEF IInv, HolderIsNamed, UnguardedIsExposed, Holding, OwnerIsNamed, Owners
<1>2. QED BY <1>1, Inductive, PTL

-----------------------------------------------------------------------------
(* No refusal without an owner. *)

\* A process that was refused, or that has given the slot back, is not named.
Bystanding == {"inert", "released"}
BystanderIsUnnamed == \A p \in Pids : pc[p] \in Bystanding => marker # p

LEMMA StepUnnamed ==
    ASSUME IInv, BystanderIsUnnamed, [Next]_vars
    PROVE  BystanderIsUnnamed'
<1> USE DEF Bystanding, Goto
<1>0. /\ TypeOK /\ Absent \notin Pids /\ Blank \notin Pids
  BY PidsAssumption DEF IInv
<1>1. ASSUME NEW p \in Pids, Begin(p) PROVE BystanderIsUnnamed'
  BY <1>0, <1>1 DEF Begin, TypeOK, BystanderIsUnnamed
<1>2. ASSUME NEW p \in Pids, Create(p) \/ Open(p) PROVE BystanderIsUnnamed'
  BY <1>0, <1>2 DEF Create, Open, TypeOK, BystanderIsUnnamed
<1>3. ASSUME NEW p \in Pids, Write(p) \/ Rewrite(p) PROVE BystanderIsUnnamed'
  BY <1>0, <1>3 DEF Write, Rewrite, Written, TypeOK, BystanderIsUnnamed
<1>4. ASSUME NEW p \in Pids, Read(p) PROVE BystanderIsUnnamed'
  <2>1. PICK current \in OwnerPid :
          pc' = [pc EXCEPT ![p] = IF TakesOver(p, current) THEN "open" ELSE "inert"]
    BY <1>4 DEF Read
  <2>2. ~TakesOver(p, current) => marker # p
    BY <1>0 DEF TakesOver, OwnerPid
  <2>3. marker' = marker
    BY <1>4 DEF Read
  <2>4. QED BY <1>0, <2>1, <2>2, <2>3 DEF TypeOK, BystanderIsUnnamed
<1>5. ASSUME NEW p \in Pids, Confirm(p) PROVE BystanderIsUnnamed'
  BY <1>0, <1>5 DEF Confirm, Confirmed, OwnerPid, TypeOK, BystanderIsUnnamed
<1>6. ASSUME NEW p \in Pids, FailOpen(p) \/ Exit(p) PROVE BystanderIsUnnamed'
  BY <1>0, <1>6 DEF FailOpen, Exit, TypeOK, BystanderIsUnnamed
<1>7. ASSUME NEW p \in Pids, Release(p) PROVE BystanderIsUnnamed'
  BY <1>0, <1>7 DEF Release, TypeOK, BystanderIsUnnamed
<1>8. ASSUME NEW p \in Pids, Remove(p) \/ FailRemove(p) PROVE BystanderIsUnnamed'
  BY <1>0, <1>8 DEF Remove, FailRemove, TypeOK, BystanderIsUnnamed
<1>9. CASE UNCHANGED vars
  BY <1>9 DEF vars, BystanderIsUnnamed
<1>10. QED
  BY <1>1, <1>2, <1>3, <1>4, <1>5, <1>6, <1>7, <1>8, <1>9 DEF Next, Acquire

\* A process only becomes inert when it reads a marker that names somebody else
\* alive; that one acquires nothing now and is no bystander.
LEMMA StepRefuses ==
    ASSUME IInv, BystanderIsUnnamed, [Next]_vars,
           NEW p \in Pids, pc'[p] = "inert", pc[p] # "inert"
    PROVE  \E q \in Pids \ {p} : pc[q] \in {"owner", "unguarded", "remove", "left"}
<1> USE DEF Goto
<1>0. TypeOK /\ OneAcquires /\ ConfirmsItself /\ Absent \notin Pids /\ Blank \notin Pids
  BY PidsAssumption DEF IInv
<1>1. ~Confirm(p)
  BY <1>0 DEF Confirm, Confirmed, ConfirmsItself, OwnerPid, TypeOK
<1>2. Read(p)
  <2>1. ASSUME NEW q \in Pids, \/ Begin(q) \/ Create(q) \/ Write(q) \/ Open(q) \/ Rewrite(q)
                               \/ FailOpen(q) \/ Release(q) \/ Remove(q) \/ FailRemove(q)
                               \/ Exit(q)
        PROVE  FALSE
    BY <1>0, <2>1
       DEF Begin, Create, Write, Open, Rewrite, FailOpen, Release, Remove, FailRemove, Exit,
           TypeOK
  <2>2. ASSUME NEW q \in Pids, Read(q) \/ Confirm(q) PROVE q = p
    BY <1>0, <2>2 DEF Read, Confirm, TypeOK
  <2>3. pc' # pc
    OBVIOUS
  <2>4. QED BY <1>1, <2>1, <2>2, <2>3 DEF Next, Acquire, vars
<1>3. marker \in Pids \ {p} /\ pc[marker] # "gone" /\ pc[p] = "read"
  BY <1>0, <1>2 DEF Read, TakesOver, Alive, OwnerPid, TypeOK
<1>4. pc[marker] \notin Acquiring \cup Bystanding
  BY <1>0, <1>3 DEF OneAcquires, Acquiring, BystanderIsUnnamed
<1>5. pc[marker] \in {"owner", "unguarded", "remove", "left"}
  BY <1>0, <1>3, <1>4 DEF TypeOK, States, Bystanding
<1>6. QED BY <1>3, <1>5

\* Likewise nobody is ever refused for a marker that a crash or a reused pid has
\* left behind: the process named runs the stack, is about to remove the marker, or
\* could not.
THEOREM RefusedForOwnerOnly ==
    ASSUME "race" \notin Events
    PROVE  Spec => RefusedForOwner
<1>1. Init => BystanderIsUnnamed
  BY DEF Init, BystanderIsUnnamed, Bystanding
<1>2. IInv /\ BystanderIsUnnamed /\ [Next]_vars => BystanderIsUnnamed'
  BY StepUnnamed
<1>3. IInv /\ BystanderIsUnnamed /\ [Next]_vars =>
        [\A p \in Pids : pc'[p] = "inert" /\ pc[p] # "inert" =>
            \E q \in Pids \ {p} : pc[q] \in {"owner", "unguarded", "remove", "left"}]_vars
  BY StepRefuses
<1>4. QED BY <1>1, <1>2, <1>3, Inductive, PTL DEF Spec, RefusedForOwner
=============================================================================
