---------------------------- MODULE Sidecar_proofs ----------------------------
(***************************************************************************)
(* The pidfile and the snapshot of the sidecars that share a directory,    *)
(* for any number of processes and every world.                            *)
(***************************************************************************)
EXTENDS Sidecar, TLAPS

-----------------------------------------------------------------------------
(* Types. *)

LEMMA StepTypeOK == TypeOK /\ [Next]_vars => TypeOK'
<1> SUFFICES ASSUME TypeOK, [Next]_vars PROVE TypeOK'
  OBVIOUS
<1> USE DEF plugin, rest, store, Goto, States, Booting, Stopping
<1>1. ASSUME NEW p \in Pids, Spawn(p) PROVE TypeOK'
  BY <1>1 DEF Spawn, TypeOK
<1>2. ASSUME NEW p \in Pids, StartRuntime(p) \/ Listen(p) \/ Retry(p) \/ Exit(p) \/ WritePid(p),
             UNCHANGED store
      PROVE  TypeOK'
  BY <1>2 DEF StartRuntime, Listen, Retry, Exit, WritePid, Bind, TypeOK
<1>3. ASSUME NEW p \in Pids, Recover(p), UNCHANGED store PROVE TypeOK'
  BY <1>3 DEF Recover, NamesLive, Alive, PortWithout, TypeOK
<1>4. ASSUME NEW p \in Pids, Abort(p) \/ StopRuntime(p) \/ Heartbeat(p) PROVE TypeOK'
  BY <1>4 DEF Abort, StopRuntime, Heartbeat, EndRuntime, BeginSave, TypeOK
<1>5. ASSUME NEW p \in Pids, Save(p) PROVE TypeOK'
  <2> DEFINE live == {q \in Pids : Running(q)}
  <2>1. SaveStep(p, live) /\ UNCHANGED <<pc, port, pidfile, rest>>
    BY <1>5 DEF Save
  <2>2. CASE OpenTemp(p, live)
    BY <2>1, <2>2 DEF OpenTemp, TypeOK, Open, Contents
  <2>3. CASE Fill(p)
    BY <2>1, <2>3 DEF Fill, Filled, TypeOK, Open, Contents
  <2>4. CASE Rename(p)
    <3>1. saving' \in [Pids -> {"idle", "begin", "closed"} \cup Open]
      BY <2>4 DEF Rename, TypeOK, Open
    <3>2. QED BY <2>1, <2>4, <3>1 DEF Rename, TypeOK, Contents
  <2>5. CASE Abandon(p)
    BY <2>1, <2>5 DEF Abandon, TypeOK
  <2>6. QED BY <2>1, <2>2, <2>3, <2>4, <2>5 DEF SaveStep
<1>6. ASSUME NEW p \in Pids, Stop(p) \/ Close(p) \/ RemovePid(p) \/ Reuse(p), UNCHANGED store
      PROVE  TypeOK'
  BY <1>6 DEF Stop, Signalled, Close, RemovePid, Reuse, PortWithout, TypeOK
<1>7. ASSUME NEW p \in Pids, Probe(p), UNCHANGED store PROVE TypeOK'
  BY <1>7 DEF Probe, NamesLive, Alive, Signalled, PortWithout, TypeOK
<1>8. ASSUME NEW p \in Pids, SigKill(p) \/ Crash(p), UNCHANGED store PROVE TypeOK'
  BY <1>8 DEF SigKill, Crash, Die, PortWithout, TypeOK
<1>9. CASE ForeignBind /\ UNCHANGED store
  BY <1>9 DEF ForeignBind, TypeOK
<1>10. CASE UNCHANGED vars
  BY <1>10 DEF vars, TypeOK
<1>11. QED
  BY <1>1, <1>2, <1>3, <1>4, <1>5, <1>6, <1>7, <1>8, <1>9, <1>10 DEF Next, Boot, Other

LEMMA TypeAlways == Spec => []TypeOK
<1>1. Init => TypeOK
  BY DEF Init, StoreInit, TypeOK, States, Contents
<1>2. QED BY <1>1, StepTypeOK, PTL DEF Spec

-----------------------------------------------------------------------------
(* Who has the port, and whom the pidfile names. *)

PortOwned == \A p \in Pids : pc[p] \in {"bound", "up", "closing"} => port = p

\* Without reused pids, the pidfile never names a process that is booting.
NamesOld ==
    \A p \in Pids : /\ Running(p) => p \in used
                    /\ pidfile = p => p \in used /\ pc[p] \notin Booting

NameInv ==
    /\ PortOwned
    /\ PidfileNamesServer
    /\ "reuse" \notin world.events => NamesOld

\* A step that lets processes go, or closes them, and leaves the others where
\* they are, with their port.
LEMMA QuietNames ==
    ASSUME TypeOK, NameInv, UNCHANGED <<pidfile, used, world, unnamed>>,
           \A p \in Pids : \/ pc'[p] = pc[p] /\ (port = p => port' = p)
                           \/ pc'[p] = "gone"
                           \/ Running(p) /\ pc'[p] \in {"wait", "abort", "exit"} /\ pc[p] \in Booting
                           \/ pc'[p] \in Stopping \ {"closing"} /\ pc[p] \in Stopping
                           \/ pc'[p] = "closing" /\ pc[p] \in {"up", "closing"} /\ port' = port
    PROVE  NameInv'
<1> USE DEF Booting, Stopping, Running
<1>1. PortOwned'
  BY DEF NameInv, PortOwned
<1>2. PidfileNamesServer'
  BY DEF NameInv, PidfileNamesServer
<1>3. "reuse" \notin world.events => NamesOld'
  BY DEF NameInv, NamesOld
<1>4. QED BY <1>1, <1>2, <1>3 DEF NameInv

LEMMA StepNames == TypeOK /\ NameInv /\ [Next]_vars => NameInv'
<1> SUFFICES ASSUME TypeOK, NameInv, [Next]_vars PROVE NameInv'
  OBVIOUS
<1> USE PidsAssumption DEF rest, plugin, Goto, Booting, Stopping, Running
<1>w. UNCHANGED world
  BY DEF Next, vars
<1>1. ASSUME NEW p \in Pids, Spawn(p) PROVE NameInv'
  BY <1>w, <1>1 DEF Spawn, TypeOK, NameInv, PortOwned, PidfileNamesServer, NamesOld
<1>2. ASSUME NEW p \in Pids, StartRuntime(p) PROVE NameInv'
  BY <1>w, <1>2 DEF StartRuntime, TypeOK, NameInv, PortOwned, PidfileNamesServer, NamesOld
<1>3. ASSUME NEW p \in Pids, Listen(p) \/ Retry(p) PROVE NameInv'
  BY <1>w, <1>3 DEF Listen, Retry, Bind, TypeOK, NameInv, PortOwned, PidfileNamesServer, NamesOld
<1>4. ASSUME NEW p \in Pids, Recover(p) PROVE NameInv'
  BY <1>w, <1>4, QuietNames DEF Recover, NamesLive, Alive, PortWithout, TypeOK
<1>5. ASSUME NEW p \in Pids, Abort(p) \/ StopRuntime(p) PROVE NameInv'
  BY <1>w, <1>5, QuietNames DEF Abort, StopRuntime, EndRuntime, TypeOK
<1>6. ASSUME NEW p \in Pids, Exit(p) PROVE NameInv'
  BY <1>w, <1>6, QuietNames DEF Exit, TypeOK
<1>7. ASSUME NEW p \in Pids, WritePid(p) PROVE NameInv'
  <2>1. /\ port = p /\ pc[p] = "bound" /\ pc' = [pc EXCEPT ![p] = "up"]
        /\ UNCHANGED <<port, used, plugin>>
        /\ \/ pidfile' = p /\ unnamed' = unnamed
           \/ pidfile' \in {pidfile, NoPid} /\ unnamed' = unnamed \cup {p}
    BY <1>7 DEF WritePid, NameInv, PortOwned
  <2>2. PortOwned' /\ \A q \in Pids : pc'[q] = "up" => q = p
    BY <2>1 DEF TypeOK, NameInv, PortOwned
  <2>3. PidfileNamesServer'
    BY <2>1, <2>2 DEF PidfileNamesServer
  <2>4. "reuse" \notin world.events => NamesOld'
    BY <1>w, <2>1 DEF TypeOK, NameInv, NamesOld
  <2>5. QED BY <1>w, <2>2, <2>3, <2>4 DEF NameInv
<1>8. CASE UNCHANGED <<pc, port, pidfile, rest>> \/ UNCHANGED vars
  BY <1>w, <1>8 DEF vars, NameInv, PortOwned, PidfileNamesServer, NamesOld
<1>9. ASSUME NEW p \in Pids, Stop(p) PROVE NameInv'
  BY <1>w, <1>9, QuietNames DEF Stop, Signalled, TypeOK
<1>10. ASSUME NEW p \in Pids, Close(p) PROVE NameInv'
  BY <1>w, <1>10, QuietNames DEF Close, PortWithout, TypeOK
<1>11. ASSUME NEW p \in Pids, RemovePid(p) PROVE NameInv'
  <2>1. /\ pc[p] = "removing" /\ pc' = [pc EXCEPT ![p] = "gone"] /\ UNCHANGED <<port, used>>
        /\ \/ pidfile' = NoPid /\ unnamed' = unnamed \cup ({pidfile} \ {p, NoPid})
           \/ UNCHANGED <<pidfile, unnamed>>
    BY <1>11 DEF RemovePid
  <2>2. PortOwned' /\ ("reuse" \notin world.events => NamesOld')
    BY <1>w, <2>1 DEF TypeOK, NameInv, PortOwned, NamesOld
  <2>3. PidfileNamesServer'
    BY <2>1 DEF TypeOK, NameInv, PidfileNamesServer
  <2>4. QED BY <1>w, <2>2, <2>3 DEF NameInv
<1>12. ASSUME NEW p \in Pids, Probe(p) PROVE NameInv'
  BY <1>w, <1>12, QuietNames DEF Probe, NamesLive, Signalled, PortWithout, TypeOK
<1>13. ASSUME NEW p \in Pids, Die(p) PROVE NameInv'
  BY <1>w, <1>13, QuietNames DEF Die, PortWithout, TypeOK
<1>14. ASSUME NEW p \in Pids, Reuse(p) PROVE NameInv'
  BY <1>w, <1>14 DEF Reuse, TypeOK, NameInv, PortOwned, PidfileNamesServer, NamesOld
<1>15. CASE ForeignBind
  BY <1>w, <1>15 DEF ForeignBind, TypeOK, NameInv, PortOwned, PidfileNamesServer, NamesOld
<1>16. QED
  BY <1>1, <1>2, <1>3, <1>4, <1>5, <1>6, <1>7, <1>8, <1>9, <1>10, <1>11, <1>12, <1>13, <1>14, <1>15
     DEF Next, Boot, Other, Heartbeat, Save, SigKill, Crash

LEMMA NamesAlways == Spec => []NameInv
<1>1. Init => NameInv
  BY PidsAssumption DEF Init, NameInv, PortOwned, PidfileNamesServer, NamesOld, Running, Booting
<1>2. QED BY <1>1, TypeAlways, StepNames, PTL DEF Spec

\* In every world, for any number of sidecars that boot, stop and die next to one
\* another, the pidfile names the one that serves, unless writing it failed or
\* another one's shutdown has removed the entry.
THEOREM ServerIsNamed == Spec => []PidfileNamesServer
<1>1. NameInv => PidfileNamesServer
  BY DEF NameInv
<1>2. QED BY <1>1, NamesAlways, PTL

\* In every world without reused pids, a sidecar that recovers the port never
\* reads, and so never kills, itself.
THEOREM NeverRecoversItself == Spec => []RecoversAnother
<1>1. NameInv => RecoversAnother
  BY DEF NameInv, NamesOld, RecoversAnother, Booting
<1>2. QED BY <1>1, NamesAlways, PTL
-----------------------------------------------------------------------------
(* What a save leaves in the files. *)

Midway(p) == Running(p) /\ saving[p] \in Open \cup {"closed"}

\* Two processes that are in the middle of a save at once have met.
Met == \A p, q \in Pids : p # q /\ Midway(p) /\ Midway(q) => p \in raced

\* A process that has met no other has the temporary file to itself.
Alone ==
    \A p \in Pids \ raced : Running(p) =>
        /\ saving[p] \notin {"snapshot", "lost"}
        /\ saving[p] = "temp" => temp = "empty"
        /\ saving[p] = "closed" => temp = "whole"

\* Unless such a save spoilt it, the snapshot is whole and nobody has it open.
Unspoilt ==
    ~spoilt => /\ snapshot \in {"none", "whole"}
               /\ \A p \in Pids : Running(p) => saving[p] # "snapshot"

SnapInv == Met /\ Alone /\ Unspoilt

\* A step that does not touch the files keeps it: fewer processes are running, or
\* have a file open.
LEMMA QuietFiles ==
    ASSUME TypeOK, SnapInv, UNCHANGED <<temp, snapshot, raced, spoilt>>,
           \A p \in Pids : Running(p)' /\ saving'[p] \notin {"idle", "begin"}
                           => Running(p) /\ saving'[p] = saving[p]
    PROVE  SnapInv'
<1>1. Met'
  BY DEF SnapInv, Met, Midway, Open
<1>2. Alone'
  BY DEF SnapInv, Alone
<1>3. Unspoilt'
  BY DEF SnapInv, Unspoilt
<1>4. QED BY <1>1, <1>2, <1>3 DEF SnapInv

LEMMA SaveFiles ==
    ASSUME TypeOK, SnapInv, NEW p \in Pids, Save(p)
    PROVE  SnapInv'
<1> DEFINE live == {q \in Pids : Running(q)}
<1>1. Running(p) /\ SaveStep(p, live) /\ UNCHANGED pc
  BY DEF Save
<1>2. \A q \in Pids : Running(q)' <=> Running(q)
  BY <1>1 DEF Running
<1> USE DEF Open, Midway
<1>3. CASE OpenTemp(p, live)
  <2>1. /\ saving' = [saving EXCEPT ![p] = "temp"] /\ temp' = "empty"
        /\ UNCHANGED <<snapshot, spoilt>>
    BY <1>3 DEF OpenTemp
  <2>2. CASE \E q \in Pids \ {p} : Midway(q)
    <3>1. /\ raced \subseteq raced' /\ p \in raced'
          /\ \A q \in Pids \ {p} : Midway(q) => q \in raced'
      BY <1>3, <2>2 DEF OpenTemp
    <3>2. Met'
      BY <1>2, <2>1, <3>1 DEF SnapInv, Met, TypeOK
    <3>3. Alone'
      BY <1>2, <2>1, <3>1 DEF SnapInv, Alone, TypeOK
    <3>4. Unspoilt'
      BY <1>2, <2>1 DEF SnapInv, Unspoilt, TypeOK
    <3>5. QED BY <3>2, <3>3, <3>4 DEF SnapInv
  <2>3. CASE \A q \in Pids \ {p} : ~Midway(q)
    <3>1. raced' = raced \ {p}
      BY <1>3, <2>3 DEF OpenTemp
    <3>2. Met'
      BY <1>2, <2>1, <2>3 DEF Met, TypeOK
    <3>3. Alone'
      BY <1>2, <2>1, <2>3, <3>1 DEF SnapInv, Alone, TypeOK
    <3>4. Unspoilt'
      BY <1>2, <2>1 DEF SnapInv, Unspoilt, TypeOK
    <3>5. QED BY <3>2, <3>3, <3>4 DEF SnapInv
  <2>4. QED BY <2>2, <2>3
<1>4. CASE Fill(p)
  <2>1. /\ saving[p] \in Open /\ saving' = [saving EXCEPT ![p] = "closed"]
        /\ UNCHANGED <<raced, spoilt>>
    BY <1>4 DEF Fill
  <2>2. Met'
    BY <1>1, <1>2, <2>1 DEF SnapInv, Met, TypeOK
  <2>3. Alone'
    <3>1. CASE p \in raced
      <4>1. \A q \in Pids \ raced : q # p /\ ~Midway(q)
        BY <1>1, <2>1, <3>1 DEF SnapInv, Met
      <4>2. QED BY <1>2, <2>1, <4>1 DEF Alone, TypeOK
    <3>2. CASE p \notin raced
      <4>1. saving[p] = "temp" /\ temp' = "whole"
        BY <1>1, <1>4, <2>1, <3>2 DEF SnapInv, Alone, Fill, Filled
      <4>2. \A q \in Pids \ {p} : ~Midway(q)
        BY <1>1, <2>1, <3>2 DEF SnapInv, Met
      <4>3. QED BY <1>2, <2>1, <4>1, <4>2 DEF Alone, TypeOK
    <3>3. QED BY <3>1, <3>2
  <2>4. Unspoilt'
    BY <1>1, <1>2, <1>4, <2>1 DEF SnapInv, Unspoilt, TypeOK, Fill
  <2>5. QED BY <2>2, <2>3, <2>4 DEF SnapInv
<1>5. CASE Rename(p)
  <2>1. /\ saving[p] = "closed" /\ snapshot' = temp /\ raced' = raced
        /\ saving' = [q \in Pids |-> CASE q = p -> "idle"
                                       [] q # p /\ saving[q] = "temp" -> "snapshot"
                                       [] q # p /\ saving[q] = "snapshot" -> "lost"
                                       [] OTHER -> saving[q]]
        /\ spoilt' = (p \in raced)
    BY <1>5 DEF Rename
  <2>2. \A q \in Pids \ {p} : Midway(q) => p \in raced /\ q \in raced
    BY <1>1, <2>1 DEF SnapInv, Met
  <2>3. \A q \in Pids : Midway(q)' => Midway(q) /\ q # p
    BY <1>2, <2>1
  <2>4. Met'
    BY <2>1, <2>3 DEF SnapInv, Met
  <2>5. Alone'
    BY <1>2, <2>1, <2>2, <2>3 DEF Alone
  <2>6. Unspoilt'
    <3>1. ASSUME p \notin raced PROVE snapshot' = "whole" /\ \A q \in Pids : Running(q)' => saving'[q] # "snapshot"
      BY <1>1, <2>1, <2>2, <2>3, <3>1 DEF SnapInv, Alone
    <3>2. QED BY <2>1, <3>1 DEF Unspoilt
  <2>7. QED BY <2>4, <2>5, <2>6 DEF SnapInv
<1>6. CASE Abandon(p)
  BY <1>2, <1>6, QuietFiles DEF Abandon, TypeOK
<1>7. QED BY <1>1, <1>3, <1>4, <1>5, <1>6 DEF SaveStep

LEMMA StepFiles == TypeOK /\ SnapInv /\ [Next]_vars => SnapInv'
<1> SUFFICES ASSUME TypeOK, SnapInv, [Next]_vars PROVE SnapInv'
  OBVIOUS
<1> USE DEF plugin, rest, store, Goto, Running
<1>1. ASSUME NEW p \in Pids, Spawn(p) PROVE SnapInv'
  BY <1>1, QuietFiles DEF Spawn, TypeOK
<1>2. ASSUME NEW p \in Pids, Abort(p) \/ StopRuntime(p) \/ Heartbeat(p) PROVE SnapInv'
  BY <1>2, QuietFiles DEF Abort, StopRuntime, Heartbeat, EndRuntime, BeginSave, TypeOK
<1>3. ASSUME NEW p \in Pids, Save(p) PROVE SnapInv'
  BY <1>3, SaveFiles
<1>4. ASSUME NEW p \in Pids, UNCHANGED store,
             StartRuntime(p) \/ Listen(p) \/ Recover(p) \/ Retry(p) \/ Exit(p) \/ WritePid(p)
      PROVE  SnapInv'
  <2>1. \A q \in Pids : Running(q)' => Running(q)
    BY <1>4 DEF StartRuntime, Listen, Recover, Retry, Exit, WritePid, Bind, TypeOK
  <2>2. QED BY <1>4, <2>1, QuietFiles
<1>5. ASSUME NEW p \in Pids, UNCHANGED store, Other(p)
      PROVE  SnapInv'
  <2>1. CASE Stop(p) \/ Close(p) \/ RemovePid(p) \/ SigKill(p) \/ Crash(p) \/ Reuse(p)
    <3>1. \A q \in Pids : Running(q)' => Running(q)
      BY <2>1 DEF Stop, Signalled, Close, RemovePid, SigKill, Crash, Die, Reuse, TypeOK
    <3>2. QED BY <1>5, <3>1, QuietFiles
  <2>2. CASE Probe(p)
    <3>1. \A q \in Pids : Running(q)' => Running(q)
      BY <2>2 DEF Probe, NamesLive, Alive, Signalled, Stopping, TypeOK
    <3>2. QED BY <1>5, <3>1, QuietFiles
  <2>3. QED BY <1>5, <2>1, <2>2 DEF Other
<1>6. CASE (ForeignBind /\ UNCHANGED store) \/ UNCHANGED vars
  BY <1>6, QuietFiles DEF ForeignBind, vars
<1>7. QED
  BY <1>1, <1>2, <1>3, <1>4, <1>5, <1>6 DEF Next, Boot

\* For any number of processes, in every world, whatever dies or fails in the
\* middle of a save: the snapshot is whole unless it comes of a save that met
\* another process's, and the next save that meets none makes it whole again.
THEOREM SnapshotAlwaysWhole == Spec => []SnapshotWhole
<1>1. Init => SnapInv
  BY DEF Init, StoreInit, SnapInv, Met, Alone, Unspoilt, Midway, Running
<1>2. SnapInv => SnapshotWhole
  BY DEF SnapInv, Unspoilt, SnapshotWhole
<1>3. QED BY <1>1, <1>2, TypeAlways, StepFiles, PTL DEF Spec
=============================================================================
