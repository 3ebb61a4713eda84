--------------------------- MODULE Delivery_proofs ---------------------------
(***************************************************************************)
(* The order of the outreaches and what their outcomes say, for any number *)
(* of deliveries and any backlog; and the routes, for any number of        *)
(* sessions.                                                               *)
(***************************************************************************)
EXTENDS Delivery, SequenceTheorems, TLAPS

-----------------------------------------------------------------------------
(* Sequences. *)

LEMMA Removal ==
    ASSUME NEW S, NEW log \in Seq(S), NEW i \in DOMAIN log
    PROVE  /\ RemoveAt(log, i) \in Seq(S)
           /\ Len(RemoveAt(log, i)) = Len(log) - 1
           /\ \A k \in 1..Len(log) - 1 : RemoveAt(log, i)[k] = log[IF k < i THEN k ELSE k + 1]
<1> DEFINE front == SubSeq(log, 1, i - 1)
           back == SubSeq(log, i + 1, Len(log))
<1>1. Len(log) \in Nat /\ i \in 1..Len(log) /\ \A k \in 1..Len(log) : log[k] \in S
  BY LenProperties, ElementOfSeq
<1>2. /\ front \in Seq(S) /\ Len(front) = i - 1
      /\ \A k \in 1..i - 1 : front[k] = log[k]
  <2>1. /\ front \in Seq(S) /\ Len(front) = IF 1 <= i - 1 THEN (i - 1) - 1 + 1 ELSE 0
        /\ \A k \in 1 .. (i - 1) - 1 + 1 : front[k] = log[1 + k - 1]
    <3>1. \A k \in 1 .. i - 1 : log[k] \in S
      BY <1>1
    <3>2. QED BY <1>1, <3>1, SubSeqProperties
  <2>2. QED BY <1>1, <2>1
<1>3. /\ back \in Seq(S) /\ Len(back) = Len(log) - i
      /\ \A k \in 1..Len(log) - i : back[k] = log[i + k]
  <2>1. /\ back \in Seq(S) /\ Len(back) = IF i + 1 <= Len(log) THEN Len(log) - (i + 1) + 1 ELSE 0
        /\ \A k \in 1 .. Len(log) - (i + 1) + 1 : back[k] = log[(i + 1) + k - 1]
    <3>1. \A k \in i + 1 .. Len(log) : log[k] \in S
      BY <1>1
    <3>2. QED BY <1>1, <3>1, SubSeqProperties
  <2>2. QED BY <1>1, <2>1
<1>4. /\ front \o back \in Seq(S)
      /\ Len(front \o back) = Len(front) + Len(back)
      /\ \A k \in 1 .. Len(front) + Len(back) :
            (front \o back)[k] = IF k <= Len(front) THEN front[k] ELSE back[k - Len(front)]
  BY <1>2, <1>3, ConcatProperties
<1>5. RemoveAt(log, i) = front \o back
  BY DEF RemoveAt
<1>6. ASSUME NEW k \in 1..Len(log) - 1
      PROVE  (front \o back)[k] = log[IF k < i THEN k ELSE k + 1]
  <2> HIDE DEF front, back
  <2>1. CASE k < i
    <3>1. k \in 1..i - 1 /\ k <= Len(front)
      BY <1>1, <1>2, <2>1
    <3>2. k \in 1 .. Len(front) + Len(back)
      BY <1>1, <1>2, <1>3
    <3>3. (front \o back)[k] = front[k]
      BY <1>4, <3>1, <3>2
    <3>4. front[k] = log[k]
      BY <1>2, <3>1
    <3>5. QED BY <2>1, <3>3, <3>4
  <2>2. CASE ~(k < i)
    <3>1. k - Len(front) \in 1..Len(log) - i /\ i + (k - Len(front)) = k + 1 /\ ~(k <= Len(front))
      BY <1>1, <1>2, <2>2
    <3>2. back[k - Len(front)] = log[k + 1]
      BY <1>3, <3>1
    <3>3. k \in 1 .. Len(front) + Len(back)
      BY <1>1, <1>2, <1>3, <2>2
    <3>4. QED BY <1>4, <2>2, <3>1, <3>2, <3>3
  <2>3. QED BY <2>1, <2>2
<1> HIDE DEF front, back
<1>7. Len(front) + Len(back) = Len(log) - 1
  BY <1>1, <1>2, <1>3
<1>8. QED BY <1>4, <1>5, <1>6, <1>7

LEMMA Appended ==
    ASSUME NEW S, NEW log \in Seq(S), NEW x \in S
    PROVE  /\ Append(log, x) \in Seq(S)
           /\ Len(Append(log, x)) = Len(log) + 1
           /\ \A k \in 1..Len(log) : Append(log, x)[k] = log[k]
           /\ Append(log, x)[Len(log) + 1] = x
           /\ DOMAIN Append(log, x) = 1..Len(log) + 1
<1>1. /\ Append(log, x) \in Seq(S) /\ Append(log, x) # << >>
      /\ Len(Append(log, x)) = Len(log) + 1
      /\ \A k \in 1..Len(log) : Append(log, x)[k] = log[k]
      /\ Append(log, x)[Len(log) + 1] = x
  BY AppendProperties
<1>2. DOMAIN Append(log, x) = 1..Len(Append(log, x))
  BY <1>1, LenProperties
<1>3. QED BY <1>1, <1>2

-----------------------------------------------------------------------------
(* The invariant. *)

Requests == [n : Deliveries, session : Sessions, kind : {"inject", "send"}]
Outcomes == {"none", "unknown", "failed", "fulfilled"}

TypeOK ==
    /\ begun \in 0..MaxAttempts
    /\ attempt \in [pc : {"connect", "await"}, age : Nat, request : Requests] \cup {NoAttempt}
    /\ listener \in {"down", "up", "stopping"}
    /\ queue \in Seq(Requests)
    /\ serving \in [pc : {"adapter", "answer"}, request : Requests] \cup {NotServing}
    /\ routes \in Seq(Sessions) /\ store \in BOOLEAN /\ seen \in Seq(Sessions)
    /\ outcome \in [Deliveries -> Outcomes]
    /\ arrived \in Seq(Deliveries) /\ outlived \subseteq Deliveries

\* What is handed over, being served and waiting is in the order it was begun.
Queued ==
    /\ \A i \in DOMAIN queue : queue[i].n <= begun
    /\ \A i, j \in DOMAIN queue : i < j => queue[i].n < queue[j].n
Served ==
    serving.pc # "idle" =>
        /\ serving.request.n <= begun
        /\ \A i \in DOMAIN queue : serving.request.n < queue[i].n
Arrived ==
    /\ \A k, l \in DOMAIN arrived : k < l =>
        arrived[k] < arrived[l] \/ (arrived[l] \in outlived /\ arrived[k] # arrived[l])
    /\ \A k \in DOMAIN arrived :
        /\ arrived[k] <= begun
        /\ \A i \in DOMAIN queue : arrived[k] < queue[i].n
        /\ serving.pc = "adapter" => arrived[k] < serving.request.n
        /\ serving.pc = "answer" => arrived[k] <= serving.request.n

\* What goes on by itself is older than what is handed over, and nobody waits for it.
Outliving ==
    \A n \in outlived :
        /\ outcome[n] = "unknown" /\ n <= begun
        /\ \A i \in DOMAIN queue : n < queue[i].n
        /\ serving.pc # "idle" => n < serving.request.n

\* The awaited delivery is the last one, and where its request can be; it has
\* arrived only if its answer is still to come.
Pending ==
    attempt.pc # "idle" => begun \in Deliveries /\ attempt.request.n = begun /\ outcome[begun] = "none"
Connecting ==
    attempt.pc = "connect" =>
        /\ \A i \in DOMAIN queue : queue[i].n # begun
        /\ serving.pc # "idle" => serving.request.n # begun
        /\ \A k \in DOMAIN arrived : arrived[k] # begun
Awaiting ==
    attempt.pc = "await" =>
        /\ \A i \in DOMAIN queue : queue[i].n = begun => queue[i] = attempt.request
        /\ serving.pc # "idle" /\ serving.request.n = begun => serving.request = attempt.request
        /\ \A k \in DOMAIN arrived :
            arrived[k] = begun => serving.pc = "answer" /\ serving.request.n = begun

\* Only the awaited delivery and those to come are not settled.  One that failed is
\* nowhere, one that was fulfilled is nowhere on its way.
Ended == {"failed", "fulfilled"}
Settlement ==
    \A n \in Deliveries :
        /\ n > begun => outcome[n] = "none"
        /\ outcome[n] = "none" => n > begun \/ (n = begun /\ attempt.pc # "idle")
        /\ outcome[n] \in Ended =>
            /\ \A i \in DOMAIN queue : queue[i].n # n
            /\ serving.pc # "idle" => serving.request.n # n
        /\ outcome[n] = "failed" => \A k \in DOMAIN arrived : arrived[k] # n

OrderInv ==
    /\ Queued /\ Served /\ Arrived /\ Outliving
    /\ Pending /\ Connecting /\ Awaiting /\ Settlement

\* The routes are the newest of the sessions seen, each of which is there once.
Distinct(log) == \A i, j \in DOMAIN log : log[i] = log[j] => i = j
RouteInv == Distinct(seen) /\ routes = Newest(seen, MaxRoutes)

LEMMA InitOrder == Init => TypeOK /\ OrderInv
<1> SUFFICES ASSUME Init PROVE TypeOK /\ OrderInv
  OBVIOUS
<1>1. /\ queue = << >> /\ DOMAIN queue = {} /\ arrived = << >> /\ DOMAIN arrived = {}
  BY DEF Init
<1>2. TypeOK
  <2>1. 0 \in 0..MaxAttempts
    BY DeliveryAssumption
  <2>2. \A S : << >> \in Seq(S)
    BY EmptySeq
  <2>3. outcome \in [Deliveries -> Outcomes]
    BY DEF Init, Outcomes
  <2>4. QED BY <2>1, <2>2, <2>3 DEF Init, TypeOK
<1>3. OrderInv
  <2>1. attempt.pc = "idle" /\ serving.pc = "idle"
    BY DEF Init, NoAttempt, NotServing
  <2>2. Queued /\ Served /\ Arrived
    BY <1>1, <2>1 DEF Queued, Served, Arrived
  <2>3. Outliving
    BY DEF Init, Outliving
  <2>4. Pending /\ Connecting /\ Awaiting
    BY <2>1 DEF Pending, Connecting, Awaiting
  <2>5. Settlement
    BY <1>1, <2>1 DEF Init, Settlement, Ended, Deliveries
  <2>6. QED BY <2>2, <2>3, <2>4, <2>5 DEF OrderInv
<1>4. QED BY <1>2, <1>3

-----------------------------------------------------------------------------
(* Types. *)

LEMMA PendingType ==
    ASSUME TypeOK
    PROVE  /\ attempt.pc # "idle" => /\ attempt.pc \in {"connect", "await"}
                                     /\ attempt.age \in Nat /\ attempt.request \in Requests
                                     /\ attempt = [pc |-> attempt.pc, age |-> attempt.age,
                                                   request |-> attempt.request]
           /\ attempt.pc = "idle" => attempt = NoAttempt
           /\ serving.pc # "idle" => /\ serving.pc \in {"adapter", "answer"}
                                     /\ serving.request \in Requests
                                     /\ serving = [pc |-> serving.pc, request |-> serving.request]
           /\ serving.pc = "idle" => serving = NotServing
BY DEF TypeOK, NoAttempt, NotServing

LEMMA SettledType ==
    ASSUME TypeOK, NEW how \in Outcomes, attempt.pc # "idle", Settled(how)
    PROVE  /\ outcome' \in [Deliveries -> Outcomes]
           /\ attempt' = NoAttempt
           /\ \A n \in Deliveries : outcome'[n] = IF n = attempt.request.n THEN how ELSE outcome[n]
BY PendingType DEF Settled, TypeOK, Requests

LEMMA RouteType ==
    ASSUME NEW log \in Seq(Sessions), NEW s \in Sessions
    PROVE  /\ Without(log, s) \in Seq(Sessions)
           /\ Append(Without(log, s), s) \in Seq(Sessions)
           /\ Newest(log, MaxRoutes) \in Seq(Sessions)
<1>1. Without(log, s) \in Seq(Sessions)
  <2>1. CASE s \in ToSet(log)
    <3>1. (CHOOSE i \in DOMAIN log : log[i] = s) \in DOMAIN log
      BY <2>1 DEF ToSet
    <3>2. QED BY <2>1, <3>1, Removal DEF Without
  <2>2. CASE s \notin ToSet(log)
    BY <2>2 DEF Without
  <2>3. QED BY <2>1, <2>2
<1>2. Newest(log, MaxRoutes) \in Seq(Sessions)
  <2>1. Len(log) \in Nat /\ \A i \in 1..Len(log) : log[i] \in Sessions
    BY LenProperties, ElementOfSeq
  <2>2. MaxRoutes \in Nat \ {0}
    BY DeliveryAssumption
  <2> DEFINE first == IF Len(log) > MaxRoutes THEN Len(log) - MaxRoutes + 1 ELSE 1
  <2>3. first \in Int /\ \A i \in first .. Len(log) : log[i] \in Sessions
    BY <2>1, <2>2
  <2> HIDE DEF first
  <2>4. SubSeq(log, first, Len(log)) \in Seq(Sessions)
    BY <2>1, <2>3, SubSeqProperties
  <2>5. QED BY <2>4 DEF first, Newest
<1>3. QED BY <1>1, <1>2, Appended

LEMMA StepTypeOK == TypeOK /\ [Next]_vars => TypeOK'
<1> SUFFICES ASSUME TypeOK, [Next]_vars PROVE TypeOK'
  OBVIOUS
<1> USE PendingType DEF plugin
<1>1. ASSUME NEW s \in Sessions, NEW kind \in {"inject", "send"}, Deliver(s, kind) PROVE TypeOK'
  <2>1. begun' \in 0..MaxAttempts /\ begun' \in Deliveries
    BY <1>1, DeliveryAssumption DEF Deliver, TypeOK, Deliveries
  <2>2. attempt' \in [pc : {"connect", "await"}, age : Nat, request : Requests]
    BY <1>1, <2>1 DEF Deliver, Request, Requests
  <2>3. QED BY <1>1, <2>1, <2>2 DEF Deliver, TypeOK
<1>2. CASE Connect
  <2>1. CASE listener = "down"
    BY <1>2, <2>1, SettledType DEF Connect, TypeOK, Outcomes
  <2>2. CASE listener # "down"
    <3>1. queue' \in Seq(Requests)
      <4>1. attempt.request \in Requests
        BY <1>2 DEF Connect
      <4>2. queue \in Seq(Requests) /\ queue' = Append(queue, attempt.request)
        BY <1>2, <2>2 DEF Connect, TypeOK
      <4>3. QED BY ONLY <4>1, <4>2, Appended
    <3>2. attempt' \in [pc : {"connect", "await"}, age : Nat, request : Requests]
      <4>1. attempt \in [pc : {"connect", "await"}, age : Nat, request : Requests]
        BY <1>2 DEF Connect, TypeOK, NoAttempt
      <4>2. attempt' = [attempt EXCEPT !.pc = "await"]
        BY <1>2, <2>2 DEF Connect
      <4>3. QED BY ONLY <4>1, <4>2
    <3>3. QED BY <1>2, <2>2, <3>1, <3>2 DEF Connect, TypeOK
  <2>3. QED BY <2>1, <2>2
<1>3. CASE Tick
  <2>1. attempt' \in [pc : {"connect", "await"}, age : Nat, request : Requests]
    <3>1. attempt \in [pc : {"connect", "await"}, age : Nat, request : Requests]
      BY <1>3 DEF Tick, TypeOK, NoAttempt
    <3>2. attempt' = [attempt EXCEPT !.age = @ + 1]
      BY <1>3 DEF Tick
    <3>3. QED BY ONLY <3>1, <3>2
  <2>2. QED BY <1>3, <2>1 DEF Tick, TypeOK
<1>4. CASE Abort
  <2>1. queue' \in Seq(Requests)
    BY <1>4, Removal DEF Abort, TypeOK
  <2>2. QED BY <1>4, <2>1, SettledType DEF Abort, TypeOK, Outcomes
<1>5. CASE SidecarCrash
  BY <1>5, SettledType DEF SidecarCrash, TypeOK, Outcomes
<1>6. CASE StartListener \/ StopListener
  BY <1>6 DEF StartListener, StopListener, TypeOK
<1>7. CASE CloseListener
  <2>1. queue' \in Seq(Requests)
    BY <1>7, EmptySeq DEF CloseListener, ResetQueue
  <2>2. QED BY <1>7, <2>1, SettledType DEF CloseListener, ResetQueue, TypeOK, Outcomes
<1>8. CASE PluginCrash
  <2>1. queue' \in Seq(Requests) /\ routes' \in Seq(Sessions) /\ seen' \in Seq(Sessions)
    BY <1>8, EmptySeq DEF PluginCrash
  <2>2. outlived' \subseteq Deliveries
    BY <1>8 DEF PluginCrash, TypeOK, Requests
  <2>3. QED BY <1>8, <2>1, <2>2, SettledType DEF PluginCrash, TypeOK, Outcomes
<1>9. CASE Accept
  <2>1. Head(queue) \in Requests /\ Tail(queue) \in Seq(Requests)
    BY <1>9, HeadTailProperties DEF Accept, TypeOK
  <2>2. QED BY <1>9, <2>1 DEF Accept, TypeOK
<1>10. CASE Refuse
  BY <1>10, SettledType DEF Refuse, Awaits, TypeOK, Outcomes
<1>11. CASE Answer
  BY <1>11, SettledType DEF Answer, Awaits, TypeOK, Outcomes
<1>12. ASSUME NEW reaches \in BOOLEAN, serving.pc = "adapter", Hand(reaches) PROVE TypeOK'
  <2>1. arrived' \in Seq(Deliveries)
    BY <1>12, Appended DEF Hand, TypeOK, Requests
  <2>2. serving' \in [pc : {"adapter", "answer"}, request : Requests]
    BY <1>12 DEF Hand, TypeOK
  <2>3. QED BY <1>12, <2>1, <2>2 DEF Hand, TypeOK
<1>13. ASSUME NEW answers \in BOOLEAN, NEW accepted \in BOOLEAN, Inject(answers, accepted)
       PROVE  TypeOK'
  <2>1. (Resolved(serving.request.session, answers) /\ accepted) \in BOOLEAN
    BY DEF Resolved
  <2>2. QED BY <1>12, <1>13, <2>1 DEF Inject
<1>14. ASSUME NEW sent \in BOOLEAN, Send(sent) PROVE TypeOK'
  BY <1>12, <1>14 DEF Send
<1>15. ASSUME NEW s \in Sessions, NEW row \in BOOLEAN, Observe(s, row) PROVE TypeOK'
  <2>1. routes' \in Seq(Sessions) /\ seen' \in Seq(Sessions)
    BY <1>15, RouteType DEF Observe, Moved, TypeOK
  <2>2. QED BY <1>15, <2>1 DEF Observe, TypeOK
<1>16. CASE UNCHANGED vars
  BY <1>16 DEF vars, TypeOK
<1>17. ASSUME NEW n \in Deliveries, SendLate(n) PROVE TypeOK'
  <2>1. arrived' \in Seq(Deliveries)
    BY <1>17, Appended DEF SendLate, TypeOK
  <2>2. QED BY <1>17, <2>1 DEF SendLate, TypeOK
<1>18. QED
  BY <1>1, <1>2, <1>3, <1>4, <1>5, <1>6, <1>7, <1>8, <1>9, <1>10, <1>11, <1>13, <1>14, <1>15, <1>16,
     <1>17
     DEF Next

-----------------------------------------------------------------------------
(* The order is kept. *)

\* A backlog that has lost some of its requests.
Thinned ==
    \A i, j \in DOMAIN queue' : \E k, l \in DOMAIN queue :
        queue'[i] = queue[k] /\ queue'[j] = queue[l] /\ (i < j => k < l)

\* What goes on by itself goes on as it is, or with the request that was served.
Outlives ==
    \/ UNCHANGED outlived
    \/ /\ serving.pc = "adapter" /\ serving' = NotServing /\ DOMAIN queue' = {}
       /\ outcome'[serving.request.n] = "unknown"
       /\ outlived' = outlived \cup {serving.request.n}

LEMMA Numbers ==
    ASSUME TypeOK
    PROVE  /\ begun \in Nat
           /\ \A n \in outlived : n \in Deliveries /\ n \in Nat
           /\ \A i \in DOMAIN queue : queue[i] \in Requests /\ queue[i].n \in Nat
           /\ \A k \in DOMAIN arrived : arrived[k] \in Deliveries /\ arrived[k] \in Nat
           /\ serving.pc # "idle" => serving.request.n \in Nat
           /\ attempt.pc # "idle" => attempt.request.n \in Deliveries
<1>1. \A r \in Requests : r.n \in Deliveries /\ r.n \in Nat
  BY DEF Requests, Deliveries
<1>2. /\ \A i \in DOMAIN queue : queue[i] \in Requests
      /\ \A k \in DOMAIN arrived : arrived[k] \in Deliveries
  BY LenProperties, ElementOfSeq DEF TypeOK
<1>3. \A n \in outlived : n \in Deliveries /\ n \in Nat
  BY DEF TypeOK, Deliveries
<1>4. QED BY <1>1, <1>2, <1>3, PendingType, DeliveryAssumption DEF TypeOK, Deliveries

\* A step after which there is only less to come, and which settles nothing.
LEMMA LessToCome ==
    ASSUME TypeOK, OrderInv, Thinned, Outlives, UNCHANGED <<begun, outcome, arrived>>,
           attempt' = attempt \/ (attempt'.pc = attempt.pc /\ attempt'.request = attempt.request),
           serving' \in {serving, NotServing},
           serving' = serving \/ attempt.pc # "await" \/ serving.request.n # begun
              \/ serving.pc = "adapter"
    PROVE  OrderInv'
<1> USE Numbers
<1>1. attempt'.pc = attempt.pc /\ (attempt.pc # "idle" => attempt'.request = attempt.request)
  OBVIOUS
<1>2. serving'.pc # "idle" => serving' = serving
  BY DEF NotServing
<1>3. \A i \in DOMAIN queue' : \E k \in DOMAIN queue : queue'[i] = queue[k]
  BY DEF Thinned
<1>4. Queued' /\ Served'
  BY <1>2, <1>3 DEF OrderInv, Queued, Served, Thinned
<1>5. Arrived'
  BY <1>2, <1>3 DEF OrderInv, Arrived, Outlives
<1>o. Outliving'
  BY <1>2, <1>3 DEF OrderInv, Outliving, Outlives, Served, NotServing
<1>6. Pending' /\ Connecting'
  BY <1>1, <1>2, <1>3 DEF OrderInv, Pending, Connecting
<1>7. Awaiting'
  <2> SUFFICES ASSUME attempt.pc = "await" PROVE Awaiting'
    BY <1>1 DEF Awaiting
  <2>1. ASSUME NEW k \in DOMAIN arrived, arrived[k] = begun PROVE serving' = serving
    BY <2>1 DEF OrderInv, Awaiting
  <2>2. QED BY <1>1, <1>2, <1>3, <2>1 DEF OrderInv, Awaiting
<1>8. Settlement'
  BY <1>2, <1>3 DEF OrderInv, Settlement
<1>9. QED BY <1>4, <1>5, <1>6, <1>7, <1>8, <1>o DEF OrderInv

\* A step that settles the awaited delivery; it fails only where it is gone.
LEMMA SettlesOne ==
    ASSUME TypeOK, OrderInv, Thinned, Outlives, UNCHANGED <<begun, arrived>>,
           attempt.pc # "idle", NEW how \in Outcomes \ {"none"}, Settled(how),
           serving' \in {serving, NotServing},
           how \in Ended =>
               /\ \A i \in DOMAIN queue' : queue'[i].n # begun
               /\ serving'.pc # "idle" => serving'.request.n # begun,
           how = "failed" => \A k \in DOMAIN arrived : arrived[k] # begun
    PROVE  OrderInv'
<1> USE Numbers
<1>1. /\ attempt' = NoAttempt /\ attempt'.pc = "idle"
      /\ \A n \in Deliveries : outcome'[n] = IF n = begun THEN how ELSE outcome[n]
  BY SettledType DEF NoAttempt, OrderInv, Pending
<1>2. serving'.pc # "idle" => serving' = serving
  BY DEF NotServing
<1>3. \A i \in DOMAIN queue' : \E k \in DOMAIN queue : queue'[i] = queue[k]
  BY DEF Thinned
<1>4. Queued' /\ Served'
  BY <1>2, <1>3 DEF OrderInv, Queued, Served, Thinned
<1>5. Arrived'
  BY <1>2, <1>3 DEF OrderInv, Arrived, Outlives
<1>o. Outliving'
  <2>1. \A n \in outlived : n # begun /\ outcome'[n] = "unknown"
    BY <1>1 DEF OrderInv, Outliving, Pending
  <2>2. QED BY <1>2, <1>3, <2>1 DEF OrderInv, Outliving, Outlives, Served, NotServing
<1>6. Pending' /\ Connecting' /\ Awaiting'
  BY <1>1 DEF Pending, Connecting, Awaiting
<1>7. Settlement'
  <2> SUFFICES ASSUME NEW n \in Deliveries
               PROVE  /\ n > begun => outcome'[n] = "none"
                      /\ outcome'[n] = "none" => n > begun
                      /\ outcome'[n] \in Ended =>
                           /\ \A i \in DOMAIN queue' : queue'[i].n # n
                           /\ serving'.pc # "idle" => serving'.request.n # n
                      /\ outcome'[n] = "failed" => \A k \in DOMAIN arrived : arrived[k] # n
    BY DEF Settlement
  <2>1. CASE n = begun
    BY <1>1, <2>1
  <2>2. CASE n # begun
    BY <1>1, <1>2, <1>3, <2>2 DEF OrderInv, Settlement
  <2>3. QED BY <2>1, <2>2
<1>8. QED BY <1>4, <1>5, <1>6, <1>7, <1>o DEF OrderInv

\* The end of what is served when the plugin dies is not known, or awaited.
LEMMA ServedUnsettled ==
    ASSUME TypeOK, OrderInv, serving.pc = "adapter"
    PROVE  /\ serving.request.n \in Deliveries /\ serving.request.n \in 1..begun
           /\ \/ outcome[serving.request.n] = "unknown"
              \/ serving.request.n = begun /\ outcome[begun] = "none" /\ attempt.pc = "await"
<1> DEFINE n == serving.request.n
<1>1. n \in Deliveries /\ n \in Nat /\ n <= begun /\ begun \in Nat
  BY Numbers, PendingType DEF Requests, OrderInv, Served
<1>2. n \in 1..begun
  BY <1>1 DEF Deliveries
<1>3. outcome[n] \in {"none", "unknown"}
  <2>1. outcome[n] \in Outcomes /\ outcome[n] \notin Ended
    BY <1>1 DEF TypeOK, OrderInv, Settlement
  <2>2. QED BY <2>1 DEF Outcomes, Ended
<1>4. CASE outcome[n] = "none"
  <2>1. n = begun /\ attempt.pc # "idle"
    BY <1>1, <1>4 DEF OrderInv, Settlement
  <2>2. attempt.pc # "connect"
    BY <2>1 DEF OrderInv, Connecting
  <2>3. QED BY <1>1, <1>2, <1>4, <2>1, <2>2, PendingType
<1>5. QED BY <1>1, <1>2, <1>3, <1>4

LEMMA StepOrder == TypeOK /\ OrderInv /\ [Next]_vars => OrderInv'
<1> SUFFICES ASSUME TypeOK, OrderInv, [Next]_vars PROVE OrderInv'
  OBVIOUS
<1> USE Numbers DEF Ended
<1>a. (queue' = queue \/ queue' = << >>) => Thinned
  BY DEF Thinned
<1>1. ASSUME NEW s \in Sessions, NEW kind \in {"inject", "send"}, Deliver(s, kind) PROVE OrderInv'
  <2>1. /\ begun' = begun + 1 /\ begun' \in Deliveries /\ outcome[begun'] = "none"
        /\ attempt.pc = "idle" /\ attempt'.pc = "connect" /\ attempt'.request.n = begun'
        /\ UNCHANGED <<queue, serving, outcome, arrived>>
    BY <1>1, DeliveryAssumption
       DEF Deliver, Request, Deliveries, TypeOK, OrderInv, Settlement
  <2>2. Queued' /\ Served' /\ Arrived' /\ Outliving'
    <3>1. UNCHANGED outlived
      BY <1>1 DEF Deliver
    <3>2. QED BY <2>1, <3>1 DEF OrderInv, Queued, Served, Arrived, Outliving
  <2>3. Pending' /\ Awaiting'
    BY <2>1 DEF Pending, Awaiting
  <2>4. Connecting'
    BY <2>1 DEF Connecting, OrderInv, Queued, Served, Arrived
  <2>5. Settlement'
    <3>1. \A n \in Deliveries : n \in Nat /\ (outcome[n] = "none" => n > begun)
      BY <2>1 DEF Settlement, OrderInv, Deliveries
    <3>2. \A n \in Deliveries : n > begun => n = begun' \/ n > begun'
      BY <2>1, <3>1
    <3>3. QED BY <2>1, <3>1, <3>2 DEF Settlement, OrderInv
  <2>6. QED BY <2>2, <2>3, <2>4, <2>5 DEF OrderInv
<1>2. CASE Connect
  <2>1. CASE listener = "down"
    BY <1>a, <1>2, <2>1, SettlesOne DEF Connect, Outcomes, OrderInv, Connecting, Outlives
  <2>2. CASE listener # "down"
    <3>1. /\ attempt.pc = "connect" /\ attempt'.pc = "await" /\ attempt'.request = attempt.request
          /\ attempt.request \in Requests /\ attempt.request.n = begun
          /\ UNCHANGED <<begun, serving, outcome, arrived, outlived>>
      BY <1>2, <2>2, PendingType DEF Connect, OrderInv, Pending
    <3>2. /\ DOMAIN queue = 1..Len(queue) /\ Len(queue) \in Nat /\ DOMAIN queue' = 1..Len(queue) + 1
          /\ \A i \in DOMAIN queue : queue'[i] = queue[i]
          /\ queue'[Len(queue) + 1] = attempt.request
      <4>1. queue \in Seq(Requests) /\ queue' = Append(queue, attempt.request)
        BY <1>2, <2>2 DEF Connect, TypeOK
      <4>2. DOMAIN queue = 1..Len(queue) /\ Len(queue) \in Nat
        BY ONLY <4>1, LenProperties
      <4>3. /\ DOMAIN Append(queue, attempt.request) = 1..Len(queue) + 1
            /\ \A i \in 1..Len(queue) : Append(queue, attempt.request)[i] = queue[i]
            /\ Append(queue, attempt.request)[Len(queue) + 1] = attempt.request
        BY ONLY <3>1, <4>1, Appended
      <4>4. QED BY <4>1, <4>2, <4>3
    <3>3. \A i \in DOMAIN queue' : \/ i \in DOMAIN queue /\ queue'[i] = queue[i] /\ queue[i].n < begun
                                   \/ i = Len(queue) + 1 /\ queue'[i] = attempt.request
      BY <3>1, <3>2 DEF OrderInv, Queued, Connecting
    <3>4. Queued'
      <4>1. \A i \in DOMAIN queue' : queue'[i].n <= begun
        BY <3>1, <3>3
      <4>2. ASSUME NEW i \in DOMAIN queue', NEW j \in DOMAIN queue', i < j
            PROVE  queue'[i].n < queue'[j].n
        <5>1. i \in DOMAIN queue /\ queue'[i] = queue[i] /\ queue[i].n < begun
          BY <3>2, <3>3, <4>2
        <5>2. CASE j \in DOMAIN queue
          BY <3>2, <4>2, <5>1, <5>2 DEF OrderInv, Queued
        <5>3. CASE j \notin DOMAIN queue
          BY <3>1, <3>3, <5>1, <5>3
        <5>4. QED BY <5>2, <5>3
      <4>3. QED BY <3>1, <4>1, <4>2 DEF Queued
    <3>5. Served' /\ Arrived'
      BY <3>1, <3>3 DEF OrderInv, Served, Arrived, Connecting
    <3>6. Pending' /\ Connecting' /\ Awaiting'
      BY <3>1, <3>3 DEF OrderInv, Pending, Connecting, Awaiting
    <3>7. Settlement'
      BY <3>1, <3>3 DEF OrderInv, Settlement, Pending
    <3>8. Outliving'
      <4>1. \A n \in outlived : n < begun
        BY <3>1 DEF OrderInv, Outliving, Pending
      <4>2. QED BY <3>1, <3>3, <4>1 DEF OrderInv, Outliving
    <3>9. QED BY <3>4, <3>5, <3>6, <3>7, <3>8 DEF OrderInv
  <2>3. QED BY <2>1, <2>2
<1>3. CASE Tick
  <2>1. attempt'.pc = attempt.pc /\ attempt'.request = attempt.request
    BY <1>3, PendingType DEF Tick
  <2>2. QED BY <1>a, <1>3, <2>1, LessToCome DEF Tick, Outlives
<1>4. CASE Abort
  <2>1. Thinned
    <3>1. CASE UNCHANGED queue
      BY <1>a, <3>1
    <3>2. ASSUME NEW i \in DOMAIN queue, queue' = RemoveAt(queue, i) PROVE Thinned
      <4>1. /\ DOMAIN queue = 1..Len(queue) /\ Len(queue) \in Nat
            /\ DOMAIN queue' = 1..Len(queue) - 1
            /\ \A k \in 1..Len(queue) - 1 : queue'[k] = queue[IF k < i THEN k ELSE k + 1]
        BY <3>2, Removal, LenProperties DEF TypeOK
      <4> DEFINE place(k) == IF k < i THEN k ELSE k + 1
      <4>2. ASSUME NEW k \in DOMAIN queue' PROVE place(k) \in DOMAIN queue /\ queue'[k] = queue[place(k)]
        BY <4>1
      <4>3. ASSUME NEW k \in DOMAIN queue', NEW l \in DOMAIN queue', k < l PROVE place(k) < place(l)
        BY <4>1, <4>3
      <4> HIDE DEF place
      <4>4. QED BY <4>2, <4>3 DEF Thinned
    <3>3. QED BY <1>4, <3>1, <3>2 DEF Abort
  <2>2. QED BY <1>4, <2>1, SettlesOne DEF Abort, Outcomes, Outlives
<1>5. CASE SidecarCrash
  BY <1>a, <1>5, SettlesOne DEF SidecarCrash, Outcomes, Outlives
<1>6. CASE StartListener \/ StopListener
  BY <1>a, <1>6, LessToCome DEF StartListener, StopListener, Outlives
<1>7. CASE CloseListener
  <2>1. serving.pc = "idle" /\ queue' = << >> /\ UNCHANGED <<begun, serving, arrived>>
    BY <1>7 DEF CloseListener, ResetQueue
  <2>2. CASE attempt.pc = "await"
    <3>1. \A k \in DOMAIN arrived : arrived[k] # begun
      BY <2>1, <2>2 DEF OrderInv, Awaiting
    <3>2. QED BY <1>a, <1>7, <2>1, <2>2, <3>1, SettlesOne
       DEF CloseListener, ResetQueue, Outcomes, Outlives
  <2>3. CASE attempt.pc # "await"
    BY <1>a, <1>7, <2>1, <2>3, LessToCome DEF CloseListener, ResetQueue, Outlives
  <2>4. QED BY <2>2, <2>3
<1>8. CASE PluginCrash
  <2>0. Thinned /\ serving' = NotServing /\ DOMAIN queue' = {}
    BY <1>a, <1>8 DEF PluginCrash
  <2>1. CASE attempt.pc = "await"
    <3>1. attempt.request.n = begun /\ Settled("unknown")
      BY <1>8, <2>1 DEF PluginCrash, OrderInv, Pending
    <3>2. serving.pc = "adapter" => outcome'[serving.request.n] = "unknown"
      BY <2>1, <3>1, ServedUnsettled, SettledType DEF Outcomes
    <3>3. Outlives
      BY <1>8, <2>0, <3>2 DEF PluginCrash, Outlives
    <3>4. UNCHANGED <<begun, arrived>>
      BY <1>8 DEF PluginCrash
    <3>5. QED BY <2>0, <2>1, <3>1, <3>3, <3>4, SettlesOne DEF Outcomes
  <2>2. CASE attempt.pc # "await"
    <3>1. UNCHANGED <<begun, arrived, attempt, outcome>>
      BY <1>8, <2>2 DEF PluginCrash
    <3>2. Outlives
      BY <1>8, <2>0, <2>2, <3>1, ServedUnsettled DEF PluginCrash, Outlives
    <3>3. QED BY <2>0, <2>2, <3>1, <3>2, LessToCome
  <2>3. QED BY <2>1, <2>2
<1>9. CASE Accept
  <2>1. /\ serving.pc = "idle" /\ queue # << >>
        /\ serving' = [pc |-> "adapter", request |-> Head(queue)] /\ queue' = Tail(queue)
        /\ UNCHANGED <<begun, attempt, outcome, arrived, outlived>>
    BY <1>9 DEF Accept
  <2>2. /\ DOMAIN queue = 1..Len(queue) /\ Len(queue) \in Nat \ {0}
        /\ DOMAIN queue' = 1..Len(queue) - 1
        /\ \A i \in 1..Len(queue) - 1 : queue'[i] = queue[i + 1]
    BY <2>1, HeadTailProperties, LenProperties, EmptySeq DEF TypeOK
  <2>3. 1 \in DOMAIN queue /\ serving'.pc = "adapter" /\ serving'.request = queue[1]
    BY <2>1, <2>2, HeadTailProperties DEF TypeOK
  <2>4. \A i \in DOMAIN queue' : \E k \in DOMAIN queue : queue'[i] = queue[k] /\ k = i + 1 /\ 1 < k
    BY <2>2
  <2>5. Queued' /\ Served' /\ Arrived' /\ Outliving'
    BY <2>1, <2>3, <2>4 DEF OrderInv, Queued, Served, Arrived, Outliving
  <2>6. Pending' /\ Connecting' /\ Awaiting'
    BY <2>1, <2>3, <2>4 DEF OrderInv, Pending, Connecting, Awaiting
  <2>7. Settlement'
    BY <2>1, <2>3, <2>4 DEF OrderInv, Settlement
  <2>8. QED BY <2>5, <2>6, <2>7 DEF OrderInv
<1>10. CASE Refuse
  <2>1. serving.pc = "adapter" /\ serving' = NotServing /\ UNCHANGED <<begun, queue, arrived>>
    BY <1>10 DEF Refuse
  <2>2. CASE Awaits(serving.request)
    <3>1. attempt.pc = "await" /\ serving.request.n = begun
      BY <2>2 DEF Awaits, OrderInv, Pending
    <3>2. /\ \A i \in DOMAIN queue : queue[i].n # begun
          /\ \A k \in DOMAIN arrived : arrived[k] # begun
      BY <2>1, <3>1 DEF OrderInv, Served, Awaiting
    <3>3. QED BY <1>a, <1>10, <2>1, <2>2, <3>1, <3>2, SettlesOne
       DEF Refuse, Outcomes, NotServing, Outlives
  <2>3. CASE ~Awaits(serving.request)
    BY <1>a, <1>10, <2>1, <2>3, LessToCome DEF Refuse, Outlives
  <2>4. QED BY <2>2, <2>3
<1>11. CASE Answer
  <2>1. serving.pc = "answer" /\ serving' = NotServing /\ UNCHANGED <<begun, queue, arrived>>
    BY <1>11 DEF Answer
  <2>2. CASE Awaits(serving.request)
    <3>1. attempt.pc = "await" /\ serving.request.n = begun
      BY <2>2 DEF Awaits, OrderInv, Pending
    <3>2. \A i \in DOMAIN queue : queue[i].n # begun
      BY <2>1, <3>1 DEF OrderInv, Served
    <3>3. QED BY <1>a, <1>11, <2>1, <2>2, <3>1, <3>2, SettlesOne
       DEF Answer, Outcomes, NotServing, Outlives
  <2>3. CASE ~Awaits(serving.request)
    <3>1. attempt.pc # "await" \/ serving.request.n # begun
      BY <2>1, <2>3 DEF Awaits, OrderInv, Awaiting
    <3>2. QED BY <1>a, <1>11, <2>1, <2>3, <3>1, LessToCome DEF Answer, Outlives
  <2>4. QED BY <2>2, <2>3
<1>12. ASSUME NEW reaches \in BOOLEAN, serving.pc = "adapter", Hand(reaches) PROVE OrderInv'
  <2>1. /\ serving'.pc = "answer" /\ serving'.request = serving.request
        /\ UNCHANGED <<begun, attempt, queue, outcome, outlived>>
    BY <1>12, PendingType DEF Hand
  <2>2. /\ DOMAIN arrived = 1..Len(arrived) /\ Len(arrived) \in Nat
        /\ DOMAIN arrived \subseteq DOMAIN arrived'
        /\ \A k \in DOMAIN arrived : arrived'[k] = arrived[k]
        /\ \A k \in DOMAIN arrived' \ DOMAIN arrived :
            k = Len(arrived) + 1 /\ arrived'[k] = serving.request.n
    <3>1. serving.request.n \in Deliveries
      BY <1>12, PendingType DEF Requests
    <3>2. QED BY <1>12, <3>1, Appended, LenProperties DEF Hand, TypeOK
  <2>3. Queued' /\ Served' /\ Outliving'
    BY <1>12, <2>1 DEF OrderInv, Queued, Served, Outliving
  <2>4. Arrived'
    <3>1. \A k \in DOMAIN arrived : arrived[k] < serving.request.n
      BY <1>12 DEF OrderInv, Arrived
    <3>2. \A k, l \in DOMAIN arrived' : k < l =>
            arrived'[k] < arrived'[l] \/ (arrived'[l] \in outlived' /\ arrived'[k] # arrived'[l])
      BY <2>1, <2>2, <3>1 DEF OrderInv, Arrived
    <3>3. ASSUME NEW k \in DOMAIN arrived'
          PROVE  /\ arrived'[k] <= begun'
                 /\ \A i \in DOMAIN queue' : arrived'[k] < queue'[i].n
                 /\ arrived'[k] <= serving'.request.n
      BY <1>12, <2>1, <2>2, <3>1 DEF OrderInv, Arrived, Served
    <3>4. serving'.pc # "adapter"
      BY <2>1
    <3>5. QED BY ONLY <3>2, <3>3, <3>4 DEF Arrived
  <2>5. Pending' /\ Connecting'
    BY <1>12, <2>1, <2>2 DEF OrderInv, Pending, Connecting
  <2>6. Awaiting'
    BY <1>12, <2>1, <2>2 DEF OrderInv, Awaiting
  <2>7. Settlement'
    BY <1>12, <2>1, <2>2 DEF OrderInv, Settlement
  <2>8. QED BY <2>3, <2>4, <2>5, <2>6, <2>7 DEF OrderInv
<1>13. ASSUME NEW answers \in BOOLEAN, NEW accepted \in BOOLEAN, Inject(answers, accepted)
       PROVE  OrderInv'
  <2>1. (Resolved(serving.request.session, answers) /\ accepted) \in BOOLEAN
    BY DEF Resolved
  <2>2. QED BY <1>12, <1>13, <2>1 DEF Inject
<1>14. ASSUME NEW sent \in BOOLEAN, Send(sent) PROVE OrderInv'
  BY <1>12, <1>14 DEF Send
<1>15. ASSUME NEW s \in Sessions, NEW row \in BOOLEAN, Observe(s, row) PROVE OrderInv'
  BY <1>a, <1>15, LessToCome DEF Observe, Outlives
<1>16. CASE UNCHANGED vars
  BY <1>a, <1>16, LessToCome DEF vars, Outlives
<1>17. ASSUME NEW n \in Deliveries, SendLate(n) PROVE OrderInv'
  <2>1. /\ n \in outlived /\ n \notin ToSet(arrived) /\ arrived' = Append(arrived, n)
        /\ UNCHANGED <<begun, attempt, queue, serving, outcome, outlived>>
    BY <1>17 DEF SendLate
  <2>2. /\ DOMAIN arrived = 1..Len(arrived) /\ Len(arrived) \in Nat
        /\ DOMAIN arrived \subseteq DOMAIN arrived'
        /\ \A k \in DOMAIN arrived : arrived'[k] = arrived[k]
        /\ \A k \in DOMAIN arrived' \ DOMAIN arrived : k = Len(arrived) + 1 /\ arrived'[k] = n
    BY <2>1, Appended, LenProperties DEF TypeOK
  <2>3. /\ outcome[n] = "unknown" /\ n <= begun /\ (attempt.pc # "idle" => n # begun)
        /\ \A i \in DOMAIN queue : n < queue[i].n
        /\ serving.pc # "idle" => n < serving.request.n
    BY <2>1 DEF OrderInv, Outliving, Pending
  <2>4. \A k \in DOMAIN arrived : arrived[k] # n
    BY <2>1 DEF ToSet
  <2>5. Queued' /\ Served' /\ Outliving' /\ Pending'
    BY <2>1 DEF OrderInv, Queued, Served, Outliving, Pending
  <2>6. Arrived'
    <3>1. \A k, l \in DOMAIN arrived' : k < l =>
            arrived'[k] < arrived'[l] \/ (arrived'[l] \in outlived' /\ arrived'[k] # arrived'[l])
      BY <2>1, <2>2, <2>4 DEF OrderInv, Arrived
    <3>2. \A k \in DOMAIN arrived' :
            /\ arrived'[k] <= begun
            /\ \A i \in DOMAIN queue : arrived'[k] < queue[i].n
            /\ serving.pc = "adapter" => arrived'[k] < serving.request.n
            /\ serving.pc = "answer" => arrived'[k] <= serving.request.n
      BY <2>1, <2>2, <2>3, PendingType DEF OrderInv, Arrived
    <3>3. QED BY <2>1, <3>1, <3>2 DEF Arrived
  <2>7. Connecting' /\ Awaiting'
    BY <2>1, <2>2, <2>3 DEF OrderInv, Connecting, Awaiting
  <2>8. Settlement'
    BY <2>1, <2>2, <2>3 DEF OrderInv, Settlement
  <2>9. QED BY <2>5, <2>6, <2>7, <2>8 DEF OrderInv
<1>18. QED
  BY <1>1, <1>2, <1>3, <1>4, <1>5, <1>6, <1>7, <1>8, <1>9, <1>10, <1>11, <1>13, <1>14, <1>15, <1>16,
     <1>17
     DEF Next

LEMMA OrderAlways == Spec => [](TypeOK /\ OrderInv)
BY InitOrder, StepTypeOK, StepOrder, PTL DEF Spec

\* Outreaches reach their users in the order the heartbeat decided them and at
\* most once, whatever is aborted, restarted or dies on the way: only one that a
\* process without a parent still sends may be overtaken.
THEOREM ArrivalsInOrder == Spec => []ArriveInOrder
<1>1. TypeOK /\ OrderInv => ArriveInOrder
  BY DEF OrderInv, Arrived, ArriveInOrder
<1>2. QED BY <1>1, OrderAlways, PTL

\* A delivery reported as failed never reaches its user, before or after.
THEOREM FailedStaysAway == Spec => []FailedNeverArrives
<1>1. TypeOK /\ OrderInv => FailedNeverArrives
  BY Numbers DEF OrderInv, Settlement, FailedNeverArrives, ToSet
<1>2. QED BY <1>1, OrderAlways, PTL

-----------------------------------------------------------------------------
(* The promise of module Handover. *)

LEMMA SettlesPromised ==
    ASSUME TypeOK, OrderInv, UNCHANGED <<begun, arrived, outlived>>, attempt.pc # "idle",
           NEW how \in Outcomes \ {"none"}, Settled(how),
           how = "failed" => \A k \in DOMAIN arrived : arrived[k] # begun
    PROVE  Promise!Next
<1>1. attempt.request.n = begun /\ outcome[begun] = "none" /\ begun \in 1..begun
  BY Numbers DEF OrderInv, Pending, Deliveries
<1>2. Promise!Settle(begun, how)
  BY <1>1 DEF Settled, Promise!Settle
<1>3. how \in {"fulfilled", "failed", "unknown"}
  BY DEF Outcomes
<1>4. QED BY <1>1, <1>2, <1>3 DEF Promise!Next

LEMMA StepPromised ==
    ASSUME TypeOK, OrderInv, [Next]_vars
    PROVE  [Promise!Next]_(Promise!vars)
<1> USE Numbers DEF Promise!vars
<1>1. ASSUME NEW s \in Sessions, NEW kind \in {"inject", "send"}, Deliver(s, kind)
      PROVE  Promise!Next
  <2>1. begun < MaxAttempts /\ begun' = begun + 1 /\ attempt.pc = "idle" /\ UNCHANGED <<outcome, arrived, outlived>>
    BY <1>1 DEF Deliver
  <2>2. ASSUME NEW n \in 1..begun PROVE outcome[n] # "none"
    <3>1. n \in Deliveries /\ ~(n > begun)
      BY <2>1, DeliveryAssumption DEF Deliveries
    <3>2. QED BY <2>1, <3>1 DEF OrderInv, Settlement
  <2>3. Promise!Begin
    BY <2>1, <2>2 DEF Promise!Begin
  <2>4. QED BY <2>3 DEF Promise!Next
<1>2. CASE Connect
  BY <1>2, SettlesPromised DEF Connect, Outcomes, OrderInv, Connecting
<1>3. CASE Abort \/ SidecarCrash
  BY <1>3, SettlesPromised DEF Abort, SidecarCrash, Outcomes
<1>4. CASE CloseListener
  BY <1>4, SettlesPromised DEF CloseListener, ResetQueue, Outcomes, OrderInv, Awaiting
<1>5. CASE PluginCrash
  <2>1. CASE UNCHANGED outlived
    BY <1>5, <2>1, SettlesPromised DEF PluginCrash, Outcomes
  <2>2. CASE serving.pc = "adapter" /\ outlived' = outlived \cup {serving.request.n}
    <3> DEFINE n == serving.request.n
    <3>1. n \in 1..begun /\ \A k \in DOMAIN arrived : arrived[k] < n
      BY <2>2, ServedUnsettled DEF OrderInv, Arrived
    <3>2. \/ UNCHANGED outcome /\ attempt.pc # "await"
          \/ outcome[begun] = "none" /\ outcome' = [outcome EXCEPT ![begun] = "unknown"]
      BY <1>5 DEF PluginCrash, Settled, OrderInv, Pending
    <3>3. outcome'[n] = "unknown"
      BY <2>2, <3>2, ServedUnsettled DEF TypeOK
    <3>4. Promise!Outlive(n)
      BY <1>5, <2>2, <3>1, <3>2, <3>3 DEF PluginCrash, Promise!Outlive
    <3>5. QED BY <3>1, <3>4 DEF Promise!Next
  <2>3. QED BY <1>5, <2>1, <2>2 DEF PluginCrash
<1>6. CASE Refuse
  <2>1. CASE Awaits(serving.request)
    <3>1. /\ attempt.pc = "await" /\ serving.pc = "adapter" /\ Settled("failed")
          /\ UNCHANGED <<begun, arrived, outlived>>
      BY <1>6, <2>1 DEF Refuse, Awaits
    <3>2. \A k \in DOMAIN arrived : arrived[k] # begun
      BY <3>1 DEF OrderInv, Awaiting
    <3>3. QED BY <3>1, <3>2, SettlesPromised DEF Outcomes
  <2>2. CASE ~Awaits(serving.request)
    BY <1>6, <2>2 DEF Refuse
  <2>3. QED BY <2>1, <2>2
<1>7. CASE Answer
  BY <1>7, SettlesPromised DEF Answer, Awaits, Outcomes
<1>8. ASSUME NEW reaches \in BOOLEAN, serving.pc = "adapter", Hand(reaches)
      PROVE  [Promise!Next]_(Promise!vars)
  <2>1. CASE reaches
    <3> DEFINE n == serving.request.n
    <3>1. n \in 1..begun /\ outcome[n] \in {"none", "unknown"}
      BY <1>8, ServedUnsettled
    <3>2. \A k \in DOMAIN arrived : arrived[k] < n
      BY <1>8 DEF OrderInv, Arrived
    <3>3. Promise!Arrive(n)
      BY <1>8, <2>1, <3>1, <3>2 DEF Hand, Promise!Arrive
    <3>4. QED BY <3>1, <3>3 DEF Promise!Next
  <2>2. CASE ~reaches
    BY <1>8, <2>2 DEF Hand
  <2>3. QED BY <2>1, <2>2
<1>9. ASSUME NEW answers \in BOOLEAN, NEW accepted \in BOOLEAN, Inject(answers, accepted)
      PROVE  [Promise!Next]_(Promise!vars)
  <2>1. (Resolved(serving.request.session, answers) /\ accepted) \in BOOLEAN
    BY DEF Resolved
  <2>2. QED BY <1>8, <1>9, <2>1 DEF Inject
<1>10. ASSUME NEW sent \in BOOLEAN, Send(sent) PROVE [Promise!Next]_(Promise!vars)
  BY <1>8, <1>10 DEF Send
<1>11. CASE \/ Tick \/ StartListener \/ StopListener \/ Accept
            \/ \E s \in Sessions, row \in BOOLEAN : Observe(s, row)
            \/ UNCHANGED vars
  BY <1>11 DEF Tick, StartListener, StopListener, Accept, Observe, vars
<1>12. ASSUME NEW n \in Deliveries, SendLate(n) PROVE Promise!Next
  <2>1. n \in 1..begun /\ outcome[n] = "unknown"
    BY <1>12 DEF SendLate, OrderInv, Outliving, Deliveries
  <2>2. \A k \in DOMAIN arrived : arrived[k] # n
    BY <1>12 DEF SendLate, ToSet
  <2>3. Promise!Arrive(n)
    BY <1>12, <2>1, <2>2 DEF SendLate, Promise!Arrive
  <2>4. QED BY <2>1, <2>3 DEF Promise!Next
<1>13. QED
  BY <1>1, <1>2, <1>3, <1>4, <1>5, <1>6, <1>7, <1>9, <1>10, <1>11, <1>12 DEF Next

\* The transport implements Handover, for any number of deliveries, any backlog and
\* timeout, and whatever is aborted, reset, restarted or dies on the way.
THEOREM TransportRefines == Spec => HandedOver
<1>1. Init => Promise!Init
  BY DEF Init, Promise!Init, Deliveries
<1>2. TypeOK /\ OrderInv /\ [Next]_vars => [Promise!Next]_(Promise!vars)
  BY StepPromised
<1>3. QED BY <1>1, <1>2, OrderAlways, PTL DEF Spec, HandedOver, Promise!Spec

-----------------------------------------------------------------------------
(* The routes. *)

LEMMA NewestOf ==
    ASSUME NEW log \in Seq(Sessions)
    PROVE  /\ Newest(log, MaxRoutes) \in Seq(Sessions)
           /\ Len(Newest(log, MaxRoutes)) = IF Len(log) > MaxRoutes THEN MaxRoutes ELSE Len(log)
           /\ \A k \in 1..Len(Newest(log, MaxRoutes)) :
                Newest(log, MaxRoutes)[k] = log[Len(log) - Len(Newest(log, MaxRoutes)) + k]
<1> DEFINE first == IF Len(log) > MaxRoutes THEN Len(log) - MaxRoutes + 1 ELSE 1
<1>1. Len(log) \in Nat /\ MaxRoutes \in Nat \ {0} /\ \A i \in 1..Len(log) : log[i] \in Sessions
  BY LenProperties, ElementOfSeq, DeliveryAssumption
<1>2. first \in Int /\ first >= 1 /\ \A i \in first .. Len(log) : log[i] \in Sessions
  BY <1>1
<1>3. Len(log) - first + 1 = IF Len(log) > MaxRoutes THEN MaxRoutes ELSE Len(log)
  BY <1>1
<1>4. first <= Len(log) \/ (first = 1 /\ Len(log) = 0)
  BY <1>1
<1>5. Newest(log, MaxRoutes) = SubSeq(log, first, Len(log))
  BY DEF Newest
<1> HIDE DEF first
<1>6. /\ SubSeq(log, first, Len(log)) \in Seq(Sessions)
      /\ Len(SubSeq(log, first, Len(log))) = IF first <= Len(log) THEN Len(log) - first + 1 ELSE 0
      /\ \A i \in 1 .. Len(log) - first + 1 : SubSeq(log, first, Len(log))[i] = log[first + i - 1]
  BY <1>1, <1>2, SubSeqProperties
<1>7. Len(SubSeq(log, first, Len(log))) = Len(log) - first + 1
  BY <1>1, <1>2, <1>4, <1>6
<1>8. \A k \in 1 .. Len(log) - first + 1 : Len(log) - (Len(log) - first + 1) + k = first + k - 1
  BY <1>1, <1>2
<1>9. QED BY <1>3, <1>5, <1>6, <1>7, <1>8

LEMMA NewestEqual ==
    ASSUME NEW a \in Seq(Sessions), NEW b \in Seq(Sessions), NEW n \in Nat,
           Len(Newest(a, MaxRoutes)) = n, Len(Newest(b, MaxRoutes)) = n,
           \A k \in 1..n : a[Len(a) - n + k] = b[Len(b) - n + k]
    PROVE  Newest(a, MaxRoutes) = Newest(b, MaxRoutes)
<1> DEFINE u == Newest(a, MaxRoutes)
           v == Newest(b, MaxRoutes)
<1>1. /\ u \in Seq(Sessions) /\ v \in Seq(Sessions)
      /\ \A k \in 1..n : u[k] = a[Len(a) - n + k]
      /\ \A k \in 1..n : v[k] = b[Len(b) - n + k]
  <2>1. /\ Newest(a, MaxRoutes) \in Seq(Sessions)
        /\ \A k \in 1..Len(Newest(a, MaxRoutes)) :
             Newest(a, MaxRoutes)[k] = a[Len(a) - Len(Newest(a, MaxRoutes)) + k]
    BY NewestOf
  <2>2. /\ Newest(b, MaxRoutes) \in Seq(Sessions)
        /\ \A k \in 1..Len(Newest(b, MaxRoutes)) :
             Newest(b, MaxRoutes)[k] = b[Len(b) - Len(Newest(b, MaxRoutes)) + k]
    BY NewestOf
  <2>3. QED BY <2>1, <2>2
<1> HIDE DEF u, v
<1>2. \A k \in 1..Len(u) : u[k] = v[k]
  BY <1>1 DEF u
<1>3. Len(u) = Len(v)
  BY DEF u, v
<1>4. u = v
  BY <1>1, <1>2, <1>3, SeqEqual
<1>5. QED BY <1>4 DEF u, v

\* A session once in a log is put to its end.
LEMMA PutLast ==
    ASSUME NEW log \in Seq(Sessions), NEW s \in Sessions, NEW i \in 1..Len(log), log[i] = s, Distinct(log)
    PROVE  /\ Append(Without(log, s), s) \in Seq(Sessions)
           /\ Len(Append(Without(log, s), s)) = Len(log)
           /\ \A k \in 1..Len(log) : Append(Without(log, s), s)[k] =
                IF k = Len(log) THEN s ELSE log[IF k < i THEN k ELSE k + 1]
<1>1. DOMAIN log = 1..Len(log) /\ Len(log) \in Nat \ {0}
  BY LenProperties
<1>2. s \in ToSet(log) /\ (CHOOSE k \in DOMAIN log : log[k] = s) = i
  BY <1>1 DEF ToSet, Distinct
<1>3. Without(log, s) = RemoveAt(log, i)
  BY <1>2 DEF Without
<1>4. /\ Without(log, s) \in Seq(Sessions) /\ Len(Without(log, s)) = Len(log) - 1
      /\ \A k \in 1..Len(log) - 1 : Without(log, s)[k] = log[IF k < i THEN k ELSE k + 1]
  <2>1. /\ RemoveAt(log, i) \in Seq(Sessions) /\ Len(RemoveAt(log, i)) = Len(log) - 1
        /\ \A k \in 1..Len(log) - 1 : RemoveAt(log, i)[k] = log[IF k < i THEN k ELSE k + 1]
    BY Removal
  <2>2. QED BY <1>3, <2>1
<1> DEFINE rest == Without(log, s)
<1> HIDE DEF rest
<1>5. /\ rest \in Seq(Sessions) /\ Len(rest) = Len(log) - 1
      /\ \A k \in 1..Len(log) - 1 : rest[k] = log[IF k < i THEN k ELSE k + 1]
  BY <1>4 DEF rest
<1>6. /\ Append(rest, s) \in Seq(Sessions) /\ Len(Append(rest, s)) = Len(rest) + 1
      /\ \A k \in 1..Len(rest) : Append(rest, s)[k] = rest[k]
      /\ Append(rest, s)[Len(rest) + 1] = s
  BY <1>5, Appended
<1>7. ASSUME NEW k \in 1..Len(log)
      PROVE  Append(rest, s)[k] = IF k = Len(log) THEN s ELSE log[IF k < i THEN k ELSE k + 1]
  <2>1. CASE k = Len(log)
    BY <1>1, <1>5, <1>6, <2>1
  <2>2. CASE k # Len(log)
    <3>1. k \in 1..Len(log) - 1
      <4>1. Len(log) \in Nat
        BY <1>1
      <4>2. QED BY <2>2, <4>1
    <3>2. rest[k] = log[IF k < i THEN k ELSE k + 1]
      BY <1>5, <3>1
    <3>3. Append(rest, s)[k] = rest[k]
      BY <1>5, <1>6, <3>1
    <3>4. QED BY <2>2, <3>2, <3>3
  <2>3. QED BY <2>1, <2>2
<1>8. Len(Append(rest, s)) = Len(log)
  BY <1>1, <1>6, <1>5
<1>9. QED BY <1>6, <1>7, <1>8 DEF rest

LEMMA PutNew ==
    ASSUME NEW log \in Seq(Sessions), NEW s \in Sessions, \A i \in 1..Len(log) : log[i] # s
    PROVE  /\ Append(Without(log, s), s) \in Seq(Sessions)
           /\ Len(Append(Without(log, s), s)) = Len(log) + 1
           /\ \A k \in 1..Len(log) + 1 : Append(Without(log, s), s)[k] =
                IF k = Len(log) + 1 THEN s ELSE log[k]
<1>1. DOMAIN log = 1..Len(log) /\ Len(log) \in Nat
  BY LenProperties
<1>2. Without(log, s) = log
  BY <1>1 DEF Without, ToSet
<1>3. QED BY <1>1, <1>2, Appended

\* To forget the oldest before a session is put last is to forget them after.
LEMMA NewestMoved ==
    ASSUME NEW log \in Seq(Sessions), NEW s \in Sessions, Distinct(log)
    PROVE  /\ Distinct(Append(Without(log, s), s))
           /\ Newest(Moved(Newest(log, MaxRoutes), s), MaxRoutes)
                = Newest(Append(Without(log, s), s), MaxRoutes)
<1> DEFINE short == Newest(log, MaxRoutes)
           all == Append(Without(log, s), s)
           some == Append(Without(short, s), s)
           L == Len(log)
           R == Len(short)
           d == L - R
<1>1. /\ L \in Nat /\ MaxRoutes \in Nat \ {0} /\ short \in Seq(Sessions)
      /\ R = IF L > MaxRoutes THEN MaxRoutes ELSE L
      /\ \A k \in 1..R : short[k] = log[d + k]
  BY NewestOf, LenProperties, DeliveryAssumption
<1>2. DOMAIN log = 1..L /\ DOMAIN short = 1..R
  BY <1>1, LenProperties
<1>3. d \in Nat /\ R \in Nat /\ R <= MaxRoutes /\ (R = MaxRoutes \/ d = 0) /\ L = d + R
  BY <1>1
<1>4. Distinct(short)
  <2> HIDE DEF short, L, R, d
  <2>1. \A k \in 1..R : d + k \in 1..L /\ short[k] = log[d + k]
    BY <1>1, <1>3
  <2>2. \A k, l \in 1..R : d + k = d + l => k = l
    BY <1>3
  <2>3. QED BY <1>2, <2>1, <2>2 DEF Distinct
<1> HIDE DEF short, L, R, d
<1>5. CASE \E i \in 1..L : log[i] = s
  <2> PICK i \in 1..L : log[i] = s
    BY <1>5
  <2>1. /\ all \in Seq(Sessions) /\ Len(all) = L
        /\ \A k \in 1..L : all[k] = IF k = L THEN s ELSE log[IF k < i THEN k ELSE k + 1]
    BY PutLast DEF L
  <2>2. Distinct(all)
    <3>1. DOMAIN all = 1..L
      BY <2>1, LenProperties
    <3> DEFINE place(k) == IF k = L THEN i ELSE IF k < i THEN k ELSE k + 1
    <3>2. \A k \in 1..L : place(k) \in 1..L /\ all[k] = log[place(k)]
      BY <1>1, <2>1
    <3>3. \A k, l \in 1..L : place(k) = place(l) => k = l
      BY <1>1
    <3> HIDE DEF place, all
    <3>4. QED BY <1>2, <3>1, <3>2, <3>3 DEF Distinct
  <2>3. Len(Newest(all, MaxRoutes)) = R
    BY <1>1, <2>1, NewestOf
  <2> HIDE DEF all
  <2>4. Newest(some, MaxRoutes) = Newest(all, MaxRoutes)
    <3>1. CASE i > d
      <4>1. i - d \in 1..R /\ short[i - d] = s
        BY <1>1, <1>3, <3>1
      <4>2. /\ some \in Seq(Sessions) /\ Len(some) = R
            /\ \A k \in 1..R : some[k] = IF k = R THEN s ELSE short[IF k < i - d THEN k ELSE k + 1]
        BY <1>1, <1>4, <4>1, PutLast DEF R
      <4> HIDE DEF some
      <4>3. Len(Newest(some, MaxRoutes)) = R
        BY <1>3, <4>2, NewestOf
      <4>4. ASSUME NEW k \in 1..R PROVE some[R - R + k] = all[L - R + k]
        <5>1. R - R + k = k /\ L - R + k = d + k /\ d + k \in 1..L
          BY <1>3
        <5>2. CASE k = R
          BY <1>3, <2>1, <4>2, <5>1, <5>2
        <5>3. CASE k # R
          <6>1. d + k # L /\ k + 1 \in 1..R /\ (d + k < i <=> k < i - d)
            BY <1>3, <5>3
          <6>2. all[d + k] = log[IF k < i - d THEN d + k ELSE d + (k + 1)]
            <7>1. all[d + k] = log[IF d + k < i THEN d + k ELSE (d + k) + 1]
              BY <2>1, <5>1, <6>1
            <7>2. (d + k) + 1 = d + (k + 1)
              BY <1>3
            <7>3. QED BY <6>1, <7>1, <7>2
          <6>3. QED BY <1>1, <4>2, <5>1, <5>3, <6>1, <6>2
        <5>4. QED BY <5>2, <5>3
      <4>5. \A k \in 1..R : some[Len(some) - R + k] = all[Len(all) - R + k]
        BY <2>1, <4>2, <4>4
      <4>6. QED BY <1>3, <2>1, <2>3, <4>2, <4>3, <4>5, NewestEqual
    <3>2. CASE i <= d
      <4>1. \A k \in 1..R : short[k] # s
        <5>1. ASSUME NEW k \in 1..R PROVE short[k] = log[d + k] /\ d + k \in 1..L /\ d + k # i
          BY <1>1, <1>3, <3>2
        <5>2. \A k \in 1..L : log[k] = log[i] => k = i
          BY <1>2 DEF Distinct
        <5>3. QED BY <5>1, <5>2
      <4>2. /\ some \in Seq(Sessions) /\ Len(some) = R + 1
            /\ \A k \in 1..R + 1 : some[k] = IF k = R + 1 THEN s ELSE short[k]
        BY <1>1, <4>1, PutNew DEF R
      <4> HIDE DEF some
      <4>3. R = MaxRoutes /\ Len(Newest(some, MaxRoutes)) = R
        BY <1>3, <3>2, <4>2, NewestOf
      <4>4. ASSUME NEW k \in 1..R PROVE some[(R + 1) - R + k] = all[L - R + k]
        <5>1. (R + 1) - R + k = k + 1 /\ L - R + k = d + k /\ d + k \in 1..L /\ ~(d + k < i)
          BY <1>3, <3>2
        <5>2. CASE k = R
          BY <1>3, <2>1, <4>2, <5>1, <5>2
        <5>3. CASE k # R
          <6>1. d + k # L /\ k + 1 \in 1..R /\ (d + k) + 1 = d + (k + 1)
            BY <1>3, <5>3
          <6>2. all[d + k] = log[d + (k + 1)]
            <7>1. all[d + k] = log[IF d + k < i THEN d + k ELSE (d + k) + 1]
              BY <2>1, <5>1, <6>1
            <7>2. QED BY <5>1, <6>1, <7>1
          <6>3. some[k + 1] = log[d + (k + 1)]
            <7>1. k + 1 \in 1..R + 1 /\ k + 1 # R + 1
              BY <1>3, <6>1
            <7>2. QED BY <1>1, <4>2, <6>1, <7>1
          <6>4. QED BY <5>1, <6>2, <6>3
        <5>4. QED BY <5>2, <5>3
      <4>5. \A k \in 1..R : some[Len(some) - R + k] = all[Len(all) - R + k]
        BY <2>1, <4>2, <4>4
      <4>6. QED BY <1>3, <2>1, <2>3, <4>2, <4>3, <4>5, NewestEqual
    <3>3. QED BY <1>3, <3>1, <3>2
  <2>5. QED BY <2>2, <2>4 DEF Moved, all, some, short
<1>6. CASE ~\E i \in 1..L : log[i] = s
  <2>1. /\ all \in Seq(Sessions) /\ Len(all) = L + 1
        /\ \A k \in 1..L + 1 : all[k] = IF k = L + 1 THEN s ELSE log[k]
    BY <1>6, PutNew DEF L
  <2>2. Distinct(all)
    <3>1. DOMAIN all = 1..L + 1
      BY <2>1, LenProperties
    <3> HIDE DEF all
    <3>2. QED BY <1>1, <1>2, <1>6, <2>1, <3>1 DEF Distinct
  <2>3. ASSUME NEW k \in 1..R PROVE short[k] # s
    <3>1. d + k \in 1..L
      BY <1>3
    <3>2. short[k] = log[d + k]
      BY <1>1
    <3>3. QED BY <1>6, <3>1, <3>2
  <2>4. /\ some \in Seq(Sessions) /\ Len(some) = R + 1
        /\ \A k \in 1..R + 1 : some[k] = IF k = R + 1 THEN s ELSE short[k]
    BY <1>1, <2>3, PutNew DEF R
  <2> HIDE DEF all, some
  <2> DEFINE N == IF R = MaxRoutes THEN R ELSE R + 1
  <2>5. /\ N \in 0..R + 1 /\ Len(Newest(some, MaxRoutes)) = N /\ Len(Newest(all, MaxRoutes)) = N
    <3>1. Len(Newest(some, MaxRoutes)) = IF R + 1 > MaxRoutes THEN MaxRoutes ELSE R + 1
      BY <2>4, NewestOf
    <3>2. Len(Newest(all, MaxRoutes)) = IF L + 1 > MaxRoutes THEN MaxRoutes ELSE L + 1
      BY <2>1, NewestOf
    <3>3. QED BY <1>1, <1>3, <3>1, <3>2
  <2> HIDE DEF N
  <2>6. ASSUME NEW k \in 1..N PROVE some[(R + 1) - N + k] = all[(L + 1) - N + k]
    <3> DEFINE j == (R + 1) - N + k
    <3>1. j \in 1..R + 1 /\ (L + 1) - N + k = d + j
      BY <1>3, <2>5
    <3> HIDE DEF j
    <3>2. CASE j = R + 1
      BY <1>3, <2>1, <2>4, <3>1, <3>2 DEF j
    <3>3. CASE j # R + 1
      <4>1. j \in 1..R /\ d + j \in 1..L + 1 /\ d + j # L + 1
        BY <1>3, <3>1, <3>3
      <4>2. some[j] = all[d + j]
        BY <1>1, <2>1, <2>4, <3>1, <3>3, <4>1
      <4>3. QED BY <3>1, <4>2 DEF j
    <3>4. QED BY <3>2, <3>3
  <2>7. Newest(some, MaxRoutes) = Newest(all, MaxRoutes)
    <3>1. \A k \in 1..N : some[Len(some) - N + k] = all[Len(all) - N + k]
      BY <2>1, <2>4, <2>6
    <3>2. N \in Nat
      BY <1>3, <2>5
    <3>3. QED BY <2>1, <2>4, <2>5, <3>1, <3>2, NewestEqual
  <2>8. QED BY <2>2, <2>7 DEF Moved, all, some, short
<1>7. QED BY <1>5, <1>6

LEMMA NothingNewest == Distinct(<< >>) /\ Newest(<< >>, MaxRoutes) = << >>
<1>1. << >> \in Seq(Sessions) /\ Len(<< >>) = 0 /\ MaxRoutes \in Nat
  BY EmptySeq, DeliveryAssumption
<1>2. ASSUME NEW log \in Seq(Sessions), Len(log) = 0 PROVE Newest(log, MaxRoutes) = << >>
  <2>1. Newest(log, MaxRoutes) \in Seq(Sessions) /\ Len(Newest(log, MaxRoutes)) = 0
    <3>1. /\ Newest(log, MaxRoutes) \in Seq(Sessions)
          /\ Len(Newest(log, MaxRoutes)) = IF Len(log) > MaxRoutes THEN MaxRoutes ELSE Len(log)
      BY NewestOf
    <3>2. ~(Len(log) > MaxRoutes)
      BY <1>1, <1>2
    <3>3. QED BY <1>2, <3>1, <3>2
  <2>2. QED BY <2>1, EmptySeq
<1>3. Newest(<< >>, MaxRoutes) = << >>
  BY <1>1, <1>2
<1>4. QED BY <1>3 DEF Distinct

LEMMA StepRoutes == TypeOK /\ RouteInv /\ [Next]_vars => RouteInv'
<1> SUFFICES ASSUME TypeOK, RouteInv, [Next]_vars PROVE RouteInv'
  OBVIOUS
<1>1. CASE UNCHANGED <<routes, seen>>
  BY <1>1 DEF RouteInv
<1>2. CASE PluginCrash
  <2>1. routes' = << >> /\ seen' = << >>
    BY <1>2 DEF PluginCrash
  <2>2. QED BY <2>1, NothingNewest DEF RouteInv
<1>3. ASSUME NEW s \in Sessions, NEW row \in BOOLEAN, Observe(s, row) PROVE RouteInv'
  <2>1. CASE row
    <3>1. /\ routes' = Newest(Moved(Newest(seen, MaxRoutes), s), MaxRoutes)
          /\ seen' = Append(Without(seen, s), s)
      BY <1>3, <2>1 DEF Observe, RouteInv
    <3>2. seen \in Seq(Sessions) /\ Distinct(seen)
      BY DEF TypeOK, RouteInv
    <3>3. QED BY <3>1, <3>2, NewestMoved DEF RouteInv
  <2>2. CASE ~row
    BY <1>1, <1>3, <2>2 DEF Observe
  <2>3. QED BY <2>1, <2>2
<1>4. CASE \/ \E s \in Sessions, kind \in {"inject", "send"} : Deliver(s, kind)
           \/ Connect \/ Tick \/ Abort \/ SidecarCrash
           \/ StartListener \/ StopListener \/ CloseListener
           \/ Accept \/ Refuse \/ Answer
           \/ \E answers, accepted \in BOOLEAN : Inject(answers, accepted)
           \/ \E sent \in BOOLEAN : Send(sent)
           \/ \E n \in Deliveries : SendLate(n)
           \/ UNCHANGED vars
  <2>1. UNCHANGED <<routes, seen>>
    BY <1>4 DEF Deliver, Connect, Tick, Abort, SidecarCrash, StartListener, StopListener, CloseListener,
                Accept, Refuse, Answer, Inject, Send, SendLate, Hand, plugin, vars
  <2>2. QED BY <1>1, <2>1
<1>5. QED BY <1>2, <1>3, <1>4 DEF Next

\* The MaxRoutes sessions that wrote last can be routed: a session that keeps
\* writing is never evicted by others, however many there are.
THEOREM LastSeenAlwaysRouted == Spec => []LastSeenAreRouted
<1>1. Init => RouteInv
  BY NothingNewest DEF Init, RouteInv
<1>2. RouteInv => LastSeenAreRouted
  BY DEF RouteInv, LastSeenAreRouted
<1>3. QED BY <1>1, <1>2, StepRoutes, OrderAlways, PTL DEF Spec
=============================================================================
