------------------------ MODULE ReportDelivery_proofs ------------------------
(***************************************************************************)
(* Proofs about ReportDelivery: its types, that a report is mailed at most *)
(* once per life of a worker, and that one given up stays so.              *)
(*                                                                         *)
(* The sending of a report is carried by one token: the delivery job that  *)
(* has stored it, a waiting send job of one attempt, or the send job that  *)
(* runs.  TokenInv says that there is never a second one, and that a       *)
(* report whose token can still lead to an email was mailed at most as     *)
(* often as workers were killed.                                           *)
(* OverInv says that a report given up has no token left.                  *)
(***************************************************************************)
EXTENDS ReportDelivery, TLAPS

Attempt == 1..MaxSends

\* The job carries the sending of the report wk[w].id.
Carries(w) == wk[w].pc \in {"stored", "send", "sent"}

\* Reports that a job or a waiting send refers to exist.
KnownInv ==
    /\ Len(reports) <= MaxReports
    /\ \A w \in Worker : Carries(w) => wk[w].id \in 1..Len(reports)
    /\ \A w \in Worker : wk[w].pc \in {"send", "sent"} => wk[w].attempt \in Attempt
    /\ \A id \in Id, k \in Attempt : sends[<<id, k>>] > 0 => id <= Len(reports)
    /\ \A id \in Id : mail[id] > 0 => id <= Len(reports)

TokenInv ==
    /\ \A v, w \in Worker : Carries(v) /\ Carries(w) /\ wk[v].id = wk[w].id => v = w
    /\ \A id \in Id, k \in Attempt : sends[<<id, k>>] <= 1
    /\ \A id \in Id, j, k \in Attempt : sends[<<id, j>>] > 0 /\ sends[<<id, k>>] > 0 => j = k
    /\ \A w \in Worker, k \in Attempt : Carries(w) => ~(sends[<<wk[w].id, k>>] > 0)

CountInv ==
    /\ \A id \in Id : mail[id] <= 1 + crashes
    /\ \A w \in Worker : wk[w].pc \in {"stored", "send"} => mail[wk[w].id] <= crashes
    /\ \A id \in Id, k \in Attempt : sends[<<id, k>>] > 0 => mail[id] <= crashes

IInv == TypeOK /\ KnownInv /\ TokenInv /\ CountInv

\* next_run_at is a time or NULL.
LEMMA NextRunType ==
  ASSUME NEW freq \in Frequency, NEW t \in Nat
  PROVE  NextRun(freq, t) \in Nat \cup {Never}
<1>1. Period \in Nat \ {0}
  BY DeliveryAssumption, Zenon
<1>2. t \div Period \in Nat
  BY <1>1
<1>3. \A q \in Nat : (q + 1) * Period \in Nat
  BY <1>1
<1> QED
  BY <1>2, <1>3, Zenon DEF NextRun

\* Counting one more or one less of something.
LEMMA Counted ==
  ASSUME NEW S, NEW f \in [S -> Nat], NEW i
  PROVE  /\ [f EXCEPT ![i] = @ + 1] \in [S -> Nat]
         /\ i \in S /\ f[i] > 0 => [f EXCEPT ![i] = @ - 1] \in [S -> Nat]
<1>1. i \in S => f[i] + 1 \in Nat /\ (f[i] > 0 => f[i] - 1 \in Nat)
  OBVIOUS
<1>2. ASSUME NEW n, i \in S => n \in Nat PROVE [f EXCEPT ![i] = n] \in [S -> Nat]
  BY <1>2, Zenon
<1> QED
  BY <1>1, <1>2, Zenon

\* A job that ends has its type.
LEMMA IdleType == IdleSlot \in Slot /\ IdleSlot.pc = "idle"
BY DeliveryAssumption DEF IdleSlot, Slot, Frequency

\* Steps of the clock, the API and the cron.
LEMMA OutsideTypes ==
  ASSUME TypeOK, Tick \/ Api \/ Cron
  PROVE  TypeOK'
<1>1. CASE Tick
  BY <1>1 DEF Tick, TypeOK
<1>2. ASSUME NEW enabled \in BOOLEAN, NEW recipients \in BOOLEAN, NEW freq \in Frequency,
             Upsert(enabled, freq, recipients)
      PROVE  TypeOK'
  <2>1. NextRun(freq, now) \in Nat \cup {Never}
    BY NextRunType, Zenon DEF TypeOK
  <2>2. (IF enabled THEN NextRun(freq, now) ELSE Never) \in Nat \cup {Never}
    BY <2>1, Zenon
  <2> QED
    BY <1>2, <2>2 DEF Upsert, TypeOK
<1>3. CASE Delete
  <2>1. sched' \in [exists : BOOLEAN, enabled : BOOLEAN, freq : Frequency, next : Nat \cup {Never},
                    recipients : BOOLEAN]
    BY <1>3, Zenon DEF Delete, TypeOK
  <2>2. edits' \in Nat
    BY <1>3 DEF Delete, TypeOK
  <2> QED
    BY <1>3, <2>1, <2>2, Zenon DEF Delete, TypeOK
<1>4. CASE SendNow
  <2>1. queue' \in [BOOLEAN -> Nat]
    BY <1>4, Counted, Zenon DEF SendNow, TypeOK
  <2>2. manuals' \in Nat
    BY <1>4 DEF SendNow, TypeOK
  <2> QED
    BY <1>4, <2>1, <2>2, Zenon DEF SendNow, TypeOK
<1>5. CASE Cron
  <2>1. queue' \in [BOOLEAN -> Nat]
    BY <1>5, Counted, Zenon DEF Cron, TypeOK
  <2> QED
    BY <1>5, <2>1, Zenon DEF Cron, TypeOK
<1> QED
  BY <1>1, <1>2, <1>3, <1>4, <1>5, Zenon DEF Api

\* The cadence a job writes.
LEMMA AdvanceType ==
  ASSUME TypeOK, NEW w \in Worker, NEW freq \in Frequency, Advance(w, freq)
  PROVE  sched' \in [exists : BOOLEAN, enabled : BOOLEAN, freq : Frequency, next : Nat \cup {Never},
                     recipients : BOOLEAN]
<1>1. wk[w].at \in Nat
  BY Zenon DEF TypeOK, Slot
<1>2. NextRun(freq, wk[w].at) \in Nat \cup {Never}
  BY <1>1, NextRunType, Zenon
<1> QED
  BY <1>2, Zenon DEF Advance, TypeOK

\* Steps of the jobs.
LEMMA JobTypes ==
  ASSUME IInv, NEW w \in Worker, Start(w) \/ Continue(w) \/ Crash(w)
  PROVE  TypeOK'
<1>1. TypeOK /\ wk[w] \in Slot
  BY Zenon DEF IInv, TypeOK
<1>2. ASSUME End(w) PROVE wk' \in [Worker -> Slot]
  BY <1>1, <1>2, IdleType, Zenon DEF End, TypeOK
<1>3. ASSUME NEW manual \in BOOLEAN, Load(w, manual) PROVE TypeOK'
  <2> DEFINE k == [IdleSlot EXCEPT !.pc = "build", !.manual = manual, !.at = now,
                                   !.run = sched.next, !.freq = sched.freq]
  <2>1. k \in Slot
    BY <1>1, IdleType, Zenon DEF TypeOK, Slot
  <2>2. wk' = [wk EXCEPT ![w] = k] \/ wk' = wk
    BY <1>3, Zenon DEF Load
  <2> HIDE DEF k
  <2>3. wk' \in [Worker -> Slot]
    BY <1>1, <2>1, <2>2, Zenon DEF TypeOK
  <2>4. queue' \in [BOOLEAN -> Nat]
    BY <1>1, <1>3 DEF Load, TypeOK
  <2> QED
    BY <1>1, <1>3, <2>3, <2>4, Zenon DEF Load, TypeOK
<1>4. ASSUME NEW id \in Id, NEW attempt \in Attempt, LoadSend(w, id, attempt) PROVE TypeOK'
  <2> DEFINE k == [IdleSlot EXCEPT !.pc = "send", !.id = id, !.attempt = attempt]
  <2>1. k \in Slot
    <3>1. id \in Id \cup {0} /\ attempt \in 0..MaxSends
      BY DeliveryAssumption DEF Attempt
    <3> QED
      BY <3>1, IdleType, Zenon DEF Slot
  <2>2. wk' = [wk EXCEPT ![w] = k] \/ wk' = wk
    BY <1>4, Zenon DEF LoadSend
  <2> HIDE DEF k
  <2>3. wk' \in [Worker -> Slot]
    BY <1>1, <2>1, <2>2, Zenon DEF TypeOK
  <2>4. <<id, attempt>> \in Id \X (1..MaxSends)
    BY Zenon DEF Attempt
  <2>5. sends' \in [Id \X (1..MaxSends) -> Nat]
    BY <1>1, <1>4, <2>4 DEF LoadSend, TypeOK
  <2>6. over' \subseteq Id
    BY <1>1, <1>4, Zenon DEF LoadSend, TypeOK
  <2> QED
    BY <1>1, <1>4, <2>3, <2>5, <2>6, Zenon DEF LoadSend, TypeOK
<1>5. CASE Generated(w)
  <2>1. CASE sched.exists
    <3>1. /\ reports' = Append(reports, [run |-> wk[w].run, manual |-> wk[w].manual])
          /\ Advance(w, wk[w].freq) /\ Len(reports) < MaxReports
          /\ wk' = [wk EXCEPT ![w].pc = "stored", ![w].id = Len(reports) + 1]
      BY <1>5, <2>1, Zenon DEF Generated
    <3>2. wk[w].freq \in Frequency /\ [run |-> wk[w].run, manual |-> wk[w].manual] \in Stored
      BY <1>1, Zenon DEF Slot, Stored
    <3>3. reports' \in Seq(Stored)
      BY <1>1, <3>1, <3>2 DEF TypeOK
    <3>4. Len(reports) + 1 \in Id
      BY <1>1, <3>1, DeliveryAssumption DEF TypeOK, Id
    <3>5. wk' \in [Worker -> Slot]
      BY <1>1, <3>1, <3>4, Zenon DEF TypeOK, Slot
    <3>6. sched' \in [exists : BOOLEAN, enabled : BOOLEAN, freq : Frequency, next : Nat \cup {Never},
                      recipients : BOOLEAN]
      BY <1>1, <3>1, <3>2, AdvanceType, Zenon
    <3> QED
      BY <1>1, <1>5, <3>3, <3>5, <3>6, Zenon DEF Generated, TypeOK
  <2>2. CASE ~sched.exists
    BY <1>1, <1>2, <1>5, <2>2, Zenon DEF Generated, TypeOK
  <2> QED
    BY <2>1, <2>2, Zenon
<1>6. CASE GenerateFailed(w)
  <2>1. sched.freq \in Frequency
    BY <1>1, Zenon DEF TypeOK
  <2>2. sched' \in [exists : BOOLEAN, enabled : BOOLEAN, freq : Frequency, next : Nat \cup {Never},
                    recipients : BOOLEAN]
    BY <1>1, <1>6, <2>1, AdvanceType, Zenon DEF GenerateFailed, TypeOK
  <2> QED
    BY <1>1, <1>2, <1>6, <2>2, Zenon DEF GenerateFailed, TypeOK
<1>7. ASSUME NEW j, sends' = [sends EXCEPT ![j] = @ + 1] PROVE sends' \in [Id \X (1..MaxSends) -> Nat]
  BY <1>1, <1>7, Counted, Zenon DEF TypeOK
<1>8. CASE EnqueueSend(w)
  BY <1>1, <1>2, <1>7, <1>8, Zenon DEF EnqueueSend, TypeOK
<1>9. CASE Sent(w)
  <2>1. wk' \in [Worker -> Slot]
    BY <1>1, <1>9, Zenon DEF Sent, TypeOK, Slot
  <2>2. mail' \in [Id -> Nat]
    BY <1>1, <1>9, Counted, Zenon DEF Sent, TypeOK
  <2> QED
    BY <1>1, <1>9, <2>1, <2>2, Zenon DEF Sent, TypeOK
<1>10. CASE Delivered(w)
  BY <1>1, <1>2, <1>10, Zenon DEF Delivered, TypeOK
<1>11. CASE SendFailed(w)
  <2>1. wk[w].id \in Id
    <3>1. wk[w].id \in 1..Len(reports) /\ Len(reports) <= MaxReports
      BY <1>11, Zenon DEF SendFailed, IInv, KnownInv, Carries
    <3>2. Len(reports) \in Nat
      BY <1>1 DEF TypeOK
    <3> QED
      BY <3>1, <3>2, DeliveryAssumption DEF Id
  <2>2. over' \subseteq Id
    BY <1>1, <1>11, <2>1, Zenon DEF SendFailed, TypeOK
  <2>3. sends' \in [Id \X (1..MaxSends) -> Nat]
    BY <1>1, <1>7, <1>11, Zenon DEF SendFailed, TypeOK
  <2> QED
    BY <1>1, <1>2, <1>11, <2>2, <2>3, Zenon DEF SendFailed, TypeOK
<1>12. CASE Crash(w)
  <2>1. sends' \in [Id \X (1..MaxSends) -> Nat]
    BY <1>1, <1>7, <1>12, Zenon DEF Crash, TypeOK
  <2>2. queue' \in [BOOLEAN -> Nat]
    <3>1. queue' = queue \/ queue' = [queue EXCEPT ![wk[w].manual] = @ + 1]
      BY <1>12, Zenon DEF Crash
    <3>2. queue \in [BOOLEAN -> Nat]
      BY <1>1, Zenon DEF TypeOK
    <3>3. [queue EXCEPT ![wk[w].manual] = @ + 1] \in [BOOLEAN -> Nat]
      BY <3>2, Counted, Zenon
    <3> QED
      BY <3>1, <3>2, <3>3, Zenon
  <2>3. crashes' \in Nat
    BY <1>1, <1>12 DEF Crash, TypeOK
  <2> QED
    BY <1>1, <1>2, <1>12, <2>1, <2>2, <2>3, Zenon DEF Crash, TypeOK
<1> QED
  BY <1>3, <1>4, <1>5, <1>6, <1>8, <1>9, <1>10, <1>11, <1>12, Zenon DEF Start, Continue, Attempt

\* A report is mailed, or a send of it waits or runs, only under a number below Len(reports) + 1.
LEMMA Numbers ==
  ASSUME IInv
  PROVE  /\ Len(reports) \in Nat /\ Len(reports) <= MaxReports /\ MaxReports \in Nat /\ MaxSends \in Nat \ {0}
         /\ wk \in [Worker -> Slot] /\ mail \in [Id -> Nat] /\ sends \in [Id \X Attempt -> Nat]
         /\ crashes \in Nat
         /\ \A w \in Worker : Carries(w) => wk[w].id \in Id
BY DeliveryAssumption DEF IInv, TypeOK, KnownInv, Id, Attempt

\* Jobs that end, or that build a report, carry nothing: a step that only ends or begins such jobs
\* leaves every token as it is.
LEMMA TokenFrame ==
  ASSUME IInv, UNCHANGED <<reports, sends, mail, crashes>>,
         \A u \in Worker : wk'[u] = wk[u] \/ wk'[u].pc \in {"idle", "build"}
  PROVE  KnownInv' /\ TokenInv' /\ CountInv'
<1>1. \A u \in Worker : wk'[u].pc \in {"stored", "send", "sent"} => wk'[u] = wk[u]
  BY Zenon
<1>2. \A u \in Worker : Carries(u)' => Carries(u) /\ wk'[u] = wk[u]
  BY <1>1, Zenon DEF Carries
<1>3. KnownInv'
  BY <1>1, <1>2, Zenon DEF IInv, KnownInv
<1>4. TokenInv'
  BY <1>2, Zenon DEF IInv, TokenInv
<1>5. CountInv'
  BY <1>1, Zenon DEF IInv, CountInv
<1> QED
  BY <1>3, <1>4, <1>5, Zenon

\* A stored report gets a number that no job, send or mail has yet.
LEMMA GeneratedTokens ==
  ASSUME IInv, NEW w \in Worker, Generated(w), sched.exists
  PROVE  KnownInv' /\ TokenInv' /\ CountInv'
<1> DEFINE n == Len(reports) + 1
           k == [wk[w] EXCEPT !.pc = "stored", !.id = n]
<1>1. /\ reports' = Append(reports, [run |-> wk[w].run, manual |-> wk[w].manual])
      /\ Len(reports) < MaxReports /\ UNCHANGED <<sends, mail, crashes>>
      /\ wk' = [wk EXCEPT ![w] = k]
  BY Zenon DEF Generated
<1>2. /\ Len(reports) \in Nat /\ MaxReports \in Nat /\ wk \in [Worker -> Slot] /\ wk[w] \in Slot
      /\ mail \in [Id -> Nat] /\ sends \in [Id \X Attempt -> Nat] /\ crashes \in Nat
      /\ reports \in Seq(Stored) /\ KnownInv /\ TokenInv /\ CountInv
  BY Numbers, Zenon DEF IInv, TypeOK
<1>3. k.pc = "stored" /\ k.id = n
  BY <1>2, Zenon DEF Slot
<1> HIDE DEF k
<1>4. wk'[w] = k /\ \A u \in Worker \ {w} : wk'[u] = wk[u]
  BY <1>1, <1>2, Zenon
<1>5. Len(reports') = n /\ n \in Id
  <2>1. [run |-> wk[w].run, manual |-> wk[w].manual] \in Stored
    BY <1>2, Zenon DEF Slot, Stored
  <2>2. Len(reports') = n
    BY <1>1, <1>2, <2>1
  <2>3. n \in Id
    BY <1>1, <1>2 DEF Id
  <2> QED
    BY <2>2, <2>3, Zenon
<1>6. \A u \in Worker : Carries(u) => wk[u].id \in 1..Len(reports) /\ wk[u].id # n
  BY <1>2 DEF KnownInv
<1>7. /\ ~(mail[n] > 0) /\ \A j \in Attempt : ~(sends[<<n, j>>] > 0)
      /\ mail[n] = 0
  BY <1>2, <1>5 DEF KnownInv
<1>8. \A u \in Worker \ {w} : Carries(u)' <=> Carries(u)
  BY <1>4, Zenon DEF Carries
<1>9. KnownInv'
  <2>1. n <= MaxReports
    BY <1>5, <1>2 DEF Id
  <2>2. \A u \in Worker : Carries(u)' => wk'[u].id \in 1..n
    BY <1>2, <1>3, <1>4, <1>6, <1>8
  <2>3. \A u \in Worker : wk'[u].pc \in {"send", "sent"} => wk'[u].attempt \in Attempt
    BY <1>2, <1>3, <1>4, Zenon DEF KnownInv
  <2>4. /\ \A id \in Id, j \in Attempt : sends[<<id, j>>] > 0 => id <= n
        /\ \A id \in Id : mail[id] > 0 => id <= n
    BY <1>2 DEF KnownInv, Id
  <2> QED
    BY <1>1, <1>5, <2>1, <2>2, <2>3, <2>4, Zenon DEF KnownInv
<1>10. TokenInv'
  <2>1. ASSUME NEW u \in Worker, NEW v \in Worker, Carries(u)', Carries(v)', wk'[u].id = wk'[v].id
        PROVE  u = v
    BY <1>2, <1>3, <1>4, <1>6, <1>8, <2>1, Zenon DEF TokenInv
  <2>2. ASSUME NEW u \in Worker, NEW j \in Attempt, Carries(u)'
        PROVE  ~(sends'[<<wk'[u].id, j>>] > 0)
    BY <1>1, <1>2, <1>3, <1>4, <1>7, <1>8, <2>2, Zenon DEF TokenInv
  <2> QED
    BY <1>1, <1>2, <2>1, <2>2, Zenon DEF TokenInv
<1>11. CountInv'
  BY <1>1, <1>2, <1>3, <1>4, <1>7 DEF CountInv
<1> QED
  BY <1>9, <1>10, <1>11, Zenon

\* A job that carries a report ends, and the send of some attempt waits instead.
LEMMA PassedOn ==
  ASSUME IInv, NEW w \in Worker, Carries(w), NEW k \in Attempt, End(w),
         sends' = [sends EXCEPT ![<<wk[w].id, k>>] = @ + 1],
         UNCHANGED <<reports, mail>>, crashes' \in Nat,
         crashes' = crashes + 1 \/ (crashes' = crashes /\ wk[w].pc # "sent")
  PROVE  KnownInv' /\ TokenInv' /\ CountInv'
<1> DEFINE id == wk[w].id
<1>1. /\ wk \in [Worker -> Slot] /\ mail \in [Id -> Nat] /\ sends \in [Id \X Attempt -> Nat]
      /\ crashes \in Nat /\ id \in Id /\ KnownInv /\ TokenInv /\ CountInv
  BY Numbers, Zenon DEF IInv
<1>2. wk'[w].pc = "idle" /\ \A u \in Worker \ {w} : wk'[u] = wk[u]
  BY <1>1, IdleType, Zenon DEF End
<1>3. \A u \in Worker : Carries(u)' => Carries(u) /\ u # w /\ wk'[u] = wk[u] /\ wk'[u].id # id
  BY <1>1, <1>2, Zenon DEF Carries, TokenInv
<1>4. \A j \in Attempt : ~(sends[<<id, j>>] > 0)
  BY <1>1, Zenon DEF TokenInv
<1>5. /\ sends'[<<id, k>>] = 1
      /\ \A i \in Id, j \in Attempt : <<i, j>> # <<id, k>> => sends'[<<i, j>>] = sends[<<i, j>>]
  <2>1. <<id, k>> \in Id \X Attempt
    BY <1>1, Zenon
  <2>2. sends[<<id, k>>] = 0
    BY <1>1, <1>4, <2>1
  <2> QED
    BY <1>1, <2>1, <2>2
<1>6. \A j \in Attempt : sends'[<<id, j>>] > 0 => j = k
  BY <1>1, <1>4, <1>5, Zenon
<1>7. \A i \in Id \ {id}, j \in Attempt : sends'[<<i, j>>] = sends[<<i, j>>]
  BY <1>5, Zenon
<1>8. KnownInv'
  <2>1. id <= Len(reports)
    BY <1>1 DEF KnownInv
  <2>2. ASSUME NEW i \in Id, NEW j \in Attempt, sends'[<<i, j>>] > 0
        PROVE  i <= Len(reports)
    BY <1>1, <1>7, <2>1, <2>2, Zenon DEF KnownInv
  <2>3. \A u \in Worker : wk'[u].pc \in {"send", "sent"} => wk'[u] = wk[u]
    BY <1>2, Zenon
  <2> QED
    BY <1>1, <1>3, <2>2, <2>3, Zenon DEF KnownInv
<1>9. TokenInv'
  <2>1. ASSUME NEW u \in Worker, NEW v \in Worker, Carries(u)', Carries(v)', wk'[u].id = wk'[v].id
        PROVE  u = v
    BY <1>1, <1>3, <2>1, Zenon DEF TokenInv
  <2>2. ASSUME NEW i \in Id, NEW j \in Attempt PROVE sends'[<<i, j>>] <= 1
    <3>1. sends[<<i, j>>] <= 1
      BY <1>1, Zenon DEF TokenInv
    <3> QED
      BY <1>5, <3>1
  <2>3. ASSUME NEW i \in Id, NEW j \in Attempt, NEW l \in Attempt, sends'[<<i, j>>] > 0, sends'[<<i, l>>] > 0
        PROVE  j = l
    BY <1>1, <1>6, <1>7, <2>3 DEF TokenInv
  <2>4. ASSUME NEW u \in Worker, NEW j \in Attempt, Carries(u)' PROVE ~(sends'[<<wk'[u].id, j>>] > 0)
    <3>1. wk[u].id \in Id \ {id} /\ wk'[u] = wk[u] /\ Carries(u)
      BY <1>3, <2>4, Numbers, Zenon
    <3> QED
      BY <1>1, <1>7, <3>1, Zenon DEF TokenInv
  <2> QED
    BY <2>1, <2>2, <2>3, <2>4, Zenon DEF TokenInv
<1>10. CountInv'
  <2>1. mail[id] <= crashes'
    BY <1>1 DEF CountInv, Carries
  <2>2. ASSUME NEW i \in Id, NEW j \in Attempt, sends'[<<i, j>>] > 0 PROVE mail[i] <= crashes'
    BY <1>1, <1>7, <2>1, <2>2 DEF CountInv
  <2>3. ASSUME NEW u \in Worker, wk'[u].pc \in {"stored", "send"} PROVE mail[wk'[u].id] <= crashes'
    <3>1. wk'[u] = wk[u] /\ mail[wk[u].id] <= crashes /\ wk[u].id \in Id
      BY <1>1, <1>2, <2>3, Numbers, Zenon DEF CountInv, Carries
    <3>2. mail[wk[u].id] \in Nat
      BY <1>1, <3>1, Zenon
    <3> QED
      BY <1>1, <3>1, <3>2
  <2>4. ASSUME NEW i \in Id PROVE mail[i] <= 1 + crashes'
    <3>1. mail[i] <= 1 + crashes /\ mail[i] \in Nat
      BY <1>1, Zenon DEF CountInv
    <3> QED
      BY <1>1, <3>1
  <2> QED
    BY <2>2, <2>3, <2>4, Zenon DEF CountInv
<1> QED
  BY <1>8, <1>9, <1>10, Zenon

\* A send is started, or found to have nobody to go to: its token moves to the job, or is gone.
LEMMA LoadSendTokens ==
  ASSUME IInv, NEW w \in Worker, NEW id \in Id, NEW k \in Attempt, LoadSend(w, id, k)
  PROVE  KnownInv' /\ TokenInv' /\ CountInv'
<1> DEFINE s == [IdleSlot EXCEPT !.pc = "send", !.id = id, !.attempt = k]
<1>1. /\ wk[w].pc = "idle" /\ sends[<<id, k>>] > 0 /\ sends' = [sends EXCEPT ![<<id, k>>] = @ - 1]
      /\ wk' = [wk EXCEPT ![w] = s] \/ wk' = wk
      /\ UNCHANGED <<reports, mail, crashes>>
  BY Zenon DEF LoadSend
<1>2. /\ wk \in [Worker -> Slot] /\ mail \in [Id -> Nat] /\ sends \in [Id \X Attempt -> Nat]
      /\ crashes \in Nat /\ KnownInv /\ TokenInv /\ CountInv
  BY Numbers, Zenon DEF IInv
<1>3. s.pc = "send" /\ s.id = id /\ s.attempt = k
  BY Zenon DEF IdleSlot
<1> HIDE DEF s
<1>4. wk'[w] \in {s, wk[w]} /\ \A u \in Worker \ {w} : wk'[u] = wk[u]
  BY <1>1, <1>2, Zenon
<1>5. id <= Len(reports) /\ mail[id] <= crashes
  BY <1>1, <1>2, Zenon DEF KnownInv, CountInv
<1>6. \A j \in Attempt : sends[<<id, j>>] > 0 => j = k
  BY <1>1, <1>2, Zenon DEF TokenInv
<1>7. /\ \A j \in Attempt : ~(sends'[<<id, j>>] > 0)
      /\ \A i \in Id \ {id}, j \in Attempt : sends'[<<i, j>>] = sends[<<i, j>>]
  <2>1. <<id, k>> \in Id \X Attempt
    BY Zenon
  <2>2. sends[<<id, k>>] = 1
    BY <1>1, <1>2, <2>1 DEF TokenInv
  <2>3. sends'[<<id, k>>] = 0
    BY <1>1, <1>2, <2>1, <2>2
  <2>4. \A i \in Id, j \in Attempt : <<i, j>> # <<id, k>> => sends'[<<i, j>>] = sends[<<i, j>>]
    BY <1>1, <1>2, <2>1, Zenon
  <2>5. ASSUME NEW j \in Attempt PROVE ~(sends'[<<id, j>>] > 0)
    BY <1>6, <2>3, <2>4
  <2>6. ASSUME NEW i \in Id \ {id}, NEW j \in Attempt PROVE sends'[<<i, j>>] = sends[<<i, j>>]
    BY <2>4, Zenon
  <2> QED
    BY <2>5, <2>6, Zenon
<1>8. \A u \in Worker : Carries(u) => wk[u].id # id
  BY <1>1, <1>2, Zenon DEF TokenInv
<1>9. \A u \in Worker : Carries(u)' => \/ u = w /\ wk'[u] = s
                                       \/ wk'[u] = wk[u] /\ Carries(u) /\ wk[u].id \in Id \ {id}
  BY <1>1, <1>4, <1>8, Numbers, Zenon DEF Carries
<1>10. KnownInv'
  <2>1. ASSUME NEW u \in Worker, Carries(u)' PROVE wk'[u].id \in 1..Len(reports)
    <3>1. id \in 1..Len(reports)
      BY <1>5, Numbers DEF Id
    <3> QED
      BY <1>2, <1>3, <1>9, <2>1, <3>1, Zenon DEF KnownInv
  <2>2. ASSUME NEW u \in Worker, wk'[u].pc \in {"send", "sent"} PROVE wk'[u].attempt \in Attempt
    BY <1>2, <1>3, <1>9, <2>2, Zenon DEF KnownInv, Carries
  <2>3. ASSUME NEW i \in Id, NEW j \in Attempt, sends'[<<i, j>>] > 0 PROVE i <= Len(reports)
    BY <1>2, <1>7, <2>3, Zenon DEF KnownInv
  <2> QED
    BY <1>1, <1>2, <2>1, <2>2, <2>3, Zenon DEF KnownInv
<1>11. TokenInv'
  <2>1. ASSUME NEW u \in Worker, NEW v \in Worker, Carries(u)', Carries(v)', wk'[u].id = wk'[v].id
        PROVE  u = v
    BY <1>2, <1>3, <1>9, <2>1, Zenon DEF TokenInv
  <2>2. ASSUME NEW i \in Id, NEW j \in Attempt PROVE sends'[<<i, j>>] <= 1
    <3>1. <<i, j>> \in Id \X Attempt /\ sends[<<i, j>>] <= 1
      BY <1>2, Zenon DEF TokenInv
    <3>2. <<id, k>> \in Id \X Attempt
      BY Zenon
    <3>3. sends'[<<i, j>>] \in {sends[<<i, j>>], sends[<<i, j>>] - 1} /\ sends[<<i, j>>] \in Nat
      BY <1>1, <1>2, <3>1, <3>2, Zenon
    <3> QED
      BY <3>1, <3>3
  <2>3. ASSUME NEW i \in Id, NEW j \in Attempt, NEW l \in Attempt, sends'[<<i, j>>] > 0, sends'[<<i, l>>] > 0
        PROVE  j = l
    BY <1>2, <1>7, <2>3, Zenon DEF TokenInv
  <2>4. ASSUME NEW u \in Worker, NEW j \in Attempt, Carries(u)' PROVE ~(sends'[<<wk'[u].id, j>>] > 0)
    BY <1>2, <1>3, <1>7, <1>9, <2>4 DEF TokenInv
  <2> QED
    BY <2>1, <2>2, <2>3, <2>4, Zenon DEF TokenInv
<1>12. CountInv'
  <2>1. ASSUME NEW i \in Id, NEW j \in Attempt, sends'[<<i, j>>] > 0 PROVE mail[i] <= crashes
    BY <1>2, <1>7, <2>1, Zenon DEF CountInv
  <2>2. ASSUME NEW u \in Worker, wk'[u].pc \in {"stored", "send"} PROVE mail[wk'[u].id] <= crashes
    BY <1>2, <1>3, <1>5, <1>9, <2>2, Zenon DEF CountInv, Carries
  <2> QED
    BY <1>1, <1>2, <2>1, <2>2, Zenon DEF CountInv
<1> QED
  BY <1>10, <1>11, <1>12, Zenon

\* The email goes out: the job keeps its token, which leads to no second one unless the worker is killed.
LEMMA SentTokens ==
  ASSUME IInv, NEW w \in Worker, Sent(w)
  PROVE  KnownInv' /\ TokenInv' /\ CountInv'
<1> DEFINE s == [wk[w] EXCEPT !.pc = "sent"]
           id == wk[w].id
<1>1. /\ wk[w].pc = "send" /\ mail' = [mail EXCEPT ![id] = @ + 1] /\ wk' = [wk EXCEPT ![w] = s]
      /\ UNCHANGED <<reports, sends, crashes>>
  BY Zenon DEF Sent
<1>2. /\ wk \in [Worker -> Slot] /\ wk[w] \in Slot /\ mail \in [Id -> Nat] /\ sends \in [Id \X Attempt -> Nat]
      /\ crashes \in Nat /\ id \in Id /\ KnownInv /\ TokenInv /\ CountInv /\ Carries(w)
  BY <1>1, Numbers, Zenon DEF IInv, Carries
<1>3. s.pc = "sent" /\ s.id = id /\ s.attempt = wk[w].attempt
  BY <1>2, Zenon DEF Slot
<1> HIDE DEF s
<1>4. wk'[w] = s /\ \A u \in Worker \ {w} : wk'[u] = wk[u]
  BY <1>1, <1>2, Zenon
<1>5. \A u \in Worker : (Carries(u)' <=> Carries(u)) /\ wk'[u].id = wk[u].id /\ wk'[u].attempt = wk[u].attempt
  BY <1>2, <1>3, <1>4, Zenon DEF Carries
<1>6. mail'[id] = mail[id] + 1 /\ \A i \in Id \ {id} : mail'[i] = mail[i]
  BY <1>1, <1>2, Zenon
<1>7. KnownInv'
  <2>1. \A u \in Worker : wk'[u].pc \in {"send", "sent"} => wk[u].pc \in {"send", "sent"}
    BY <1>1, <1>4, Zenon
  <2>2. id <= Len(reports)
    BY <1>2 DEF KnownInv
  <2>3. ASSUME NEW i \in Id, mail'[i] > 0 PROVE i <= Len(reports)
    BY <1>2, <1>6, <2>2, <2>3, Zenon DEF KnownInv
  <2> QED
    BY <1>1, <1>2, <1>5, <2>1, <2>3, Zenon DEF KnownInv
<1>8. TokenInv'
  BY <1>1, <1>2, <1>5, Zenon DEF TokenInv
<1>9. CountInv'
  <2>1. ASSUME NEW i \in Id PROVE mail'[i] <= 1 + crashes
    <3>1. mail[i] \in Nat /\ mail[i] <= 1 + crashes /\ mail[id] \in Nat /\ mail[id] <= crashes
      BY <1>1, <1>2, Zenon DEF CountInv
    <3> QED
      BY <1>2, <1>6, <3>1
  <2>2. ASSUME NEW u \in Worker, wk'[u].pc \in {"stored", "send"} PROVE mail'[wk'[u].id] <= crashes
    <3>1. u # w /\ wk'[u] = wk[u] /\ Carries(u)
      BY <1>3, <1>4, <2>2, Zenon DEF Carries
    <3>2. wk[u].id \in Id \ {id}
      BY <1>2, <3>1, Numbers, Zenon DEF TokenInv
    <3> QED
      BY <1>2, <1>6, <2>2, <3>1, <3>2, Zenon DEF CountInv
  <2>3. ASSUME NEW i \in Id, NEW j \in Attempt, sends[<<i, j>>] > 0 PROVE mail'[i] <= crashes
    <3>1. i # id
      BY <1>2, <2>3, Zenon DEF TokenInv
    <3> QED
      BY <1>2, <1>6, <2>3, <3>1, Zenon DEF CountInv
  <2> QED
    BY <1>1, <2>1, <2>2, <2>3, Zenon DEF CountInv
<1> QED
  BY <1>7, <1>8, <1>9, Zenon

\* The worker is killed before it has enqueued the first send: the report is never sent.
LEMMA Dropped ==
  ASSUME IInv, NEW w \in Worker, End(w), UNCHANGED <<reports, sends, mail>>, crashes' = crashes + 1
  PROVE  KnownInv' /\ TokenInv' /\ CountInv'
<1>1. /\ wk \in [Worker -> Slot] /\ mail \in [Id -> Nat] /\ crashes \in Nat
      /\ KnownInv /\ TokenInv /\ CountInv
  BY Numbers, Zenon DEF IInv
<1>2. \A u \in Worker : wk'[u].pc # "idle" => wk'[u] = wk[u]
  BY <1>1, IdleType, Zenon DEF End
<1>3. \A u \in Worker : Carries(u)' => Carries(u) /\ wk'[u] = wk[u]
  BY <1>2, Zenon DEF Carries
<1>4. KnownInv' /\ TokenInv'
  BY <1>1, <1>2, <1>3, Zenon DEF KnownInv, TokenInv
<1>5. CountInv'
  <2>1. \A i \in Id, n \in {crashes, 1 + crashes} : mail[i] <= n => mail[i] <= n + 1
    BY <1>1
  <2>2. \A u \in Worker : wk'[u].pc \in {"stored", "send"} => wk'[u] = wk[u] /\ wk[u].id \in Id
    BY <1>2, Numbers, Zenon DEF Carries
  <2> QED
    BY <1>1, <2>1, <2>2 DEF CountInv
<1> QED
  BY <1>4, <1>5, Zenon

\* The initial state.
LEMMA InitInv == Init => IInv
<1> SUFFICES ASSUME Init PROVE IInv
  BY Zenon
<1>1. /\ MaxReports \in Nat /\ MaxSends \in Nat \ {0} /\ Period \in Nat
  BY DeliveryAssumption, Zenon
<1>2. TypeOK
  <2>1. wk \in [Worker -> Slot] /\ Period \in Nat \cup {Never}
    BY <1>1, IdleType, Zenon DEF Init
  <2>2. reports \in Seq(Stored)
    BY DEF Init
  <2>3. sched \in [exists : BOOLEAN, enabled : BOOLEAN, freq : Frequency, next : Nat \cup {Never},
                   recipients : BOOLEAN]
    BY <2>1, Zenon DEF Init, Frequency
  <2>4. queue \in [BOOLEAN -> Nat]
    BY Zenon DEF Init
  <2> QED
    BY <2>1, <2>2, <2>3, <2>4, Zenon DEF Init, TypeOK
<1>3. \A w \in Worker : wk[w].pc = "idle"
  BY IdleType, Zenon DEF Init
<1>4. \A id \in Id, k \in Attempt : sends[<<id, k>>] = 0
  BY Zenon DEF Init, Attempt
<1>5. \A id \in Id : mail[id] = 0
  BY Zenon DEF Init
<1>6. Len(reports) = 0 /\ crashes = 0
  BY Zenon DEF Init
<1> QED
  BY <1>1, <1>2, <1>3, <1>4, <1>5, <1>6 DEF IInv, KnownInv, TokenInv, CountInv, Carries

\* Every step preserves the invariant.
LEMMA NextInv ==
  ASSUME IInv, [Next]_vars
  PROVE  IInv'
<1>1. TypeOK /\ wk \in [Worker -> Slot]
  BY Zenon DEF IInv, TypeOK
<1>2. CASE UNCHANGED vars
  <2>1. TypeOK'
    BY <1>1, <1>2, Zenon DEF vars, TypeOK
  <2>2. KnownInv' /\ TokenInv' /\ CountInv'
    BY <1>2, TokenFrame, Zenon DEF vars
  <2> QED
    BY <2>1, <2>2, Zenon DEF IInv
<1>3. CASE Tick \/ Api \/ Cron
  <2>1. UNCHANGED <<reports, sends, mail, crashes, wk>>
    BY <1>3, Zenon DEF Tick, Api, Upsert, Delete, SendNow, Cron
  <2>2. KnownInv' /\ TokenInv' /\ CountInv'
    BY <2>1, TokenFrame, Zenon
  <2> QED
    BY <1>1, <1>3, <2>2, OutsideTypes, Zenon DEF IInv
<1>4. ASSUME NEW w \in Worker, Start(w) \/ Continue(w) \/ Crash(w)
      PROVE  IInv'
  <2>1. ASSUME NEW s, wk' = [wk EXCEPT ![w] = s], s.pc \in {"idle", "build"},
               UNCHANGED <<reports, sends, mail, crashes>>
        PROVE  KnownInv' /\ TokenInv' /\ CountInv'
    <3>1. \A u \in Worker : wk'[u] = wk[u] \/ wk'[u].pc \in {"idle", "build"}
      BY <1>1, <2>1, Zenon
    <3> QED
      BY <2>1, <3>1, TokenFrame, Zenon
  <2>2. ASSUME End(w), UNCHANGED <<reports, sends, mail, crashes>>
        PROVE  KnownInv' /\ TokenInv' /\ CountInv'
    BY <2>1, <2>2, IdleType, Zenon DEF End
  <2>3. ASSUME NEW manual \in BOOLEAN, Load(w, manual)
        PROVE  KnownInv' /\ TokenInv' /\ CountInv'
    <3> DEFINE k == [IdleSlot EXCEPT !.pc = "build", !.manual = manual, !.at = now,
                                     !.run = sched.next, !.freq = sched.freq]
    <3>1. k.pc = "build"
      BY Zenon DEF IdleSlot
    <3>2. (wk' = [wk EXCEPT ![w] = k] \/ wk' = wk) /\ UNCHANGED <<reports, sends, mail, crashes>>
      BY <2>3, Zenon DEF Load
    <3> HIDE DEF k
    <3>3. CASE wk' = wk
      BY <3>2, <3>3, TokenFrame, Zenon
    <3> QED
      BY <2>1, <3>1, <3>2, <3>3, Zenon
  <2>4. CASE GenerateFailed(w) \/ Delivered(w) \/ (Generated(w) /\ ~sched.exists)
    <3>1. KnownInv' /\ TokenInv' /\ CountInv'
      BY <2>2, <2>4, Zenon DEF GenerateFailed, Delivered, Generated
    <3> QED
      BY <1>4, <3>1, JobTypes, Zenon DEF IInv
  <2>5. CASE EnqueueSend(w)
    <3>1. Carries(w) /\ 1 \in Attempt /\ crashes \in Nat
      BY <2>5, Numbers DEF EnqueueSend, Carries, Attempt
    <3>2. KnownInv' /\ TokenInv' /\ CountInv'
      BY <2>5, <3>1, PassedOn, Zenon DEF EnqueueSend
    <3> QED
      BY <1>4, <3>2, JobTypes, Zenon DEF IInv
  <2>6. CASE SendFailed(w)
    <3>1. Carries(w) /\ wk[w].attempt \in Attempt /\ crashes \in Nat /\ wk[w].pc = "send"
      BY <2>6, Numbers, Zenon DEF SendFailed, Carries, IInv, KnownInv
    <3>2. CASE wk[w].attempt < MaxSends
      <4>1. wk[w].attempt + 1 \in Attempt
        BY <3>1, <3>2, Numbers DEF Attempt
      <4>2. KnownInv' /\ TokenInv' /\ CountInv'
        BY <2>6, <3>1, <3>2, <4>1, PassedOn, Zenon DEF SendFailed
      <4> QED
        BY <1>4, <4>2, JobTypes, Zenon DEF IInv
    <3>3. CASE ~(wk[w].attempt < MaxSends)
      <4>1. KnownInv' /\ TokenInv' /\ CountInv'
        BY <2>2, <2>6, <3>3, Zenon DEF SendFailed
      <4> QED
        BY <1>4, <4>1, JobTypes, Zenon DEF IInv
    <3> QED
      BY <3>2, <3>3, Zenon
  <2>7. CASE Crash(w)
    <3>1. /\ crashes' = crashes + 1 /\ crashes' \in Nat /\ End(w)
          /\ UNCHANGED <<reports, mail>> /\ wk[w].pc # "idle"
      BY <2>7, Numbers DEF Crash
    <3>2. CASE wk[w].pc \in {"send", "sent"}
      <4>1. Carries(w) /\ wk[w].attempt \in Attempt /\ sends' = [sends EXCEPT ![<<wk[w].id, wk[w].attempt>>] = @ + 1]
        BY <2>7, <3>2, Zenon DEF Crash, Carries, IInv, KnownInv
      <4>2. KnownInv' /\ TokenInv' /\ CountInv'
        BY <3>1, <4>1, PassedOn, Zenon
      <4> QED
        BY <1>4, <4>2, JobTypes, Zenon DEF IInv
    <3>3. CASE wk[w].pc \in {"build", "stored"}
      <4>1. UNCHANGED sends
        BY <2>7, <3>3, Zenon DEF Crash
      <4>2. KnownInv' /\ TokenInv' /\ CountInv'
        BY <3>1, <4>1, Dropped, Zenon
      <4> QED
        BY <1>4, <4>2, JobTypes, Zenon DEF IInv
    <3>4. wk[w].pc \in {"idle", "build", "stored", "send", "sent"}
      BY <1>1, Zenon DEF Slot
    <3> QED
      BY <3>1, <3>2, <3>3, <3>4, Zenon
  <2> QED
    BY <1>4, <2>3, <2>4, <2>5, <2>6, <2>7, JobTypes, GeneratedTokens, LoadSendTokens, SentTokens, Zenon
    DEF Start, Continue, IInv, Attempt
<1> QED
  BY <1>2, <1>3, <1>4, Zenon DEF Next

\* Type correctness of the scheduled delivery: a job or a send is taken from the queue only if it was
\* put there, and refers to a stored report and to one of MAX_SEND_ATTEMPTS attempts.
THEOREM DeliveryTypes == Spec => []TypeOK
<1>1. IInv => TypeOK
  BY Zenon DEF IInv
<1>2. IInv /\ [Next]_vars => IInv'
  BY NextInv, Zenon
<1> QED
  BY InitInv, <1>1, <1>2, PTL DEF Spec

\* No job runs and no send waits that is about report id.
Settled(id) ==
    /\ \A w \in Worker : Carries(w) => wk[w].id # id
    /\ \A k \in Attempt : ~(sends[<<id, k>>] > 0)

\* A report given up is settled, and its chain of attempts ended without a success.
OverInv == \A id \in over : Settled(id) /\ id <= Len(reports) /\ mail[id] <= crashes

\* A settled report stays settled: jobs and sends about it come only from others about it.
LEMMA StaysSettled ==
  ASSUME IInv, [Next]_vars, NEW id \in Id, Settled(id), id <= Len(reports)
  PROVE  Settled(id)' /\ mail'[id] = mail[id] /\ id <= Len(reports') /\ crashes <= crashes'
<1>1. /\ wk \in [Worker -> Slot] /\ mail \in [Id -> Nat] /\ sends \in [Id \X Attempt -> Nat]
      /\ crashes \in Nat /\ Len(reports) \in Nat /\ reports \in Seq(Stored)
      /\ \A w \in Worker : Carries(w) => wk[w].id \in Id
  BY Numbers, Zenon DEF IInv, TypeOK
<1>2. id <= Len(reports) /\ crashes <= crashes
  BY <1>1
<1>3. ASSUME \A u \in Worker : wk'[u] = wk[u] \/ wk'[u].pc \in {"idle", "build"}, UNCHANGED <<sends, mail>>,
             reports' = reports, crashes' = crashes \/ crashes' = crashes + 1
      PROVE  Settled(id)' /\ mail'[id] = mail[id] /\ id <= Len(reports') /\ crashes <= crashes'
  <2>1. \A u \in Worker : Carries(u)' => Carries(u) /\ wk'[u] = wk[u]
    BY <1>3, Zenon DEF Carries
  <2>2. crashes <= crashes'
    BY <1>1, <1>3
  <2> QED
    BY <1>3, <2>1, <2>2, Zenon DEF Settled
<1>4. CASE UNCHANGED vars \/ Tick \/ Api \/ Cron
  <2>1. UNCHANGED <<reports, sends, mail, crashes, wk>>
    BY <1>4, Zenon DEF vars, Tick, Api, Upsert, Delete, SendNow, Cron
  <2> QED
    BY <1>3, <2>1, Zenon
<1>5. ASSUME NEW w \in Worker, Start(w) \/ Continue(w) \/ Crash(w)
      PROVE  Settled(id)' /\ mail'[id] = mail[id] /\ id <= Len(reports') /\ crashes <= crashes'
  <2>1. ASSUME End(w) PROVE \A u \in Worker : wk'[u] = wk[u] \/ wk'[u].pc \in {"idle", "build"}
    BY <1>1, <2>1, IdleType, Zenon DEF End
  <2>2. ASSUME End(w), NEW i \in Id, NEW k \in Attempt, i # id,
               sends' = [sends EXCEPT ![<<i, k>>] = @ + 1], UNCHANGED mail,
               reports' = reports, crashes' = crashes \/ crashes' = crashes + 1
        PROVE  Settled(id)' /\ mail'[id] = mail[id] /\ id <= Len(reports') /\ crashes <= crashes'
    <3>1. \A j \in Attempt : sends'[<<id, j>>] = sends[<<id, j>>]
      BY <1>1, <2>2
    <3>2. \A u \in Worker : Carries(u)' => Carries(u) /\ wk'[u] = wk[u]
      BY <2>1, <2>2, Zenon DEF Carries
    <3>3. crashes <= crashes'
      BY <1>1, <2>2
    <3> QED
      BY <2>2, <3>1, <3>2, <3>3, Zenon DEF Settled
  <2>3. ASSUME NEW manual \in BOOLEAN, Load(w, manual)
        PROVE  Settled(id)' /\ mail'[id] = mail[id] /\ id <= Len(reports') /\ crashes <= crashes'
    <3> DEFINE k == [IdleSlot EXCEPT !.pc = "build", !.manual = manual, !.at = now,
                                     !.run = sched.next, !.freq = sched.freq]
    <3>1. k.pc = "build"
      BY Zenon DEF IdleSlot
    <3>2. (wk' = [wk EXCEPT ![w] = k] \/ wk' = wk) /\ UNCHANGED <<reports, sends, mail, crashes>>
      BY <2>3, Zenon DEF Load
    <3> HIDE DEF k
    <3>3. \A u \in Worker : wk'[u] = wk[u] \/ wk'[u].pc \in {"idle", "build"}
      BY <1>1, <3>1, <3>2, Zenon
    <3> QED
      BY <1>3, <3>2, <3>3, Zenon
  <2>4. CASE GenerateFailed(w) \/ Delivered(w) \/ (Generated(w) /\ ~sched.exists)
    BY <1>3, <2>1, <2>4, Zenon DEF GenerateFailed, Delivered, Generated
  <2>5. CASE Generated(w) /\ sched.exists
    <3> DEFINE n == Len(reports) + 1
               s == [wk[w] EXCEPT !.pc = "stored", !.id = n]
    <3>1. /\ reports' = Append(reports, [run |-> wk[w].run, manual |-> wk[w].manual])
          /\ UNCHANGED <<sends, mail, crashes>> /\ wk' = [wk EXCEPT ![w] = s]
      BY <2>5, Zenon DEF Generated
    <3>2. s.id = n
      BY <1>1, Zenon DEF Slot
    <3> HIDE DEF s
    <3>3. n # id /\ id <= n
      BY <1>1 DEF Id
    <3>4. \A u \in Worker : Carries(u)' => wk'[u].id # id
      BY <1>1, <3>1, <3>2, <3>3, Zenon DEF Carries, Settled
    <3>5. Len(reports') = n
      <4>1. [run |-> wk[w].run, manual |-> wk[w].manual] \in Stored
        BY <1>1, Zenon DEF Slot, Stored
      <4> QED
        BY <1>1, <3>1, <4>1
    <3> QED
      BY <1>2, <3>1, <3>3, <3>4, <3>5, Zenon DEF Settled
  <2>6. CASE EnqueueSend(w)
    <3>1. Carries(w) /\ wk[w].id # id /\ wk[w].id \in Id /\ 1 \in Attempt
      BY <1>1, <2>6, Numbers DEF EnqueueSend, Carries, Settled, Attempt
    <3> QED
      BY <2>2, <2>6, <3>1, Zenon DEF EnqueueSend
  <2>7. ASSUME NEW i \in Id, NEW k \in Attempt, LoadSend(w, i, k)
        PROVE  Settled(id)' /\ mail'[id] = mail[id] /\ id <= Len(reports') /\ crashes <= crashes'
    <3> DEFINE s == [IdleSlot EXCEPT !.pc = "send", !.id = i, !.attempt = k]
    <3>1. /\ i # id /\ sends' = [sends EXCEPT ![<<i, k>>] = @ - 1]
          /\ wk' = [wk EXCEPT ![w] = s] \/ wk' = wk
          /\ UNCHANGED <<reports, mail, crashes>>
      BY <2>7, Zenon DEF LoadSend, Settled
    <3>2. s.id = i
      BY Zenon DEF IdleSlot
    <3> HIDE DEF s
    <3>3. \A u \in Worker : Carries(u)' => wk'[u].id # id
      BY <1>1, <3>1, <3>2, Zenon DEF Carries, Settled
    <3>4. \A j \in Attempt : sends'[<<id, j>>] = sends[<<id, j>>]
      BY <1>1, <3>1
    <3> QED
      BY <1>2, <3>1, <3>3, <3>4, Zenon DEF Settled
  <2>8. CASE Sent(w)
    <3> DEFINE s == [wk[w] EXCEPT !.pc = "sent"]
    <3>1. /\ wk[w].pc = "send" /\ mail' = [mail EXCEPT ![wk[w].id] = @ + 1] /\ wk' = [wk EXCEPT ![w] = s]
          /\ UNCHANGED <<reports, sends, crashes>>
      BY <2>8, Zenon DEF Sent
    <3>2. Carries(w) /\ wk[w].id # id /\ s.id = wk[w].id
      BY <1>1, <3>1, Zenon DEF Carries, Settled, Slot
    <3> HIDE DEF s
    <3>3. \A u \in Worker : Carries(u)' => wk'[u].id # id
      BY <1>1, <3>1, <3>2, Zenon DEF Carries, Settled
    <3>4. mail'[id] = mail[id]
      BY <1>1, <3>1, <3>2, Zenon
    <3> QED
      BY <1>2, <3>1, <3>3, <3>4, Zenon DEF Settled
  <2>9. CASE SendFailed(w)
    <3>1. Carries(w) /\ wk[w].id # id /\ wk[w].id \in Id /\ wk[w].attempt \in Attempt
      BY <1>1, <2>9, Zenon DEF SendFailed, Carries, Settled, IInv, KnownInv
    <3>2. CASE wk[w].attempt < MaxSends
      <4>1. wk[w].attempt + 1 \in Attempt
        BY <3>1, <3>2, Numbers DEF Attempt
      <4> QED
        BY <2>2, <2>9, <3>1, <3>2, <4>1, Zenon DEF SendFailed
    <3>3. CASE ~(wk[w].attempt < MaxSends)
      BY <1>3, <2>1, <2>9, <3>3, Zenon DEF SendFailed
    <3> QED
      BY <3>2, <3>3, Zenon
  <2>10. CASE Crash(w)
    <3>1. End(w) /\ crashes' = crashes + 1 /\ UNCHANGED <<reports, mail>> /\ wk[w].pc # "idle"
      BY <2>10, Zenon DEF Crash
    <3>2. CASE wk[w].pc \in {"send", "sent"}
      <4>1. /\ Carries(w) /\ wk[w].id # id /\ wk[w].id \in Id /\ wk[w].attempt \in Attempt
            /\ sends' = [sends EXCEPT ![<<wk[w].id, wk[w].attempt>>] = @ + 1]
        BY <1>1, <2>10, <3>2, Zenon DEF Crash, Carries, Settled, IInv, KnownInv
      <4> QED
        BY <2>2, <3>1, <4>1, Zenon
    <3>3. CASE wk[w].pc \in {"build", "stored"}
      <4>1. UNCHANGED sends
        BY <2>10, <3>3, Zenon DEF Crash
      <4> QED
        BY <1>3, <2>1, <3>1, <4>1, Zenon
    <3>4. wk[w].pc \in {"idle", "build", "stored", "send", "sent"}
      BY <1>1, Zenon DEF Slot
    <3> QED
      BY <3>1, <3>2, <3>3, <3>4, Zenon
  <2> QED
    BY <1>5, <2>3, <2>4, <2>5, <2>6, <2>7, <2>8, <2>9, <2>10, Zenon DEF Start, Continue, Attempt
<1> QED
  BY <1>4, <1>5, Zenon DEF Next

\* A report is given up by the job that held its only token.
LEMMA GivenUp ==
  ASSUME IInv, IInv', [Next]_vars, NEW id \in over' \ over
  PROVE  Settled(id)' /\ id <= Len(reports') /\ mail'[id] <= crashes'
<1>1. /\ wk \in [Worker -> Slot] /\ mail \in [Id -> Nat] /\ sends \in [Id \X Attempt -> Nat]
      /\ TokenInv /\ KnownInv /\ CountInv
  BY Numbers, Zenon DEF IInv
<1>2. PICK w \in Worker : SendFailed(w) \/ \E i \in Id, k \in Attempt : LoadSend(w, i, k)
  BY Zenon DEF Next, vars, Tick, Api, Upsert, Delete, SendNow, Cron, Start, Continue, Crash, Load, Generated,
    GenerateFailed, EnqueueSend, Sent, Delivered, Attempt
<1>3. CASE SendFailed(w)
  <2>1. /\ wk[w].pc = "send" /\ id = wk[w].id /\ End(w)
        /\ UNCHANGED <<sends, reports, mail, crashes>>
    BY <1>3, Zenon DEF SendFailed
  <2>2. Carries(w) /\ wk[w].id \in 1..Len(reports) /\ mail[id] <= crashes
    BY <1>1, <2>1, Zenon DEF Carries, KnownInv, CountInv
  <2>3. \A u \in Worker : Carries(u)' => Carries(u) /\ wk'[u] = wk[u] /\ u # w
    BY <1>1, <2>1, IdleType, Zenon DEF End, Carries
  <2>4. Settled(id)'
    BY <1>1, <2>1, <2>2, <2>3, Zenon DEF Settled, TokenInv
  <2>5. id <= Len(reports)
    BY <2>1, <2>2, Numbers
  <2> QED
    BY <2>1, <2>2, <2>4, <2>5, Zenon
<1>4. ASSUME NEW i \in Id, NEW k \in Attempt, LoadSend(w, i, k)
      PROVE  Settled(id)' /\ id <= Len(reports') /\ mail'[id] <= crashes'
  <2>1. /\ id = i /\ sends[<<i, k>>] > 0 /\ sends' = [sends EXCEPT ![<<i, k>>] = @ - 1]
        /\ UNCHANGED <<wk, reports, mail, crashes>>
    BY <1>4, Zenon DEF LoadSend
  <2>2. id <= Len(reports) /\ mail[id] <= crashes
    BY <1>1, <2>1, Zenon DEF KnownInv, CountInv
  <2>3. \A u \in Worker : Carries(u) => wk[u].id # id
    BY <1>1, <2>1, Zenon DEF TokenInv
  <2>4. ASSUME NEW j \in Attempt PROVE ~(sends'[<<id, j>>] > 0)
    <3>1. <<id, k>> \in Id \X Attempt /\ <<id, j>> \in Id \X Attempt
      BY <2>1, Zenon
    <3>2. CASE j = k
      <4>1. sends[<<id, k>>] <= 1 /\ sends'[<<id, k>>] = sends[<<id, k>>] - 1 /\ sends[<<id, k>>] \in Nat
        BY <1>1, <2>1, <3>1, Zenon DEF TokenInv
      <4> QED
        BY <3>2, <4>1
    <3>3. CASE j # k
      <4>1. sends'[<<id, j>>] = sends[<<id, j>>]
        BY <1>1, <2>1, <3>1, <3>3, Zenon
      <4> QED
        BY <1>1, <2>1, <3>3, <4>1, Zenon DEF TokenInv
    <3> QED
      BY <3>2, <3>3, Zenon
  <2>5. \A u \in Worker : Carries(u)' => Carries(u)
    BY <2>1, Zenon DEF Carries
  <2> QED
    BY <2>1, <2>2, <2>3, <2>4, <2>5, Zenon DEF Settled
<1> QED
  BY <1>2, <1>3, <1>4, Zenon

\* Nothing takes a report out of the ones given up.
LEMMA OverGrows ==
  ASSUME [Next]_vars
  PROVE  over \subseteq over'
<1>1. CASE UNCHANGED vars \/ Tick \/ Api \/ Cron
  BY <1>1, Zenon DEF vars, Tick, Api, Upsert, Delete, SendNow, Cron
<1>2. ASSUME NEW w \in Worker, Start(w) PROVE over \subseteq over'
  BY <1>2, Zenon DEF Start, Load, LoadSend
<1>3. ASSUME NEW w \in Worker, Continue(w) \/ Crash(w) PROVE over \subseteq over'
  BY <1>3, Zenon DEF Continue, Crash, Generated, GenerateFailed, EnqueueSend, Sent, Delivered, SendFailed
<1> QED
  BY <1>1, <1>2, <1>3, Zenon DEF Next

\* The invariant about the reports given up.
LEMMA NextOver ==
  ASSUME IInv, IInv', OverInv, [Next]_vars
  PROVE  OverInv' /\ \A id \in over : id \in over' /\ mail'[id] = mail[id]
<1>1. over \subseteq Id /\ mail \in [Id -> Nat] /\ crashes \in Nat /\ crashes' \in Nat
  BY Numbers, Zenon DEF IInv, TypeOK
<1>2. ASSUME NEW id \in over
      PROVE  Settled(id)' /\ id <= Len(reports') /\ mail'[id] <= crashes' /\ mail'[id] = mail[id]
  <2>1. id \in Id /\ Settled(id) /\ id <= Len(reports) /\ mail[id] <= crashes
    BY <1>1, <1>2, Zenon DEF OverInv
  <2>2. Settled(id)' /\ mail'[id] = mail[id] /\ id <= Len(reports') /\ crashes <= crashes'
    BY <2>1, StaysSettled, Zenon
  <2>3. mail[id] \in Nat
    BY <1>1, <2>1, Zenon
  <2>4. mail[id] <= crashes'
    BY <1>1, <2>1, <2>2, <2>3
  <2> QED
    BY <2>2, <2>4, Zenon
<1>3. OverInv'
  BY <1>2, GivenUp, Zenon DEF OverInv
<1> QED
  BY <1>2, <1>3, OverGrows, Zenon

\* send_report_email_job and _retry_or_give_up: whatever builds, sends, edits, duplicates and retries
\* interleave, a report goes out once, or not at all if it was given up, and once more for each worker
\* killed after it had sent it.
THEOREM MailedAtMostOnce == Spec => []MailedOnce
<1>1. IInv /\ OverInv => MailedOnce
  <2> SUFFICES ASSUME IInv, OverInv, NEW id \in Id
               PROVE  mail[id] <= (IF id \in over THEN 0 ELSE 1) + crashes
    BY Zenon DEF MailedOnce
  <2>1. mail[id] \in Nat /\ crashes \in Nat /\ mail[id] <= 1 + crashes /\ (id \in over => mail[id] <= crashes)
    BY Numbers, Zenon DEF IInv, CountInv, OverInv
  <2> QED
    BY <2>1
<1>2. Init => OverInv
  BY Zenon DEF Init, OverInv
<1>3. IInv /\ [Next]_vars => IInv'
  BY NextInv, Zenon
<1>4. IInv /\ IInv' /\ OverInv /\ [Next]_vars => OverInv'
  BY NextOver, Zenon
<1> QED
  BY InitInv, <1>1, <1>2, <1>3, <1>4, PTL DEF Spec

\* _retry_or_give_up and a send job that finds no recipients end the chain of attempts: after that no
\* job, re-run or edit of the schedule mails the report.
THEOREM GivenUpStaysGivenUp == Spec => GivenUpIsFinal
<1>1. Init => OverInv
  BY Zenon DEF Init, OverInv
<1>2. IInv /\ [Next]_vars => IInv'
  BY NextInv, Zenon
<1>3. IInv /\ IInv' /\ OverInv /\ [Next]_vars => OverInv' /\ \A id \in over : id \in over' /\ mail'[id] = mail[id]
  BY NextOver, Zenon
<1>4. IInv /\ IInv' /\ OverInv /\ [Next]_vars => [\A id \in over : id \in over' /\ mail'[id] = mail[id]]_vars
  BY <1>3, Zenon
<1> QED
  BY InitInv, <1>1, <1>2, <1>3, <1>4, PTL DEF Spec, GivenUpIsFinal

==============================================================================
