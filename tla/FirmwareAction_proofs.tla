------------------------ MODULE FirmwareAction_proofs ------------------------
(***************************************************************************)
(* FirmwareAction: type correctness and mutual exclusion of the jobs of a  *)
(* device, for any number of actions and workers, any polling budgets, and *)
(* any number of crashes, timeouts and lost messages.                      *)
(***************************************************************************)
EXTENDS FirmwareAction, TLAPS

\* What makes mutual exclusion inductive: a job past the lock attempt holds the device lock.
LockInv == \A w \in Worker : wk[w].pc \notin {"idle", "loaded"} => lock = w

\* A job that is not idle works on an action.
ActInv == \A w \in Worker : wk[w].pc # "idle" => wk[w].act \in Action

IInv == TypeOK /\ LockInv /\ ActInv

\* Initially no job runs.
LEMMA InitInv == Init => IInv
<1> SUFFICES ASSUME Init PROVE IInv
  BY Zenon
<1> USE FirmwareAssumption
<1>1. IdleSlot \in Slot
  BY Zenon DEF IdleSlot, Slot
<1>2. wk \in [Worker -> Slot]
  BY <1>1, Zenon DEF Init
<1>3. row \in [Action -> Row]
  BY DEF Init, Row
<1>4. dev \in Device
  <2>1. MaxMinor \in Nat /\ MaxMajor \in Nat
    BY Zenon DEF FirmwareAssumption
  <2>2. 0..MaxMinor \subseteq Nat /\ 0..MaxMajor \subseteq Nat
    BY <2>1
  <2>3. PICK minor \in 0..MaxMinor, major \in 0..MaxMajor :
            dev = [op |-> "none", phase |-> "idle", waited |-> 0, minor |-> minor, major |-> major,
                   updates |-> FALSE, offered |-> FALSE, reboot |-> FALSE]
    BY Zenon DEF Init
  <2> QED
    BY <2>2, <2>3, Zenon DEF Device
<1>5. TypeOK
  BY <1>2, <1>3, <1>4 DEF Init, TypeOK
<1>6. LockInv /\ ActInv
  BY Zenon DEF Init, LockInv, ActInv, IdleSlot
<1> QED
  BY <1>5, <1>6, Zenon DEF IInv

\* The slot of one worker changes to a well-typed one; if it is then past the lock attempt, this
\* worker holds the lock; if the lock changed hands, no other worker had it.
LEMMA SlotChange ==
  ASSUME IInv, NEW w \in Worker, NEW s \in Slot,
         wk' = [wk EXCEPT ![w] = s],
         s.pc # "idle" => s.act \in Action,
         s.pc \notin {"idle", "loaded"} => lock' = w,
         \/ lock' = lock
         \/ lock \in {None, w}
  PROVE  wk' \in [Worker -> Slot] /\ LockInv' /\ ActInv'
<1> USE FirmwareAssumption
<1>1. wk \in [Worker -> Slot] /\ LockInv /\ ActInv
  BY Zenon DEF IInv, TypeOK
<1>2. wk' \in [Worker -> Slot]
  BY <1>1, Zenon
<1>3. ASSUME NEW v \in Worker
      PROVE  /\ wk'[v].pc \notin {"idle", "loaded"} => lock' = v
             /\ wk'[v].pc # "idle" => wk'[v].act \in Action
  <2>1. CASE v = w
    BY <1>1, <2>1, Zenon
  <2>2. CASE v # w
    BY <1>1, <2>2, Zenon DEF LockInv, ActInv
  <2> QED
    BY <2>1, <2>2, Zenon
<1> QED
  BY <1>2, <1>3, Zenon DEF LockInv, ActInv

\* The jobs and the lock do not change.
LEMMA JobsFrame ==
  ASSUME IInv, UNCHANGED <<wk, lock>>
  PROVE  wk' \in [Worker -> Slot] /\ LockInv' /\ ActInv' /\ lock' \in Worker \cup {None}
BY Zenon DEF IInv, TypeOK, LockInv, ActInv

\* The handler of the API and the sweeper leave the jobs and the lock alone.
LEMMA HandlersInv ==
  ASSUME IInv,
         \/ \E a \in Action : EnqueueNew(a) \/ CommitNew(a) \/ SweepLoad(a)
         \/ Sweep
  PROVE  IInv'
<1>1. TypeOK
  BY Zenon DEF IInv
<1>2. ASSUME NEW a \in Action, EnqueueNew(a) PROVE IInv'
  <2>1. UNCHANGED <<wk, lock>> /\ queue' \in [Action -> Nat] /\ making' \subseteq Action
    BY <1>1, <1>2 DEF EnqueueNew, Enqueue, TypeOK
  <2> QED
    BY <1>1, <1>2, <2>1, JobsFrame, Zenon DEF EnqueueNew, TypeOK, IInv, bound
<1>3. ASSUME NEW a \in Action, CommitNew(a) PROVE IInv'
  <2>1. row[a] \in Row
    BY <1>1, Zenon DEF TypeOK
  <2>2. [row[a] EXCEPT !.status = "scheduled"] \in Row
    BY <2>1, Zenon DEF Row
  <2>3. row' \in [Action -> Row]
    BY <1>1, <1>3, <2>2, Zenon DEF CommitNew, TypeOK
  <2> QED
    BY <1>1, <1>3, <2>3, JobsFrame, Zenon DEF CommitNew, TypeOK, IInv, bound
<1>4. ASSUME NEW a \in Action, SweepLoad(a) PROVE IInv'
  <2>1. row[a].attempts \in Nat
    BY <1>1, Zenon DEF TypeOK, Row
  <2> QED
    BY <1>1, <1>4, <2>1, JobsFrame, Zenon DEF SweepLoad, TypeOK, IInv, bound
<1>5. ASSUME SweepSkip PROVE IInv'
  BY <1>1, <1>5, JobsFrame, Zenon DEF SweepSkip, TypeOK, IInv, bound
<1>6. ASSUME SweepRetry PROVE IInv'
  <2>1. sw.act \in Action /\ sw.attempts \in Nat /\ row[sw.act] \in Row
    BY <1>1, <1>6, Zenon DEF SweepRetry, TypeOK
  <2>2. [row[sw.act] EXCEPT !.attempts = sw.attempts + 1] \in Row
    BY <2>1 DEF Row
  <2>3. row' \in [Action -> Row]
    BY <1>1, <1>6, <2>1, <2>2, Zenon DEF SweepRetry, TypeOK
  <2>4. queue' \in [Action -> Nat] /\ lost' \in Nat
    BY <1>1, <1>6, <2>1 DEF SweepRetry, Enqueue, TypeOK
  <2> QED
    BY <1>1, <1>6, <2>3, <2>4, JobsFrame, Zenon DEF SweepRetry, TypeOK, IInv
<1>7. ASSUME SweepGiveUp PROVE IInv'
  <2>1. sw.act \in Action /\ row[sw.act] \in Row
    BY <1>1, <1>7, Zenon DEF SweepGiveUp, TypeOK
  <2>2. [row[sw.act] EXCEPT !.status = "failed"] \in Row
    BY <2>1, Zenon DEF Row
  <2>3. row' \in [Action -> Row]
    BY <1>1, <1>7, <2>1, <2>2, Zenon DEF SweepGiveUp, TypeOK
  <2> QED
    BY <1>1, <1>7, <2>3, JobsFrame, Zenon DEF SweepGiveUp, TypeOK, IInv, bound
<1> QED
  BY <1>2, <1>3, <1>4, <1>5, <1>6, <1>7, Zenon DEF Sweep

\* Only the firewall changes, or it takes an operation.
LEMMA TakeType ==
  ASSUME dev \in Device, NEW op \in {"check", "update", "upgrade", "install", "remove"}, Take(op)
  PROVE  dev' \in Device
<1>1. CASE Busy
  BY <1>1, Zenon DEF Take
<1>2. CASE ~Busy
  BY <1>2, Zenon DEF Take, Device
<1> QED
  BY <1>1, <1>2, Zenon

\* The firewall's own steps, and the check button, keep its type.
LEMMA FirewallInv ==
  ASSUME IInv, Firewall \/ UiCheck
  PROVE  IInv'
<1>1. TypeOK /\ dev \in Device
  BY Zenon DEF IInv, TypeOK
<1>2. ASSUME DevStart PROVE IInv'
  <2>1. dev' \in Device
    BY <1>1, <1>2, Zenon DEF DevStart, Device
  <2> QED
    BY <1>1, <1>2, <2>1, JobsFrame, Zenon DEF DevStart, TypeOK, IInv, bound
<1>3. ASSUME DevFinish PROVE IInv'
  <2>1. MaxMinor \in Nat
    BY FirmwareAssumption, Zenon DEF FirmwareAssumption
  <2>2. MinorAfter \subseteq Nat /\ RebootAfter \subseteq BOOLEAN
    BY <1>1, <2>1 DEF MinorAfter, RebootAfter, Device
  <2> DEFINE major == IF dev.op = "upgrade" /\ dev.major > 0 THEN dev.major - 1 ELSE dev.major
             updates == IF dev.op = "check" THEN dev.minor > 0 ELSE dev.updates
             offered == IF dev.op = "check" THEN dev.major > 0 ELSE dev.offered
  <2>3. major \in Nat /\ updates \in BOOLEAN /\ offered \in BOOLEAN
    <3>1. dev.updates \in BOOLEAN /\ dev.offered \in BOOLEAN
      BY <1>1, Zenon DEF Device
    <3>2. (dev.minor > 0) \in BOOLEAN /\ (dev.major > 0) \in BOOLEAN
      OBVIOUS
    <3>3. updates \in BOOLEAN /\ offered \in BOOLEAN
      BY <3>1, <3>2, Zenon
    <3>4. major \in Nat
      BY <1>1 DEF Device
    <3> QED
      BY <3>3, <3>4, Zenon
  <2>4. PICK minor \in MinorAfter, reboot \in RebootAfter :
          dev' = [dev EXCEPT !.phase = "idle", !.op = "none", !.minor = minor, !.reboot = reboot,
                    !.major = major, !.updates = updates, !.offered = offered]
    BY <1>3, Zenon DEF DevFinish
  <2> HIDE DEF major, updates, offered
  <2>5. dev' \in Device
    BY <1>1, <2>2, <2>3, <2>4, ZenonT(30) DEF Device
  <2> QED
    BY <1>1, <1>3, <2>5, JobsFrame, Zenon DEF DevFinish, TypeOK, IInv, bound
<1>4. ASSUME DevDown PROVE IInv'
  <2>1. dev' \in Device
    BY <1>1, <1>4, Zenon DEF DevDown, Device
  <2> QED
    BY <1>1, <1>4, <2>1, JobsFrame, Zenon DEF DevDown, TypeOK, IInv, bound
<1>5. ASSUME DevUp PROVE IInv'
  <2>1. dev' \in Device
    BY <1>1, <1>5, Zenon DEF DevUp, Device
  <2> QED
    BY <1>1, <1>5, <2>1, JobsFrame, Zenon DEF DevUp, TypeOK, IInv, bound
<1>6. ASSUME UiCheck PROVE IInv'
  <2>1. dev' \in Device
    BY <1>1, <1>6, TakeType, Zenon DEF UiCheck
  <2> QED
    BY <1>1, <1>6, <2>1, JobsFrame DEF UiCheck, TypeOK, IInv
<1> QED
  BY <1>2, <1>3, <1>4, <1>5, <1>6, Zenon DEF Firewall

\* What is known of a job past the lock attempt.
LEMMA Working ==
  ASSUME IInv, NEW w \in Worker, wk[w].pc \notin {"idle", "loaded"}
  PROVE  wk[w] \in Slot /\ wk[w].act \in Action /\ lock = w /\ row[wk[w].act] \in Row
BY Zenon DEF IInv, TypeOK, LockInv, ActInv

\* A job's next program counter, or its verdict, in its slot.
LEMMA SlotTypes ==
  ASSUME NEW s \in Slot, s.act \in Action,
         NEW pc \in {"check", "post", "poll", "wait", "status", "identity", "commit"}, NEW ok \in BOOLEAN
  PROVE  /\ [s EXCEPT !.pc = pc] \in Slot
         /\ [s EXCEPT !.pc = pc].act \in Action
         /\ [s EXCEPT !.pc = pc, !.ok = ok] \in Slot
         /\ [s EXCEPT !.pc = pc, !.ok = ok].act \in Action
BY Zenon DEF Slot

\* A job that goes to another step under the lock.
LEMMA GotoInv ==
  ASSUME IInv, NEW w \in Worker, wk[w].pc \notin {"idle", "loaded"},
         NEW pc \in {"check", "post", "poll", "wait", "status", "identity", "commit"}, Goto(w, pc),
         lock' = lock
  PROVE  wk' \in [Worker -> Slot] /\ LockInv' /\ ActInv'
<1>1. wk[w] \in Slot /\ wk[w].act \in Action /\ lock = w
  BY Working, Zenon
<1> DEFINE s == [wk[w] EXCEPT !.pc = pc]
<1>2. s \in Slot /\ s.act \in Action
  BY <1>1, SlotTypes, Zenon
<1>3. wk' = [wk EXCEPT ![w] = s]
  BY Zenon DEF Goto
<1> HIDE DEF s
<1> QED
  BY <1>1, <1>2, <1>3, SlotChange, Zenon

\* A job that comes to its verdict.
LEMMA VerdictInv ==
  ASSUME IInv, NEW w \in Worker, wk[w].pc \notin {"idle", "loaded"}, NEW ok \in BOOLEAN, Verdict(w, ok),
         lock' = lock
  PROVE  wk' \in [Worker -> Slot] /\ LockInv' /\ ActInv'
<1>1. wk[w] \in Slot /\ wk[w].act \in Action /\ lock = w
  BY Working, Zenon
<1> DEFINE s == [wk[w] EXCEPT !.pc = "commit", !.ok = ok]
<1>2. s \in Slot /\ s.act \in Action
  BY <1>1, SlotTypes, Zenon
<1>3. wk' = [wk EXCEPT ![w] = s]
  BY Zenon DEF Verdict
<1> HIDE DEF s
<1> QED
  BY <1>1, <1>2, <1>3, SlotChange, Zenon

\* A job that begins to poll.
LEMMA ThenPollInv ==
  ASSUME IInv, NEW w \in Worker, wk[w].pc \notin {"idle", "loaded"},
         NEW next \in {"check", "status", "identity"}, ThenPoll(w, next), lock' = lock
  PROVE  wk' \in [Worker -> Slot] /\ LockInv' /\ ActInv'
<1>1. wk[w] \in Slot /\ wk[w].act \in Action /\ lock = w
  BY Working, Zenon
<1> DEFINE s == [wk[w] EXCEPT !.pc = "poll", !.next = next, !.polls = 0, !.idle = 0, !.seen = FALSE]
<1>2. s \in Slot /\ s.act \in Action
  BY <1>1, Zenon DEF Slot
<1>3. wk' = [wk EXCEPT ![w] = s]
  BY Zenon DEF ThenPoll
<1> HIDE DEF s
<1> QED
  BY <1>1, <1>2, <1>3, SlotChange, Zenon

\* A job that ends: its slot is idle again, and the lock released if it was its own.
LEMMA EndInv ==
  ASSUME IInv, NEW w \in Worker, wk' = [wk EXCEPT ![w] = IdleSlot],
         (lock' = None /\ lock \in {None, w}) \/ Release(w)
  PROVE  wk' \in [Worker -> Slot] /\ LockInv' /\ ActInv' /\ lock' \in Worker \cup {None}
<1>1. IdleSlot \in Slot /\ IdleSlot.pc = "idle"
  BY Zenon DEF IdleSlot, Slot
<1>2. lock \in Worker \cup {None}
  BY Zenon DEF IInv, TypeOK
<1>3. lock' \in Worker \cup {None} /\ (lock' = lock \/ lock \in {None, w})
  BY <1>2, Zenon DEF Release
<1> QED
  BY <1>1, <1>3, SlotChange, Zenon

\* A job is taken from the queue, and takes the lock or ends.
LEMMA StartInv ==
  ASSUME IInv, NEW w \in Worker, TryLock(w) \/ \E a \in Action : Load(w, a)
  PROVE  IInv'
<1> USE FirmwareAssumption
<1>1. TypeOK /\ wk[w] \in Slot
  BY Zenon DEF IInv, TypeOK
<1>2. ASSUME NEW a \in Action, Load(w, a) PROVE IInv'
  <2>1. queue' \in [Action -> Nat]
    <3>1. queue \in [Action -> Nat] /\ queue[a] > 0 /\ queue' = [queue EXCEPT ![a] = queue[a] - 1]
      BY <1>1, <1>2, Zenon DEF Load, TypeOK
    <3>2. queue[a] - 1 \in Nat
      BY <3>1
    <3> QED
      BY <3>1, <3>2, Zenon
  <2>2. CASE row[a].status = "scheduled"
    <3> DEFINE s == [IdleSlot EXCEPT !.pc = "loaded", !.act = a]
    <3>1. s \in Slot /\ s.pc = "loaded" /\ s.act = a
      BY Zenon DEF IdleSlot, Slot
    <3>2. wk' = [wk EXCEPT ![w] = s] /\ lock' = lock
      BY <1>2, <2>2, Zenon DEF Load
    <3> HIDE DEF s
    <3>3. wk' \in [Worker -> Slot] /\ LockInv' /\ ActInv'
      BY <3>1, <3>2, SlotChange, Zenon
    <3> QED
      BY <1>1, <1>2, <2>1, <3>2, <3>3, Zenon DEF Load, TypeOK, IInv, bound
  <2>3. CASE row[a].status # "scheduled"
    BY <1>1, <1>2, <2>1, <2>3, JobsFrame, Zenon DEF Load, TypeOK, IInv, bound
  <2> QED
    BY <2>2, <2>3, Zenon
<1>3. ASSUME TryLock(w), lock = None PROVE IInv'
  <2>1. wk[w].act \in Action
    BY <1>3, Zenon DEF TryLock, IInv, ActInv
  <2>2. PICK pc \in {"check", "post"} : Goto(w, pc)
    BY <1>3, Zenon DEF TryLock
  <2> DEFINE s == [wk[w] EXCEPT !.pc = pc]
  <2>3. s \in Slot /\ s.act \in Action
    BY <1>1, <2>1, SlotTypes, Zenon
  <2>4. wk' = [wk EXCEPT ![w] = s] /\ lock' = w
    BY <1>3, <2>2, Zenon DEF Goto, TryLock
  <2> HIDE DEF s
  <2>5. wk' \in [Worker -> Slot] /\ LockInv' /\ ActInv'
    BY <1>3, <2>3, <2>4, SlotChange, Zenon
  <2> QED
    BY <1>1, <1>3, <2>4, <2>5, Zenon DEF TryLock, TypeOK, IInv, bound
<1>4. ASSUME TryLock(w), lock # None PROVE IInv'
  <2>1. wk' = [wk EXCEPT ![w] = IdleSlot] /\ lock' = lock /\ wk[w].pc \in {"idle", "loaded"}
    BY <1>4, Zenon DEF TryLock
  <2>2. wk' \in [Worker -> Slot] /\ LockInv' /\ ActInv' /\ lock' \in Worker \cup {None}
    <3>1. IdleSlot \in Slot /\ IdleSlot.pc = "idle"
      BY Zenon DEF IdleSlot, Slot
    <3>2. wk' \in [Worker -> Slot] /\ LockInv' /\ ActInv'
      BY <2>1, <3>1, SlotChange, Zenon
    <3> QED
      BY <1>1, <2>1, <3>2, Zenon DEF TypeOK
  <2> QED
    BY <1>1, <1>4, <2>2, Zenon DEF TryLock, TypeOK, IInv, bound
<1> QED
  BY <1>2, <1>3, <1>4, Zenon

\* The requests that start an operation.
LEMMA OperateInv ==
  ASSUME IInv, NEW w \in Worker, Check(w) \/ Status(w) \/ Post(w)
  PROVE  IInv'
<1>1. TypeOK /\ dev \in Device
  BY Zenon DEF IInv, TypeOK
<1>2. wk[w] \in Slot /\ wk[w].act \in Action /\ row[wk[w].act] \in Row
  BY Working, Zenon DEF Check, Status, Post
<1>3. ASSUME Check(w) PROVE IInv'
  <2>1. dev' \in Device
    BY <1>1, <1>3, TakeType, Zenon DEF Check
  <2>2. wk' \in [Worker -> Slot] /\ LockInv' /\ ActInv'
    BY <1>3, ThenPollInv, Zenon DEF Check
  <2> QED
    BY <1>1, <1>3, <2>1, <2>2, Zenon DEF Check, TypeOK, IInv, bound
<1>4. ASSUME Status(w) PROVE IInv'
  <2>1. wk[w].pc \notin {"idle", "loaded"} /\ lock' = lock
    BY <1>4, Zenon DEF Status
  <2>2. ASSUME NEW pc \in {"post", "identity"}, Goto(w, pc)
        PROVE  wk' \in [Worker -> Slot] /\ LockInv' /\ ActInv'
    BY <2>1, <2>2, GotoInv, Zenon
  <2>3. ASSUME Verdict(w, FALSE)
        PROVE  wk' \in [Worker -> Slot] /\ LockInv' /\ ActInv'
    BY <2>1, <2>3, VerdictInv, Zenon
  <2>4. ASSUME NEW op \in {"update", "upgrade"}, wk' = [wk EXCEPT ![w].pc = "post", ![w].op = op]
        PROVE  wk' \in [Worker -> Slot] /\ LockInv' /\ ActInv'
    <3> DEFINE s == [wk[w] EXCEPT !.pc = "post", !.op = op]
    <3>1. s \in Slot /\ s.act \in Action
      BY <1>2, Zenon DEF Slot
    <3>2. wk' = [wk EXCEPT ![w] = s]
      BY <2>4, Zenon
    <3> HIDE DEF s
    <3>3. lock = w
      BY <2>1, Working, Zenon
    <3> QED
      BY <2>1, <3>1, <3>2, <3>3, SlotChange, Zenon
  <2>5. wk' \in [Worker -> Slot] /\ LockInv' /\ ActInv'
    BY <1>4, <2>2, <2>3, <2>4, Zenon DEF Status
  <2> QED
    BY <1>1, <1>4, <2>5, Zenon DEF Status, TypeOK, IInv, bound
<1>5. ASSUME Post(w) PROVE IInv'
  <2>1. wk[w].pc \notin {"idle", "loaded"} /\ lock' = lock
    BY <1>5, Zenon DEF Post
  <2>2. Operation(w) \in {"check", "update", "upgrade", "install", "remove"}
    BY <1>2, Zenon DEF Operation, KindOf, Row, Kind, Slot
  <2>3. dev' \in Device
    BY <1>1, <1>5, <2>2, TakeType, Zenon DEF Post
  <2>4. issued' \in [Action -> Nat] /\ lost' \in Nat
    <3>1. issued \in [Action -> Nat] /\ lost \in Nat
      BY <1>1, Zenon DEF TypeOK
    <3>2. issued' \in [Action -> Nat]
      BY <1>2, <1>5, <3>1 DEF Post
    <3>3. lost' = lost \/ lost' = lost + 1
      BY <1>5, ZenonT(30) DEF Post
    <3> QED
      BY <3>1, <3>2, <3>3
  <2>5. ASSUME Verdict(w, FALSE) PROVE IInv'
    <3>1. wk' \in [Worker -> Slot] /\ LockInv' /\ ActInv'
      BY <2>1, <2>5, VerdictInv, Zenon
    <3> QED
      BY <1>1, <1>5, <2>3, <2>4, <3>1, SMTT(30) DEF Post, TypeOK, IInv
  <2>6. ASSUME NEW next \in {"check", "identity"}, ThenPoll(w, next) PROVE IInv'
    <3>1. wk' \in [Worker -> Slot] /\ LockInv' /\ ActInv'
      BY <2>1, <2>6, ThenPollInv, Zenon
    <3> QED
      BY <1>1, <1>5, <2>3, <2>4, <3>1, SMTT(30) DEF Post, TypeOK, IInv
  <2> QED
    BY <1>5, <2>5, <2>6, Zenon DEF Post
<1> QED
  BY <1>3, <1>4, <1>5, Zenon

\* A request that gets no answer leaves the bounds typed.
LEMMA NoAnswerType ==
  ASSUME blips \in Nat, NoAnswer
  PROVE  blips' \in Nat
<1>1. blips' = blips \/ blips' = blips + 1
  BY Zenon DEF NoAnswer
<1> QED
  BY <1>1

\* The counters of a polling job.
LEMMA CounterTypes ==
  ASSUME NEW s \in Slot, s.act \in Action, NEW n \in Nat, NEW m \in Nat
  PROVE  /\ [s EXCEPT !.seen = TRUE, !.idle = 0, !.polls = n] \in Slot
         /\ [s EXCEPT !.seen = TRUE, !.idle = 0, !.polls = n].act \in Action
         /\ [s EXCEPT !.idle = m, !.polls = n] \in Slot
         /\ [s EXCEPT !.idle = m, !.polls = n].act \in Action
         /\ [s EXCEPT !.pc = "poll", !.seen = TRUE, !.polls = n] \in Slot
         /\ [s EXCEPT !.pc = "poll", !.seen = TRUE, !.polls = n].act \in Action
BY Zenon DEF Slot

\* One poll, and the end of polling.
LEMMA PollInv ==
  ASSUME IInv, NEW w \in Worker, Poll(w)
  PROVE  IInv'
<1>1. TypeOK /\ dev \in Device
  BY Zenon DEF IInv, TypeOK
<1>2. wk[w].pc = "poll" /\ lock' = lock
  BY Zenon DEF Poll, Reads
<1>3. wk[w] \in Slot /\ wk[w].act \in Action /\ lock = w
  BY <1>2, Working, Zenon
<1>4. dev' \in Device
  <2>1. CASE dev.phase = "queued"
    BY <1>1, <2>1 DEF Poll, Reads, Device
  <2>2. CASE dev.phase # "queued"
    BY <1>1, <2>2, Zenon DEF Poll, Reads
  <2> QED
    BY <2>1, <2>2, Zenon
<1>5. ASSUME NEW s \in Slot, s.act \in Action, wk' = [wk EXCEPT ![w] = s]
      PROVE  wk' \in [Worker -> Slot] /\ LockInv' /\ ActInv'
  BY <1>2, <1>3, <1>5, SlotChange, Zenon
<1>6. PICK s \in Slot : s.act \in Action /\ wk' = [wk EXCEPT ![w] = s]
  <2>1. CASE dev.phase = "running"
    <3>1. wk' = [wk EXCEPT ![w] = [wk[w] EXCEPT !.seen = TRUE, !.idle = 0, !.polls = wk[w].polls + 1]]
      BY <2>1, Zenon DEF Poll
    <3>4. wk[w].polls + 1 \in Nat /\ wk[w].idle + 1 \in Nat
      BY <1>3 DEF Slot
    <3>5. /\ [wk[w] EXCEPT !.seen = TRUE, !.idle = 0, !.polls = wk[w].polls + 1] \in Slot
          /\ [wk[w] EXCEPT !.seen = TRUE, !.idle = 0, !.polls = wk[w].polls + 1].act \in Action
      BY <1>3, <3>4, CounterTypes, Zenon
    <3> QED
      BY <3>1, <3>5, Zenon
  <2>2. CASE dev.phase # "running" /\ (wk[w].seen \/ wk[w].idle + 1 >= Grace)
    <3> DEFINE n == IF wk[w].next = "check" THEN wk[w].steps + 1 ELSE wk[w].steps
    <3>1. Polled(w)
      BY <2>2, Zenon DEF Poll
    <3>2. wk' = [wk EXCEPT ![w] = [wk[w] EXCEPT !.pc = wk[w].next, !.steps = n]]
      BY <3>1, Zenon DEF Polled
    <3>3. n \in Nat /\ wk[w].next \in {"check", "status", "identity"}
      BY <1>3 DEF Slot
    <3> HIDE DEF n
    <3>5. /\ [wk[w] EXCEPT !.pc = wk[w].next, !.steps = n] \in Slot
          /\ [wk[w] EXCEPT !.pc = wk[w].next, !.steps = n].act \in Action
      BY <1>3, <3>3, Zenon DEF Slot
    <3> QED
      BY <3>2, <3>5, Zenon
  <2>3. CASE dev.phase # "running" /\ ~(wk[w].seen \/ wk[w].idle + 1 >= Grace)
    <3>1. wk' = [wk EXCEPT ![w].idle = wk[w].idle + 1, ![w].polls = wk[w].polls + 1]
      BY <2>3, Zenon DEF Poll
    <3>2. wk' = [wk EXCEPT ![w] = [wk[w] EXCEPT !.idle = wk[w].idle + 1, !.polls = wk[w].polls + 1]]
      BY <3>1, Zenon
    <3>4. wk[w].polls + 1 \in Nat /\ wk[w].idle + 1 \in Nat
      BY <1>3 DEF Slot
    <3>5. /\ [wk[w] EXCEPT !.idle = wk[w].idle + 1, !.polls = wk[w].polls + 1] \in Slot
          /\ [wk[w] EXCEPT !.idle = wk[w].idle + 1, !.polls = wk[w].polls + 1].act \in Action
      BY <1>3, <3>4, CounterTypes, Zenon
    <3> QED
      BY <3>2, <3>5, Zenon
  <2> QED
    BY <2>1, <2>2, <2>3, Zenon
<1>7. wk' \in [Worker -> Slot] /\ LockInv' /\ ActInv'
  BY <1>5, <1>6, Zenon
<1> QED
  BY <1>1, <1>4, <1>7, Zenon DEF Poll, TypeOK, IInv, bound

\* The waits for a reboot.
LEMMA WaitInv ==
  ASSUME IInv, NEW w \in Worker, PollUnreachable(w) \/ WaitUnreachable(w) \/ WaitReached(w)
  PROVE  IInv'
<1>1. TypeOK
  BY Zenon DEF IInv
<1>2. wk[w].pc \notin {"idle", "loaded"} /\ lock' = lock
  BY Zenon DEF PollUnreachable, WaitUnreachable, WaitReached
<1>3. wk[w] \in Slot /\ wk[w].act \in Action /\ lock = w
  BY <1>2, Working, Zenon
<1>4. PICK s \in Slot : s.act \in Action /\ wk' = [wk EXCEPT ![w] = s]
  <2>1. CASE PollUnreachable(w)
    <3>1. wk' = [wk EXCEPT ![w] = [wk[w] EXCEPT !.pc = "wait", !.waits = 0]]
      BY <2>1, Zenon DEF PollUnreachable
    <3>5. /\ [wk[w] EXCEPT !.pc = "wait", !.waits = 0] \in Slot
          /\ [wk[w] EXCEPT !.pc = "wait", !.waits = 0].act \in Action
      BY <1>3, Zenon DEF Slot
    <3> QED
      BY <3>1, <3>5, Zenon
  <2>2. CASE WaitUnreachable(w)
    <3>1. wk' = [wk EXCEPT ![w] = [wk[w] EXCEPT !.waits = wk[w].waits + 1]]
      BY <2>2, Zenon DEF WaitUnreachable
    <3>5. /\ [wk[w] EXCEPT !.waits = wk[w].waits + 1] \in Slot
          /\ [wk[w] EXCEPT !.waits = wk[w].waits + 1].act \in Action
      BY <1>3 DEF Slot
    <3> QED
      BY <3>1, <3>5, Zenon
  <2>3. CASE WaitReached(w)
    <3>1. wk' = [wk EXCEPT ![w] = [wk[w] EXCEPT !.pc = "poll", !.seen = TRUE, !.polls = wk[w].polls + 1]]
      BY <2>3, Zenon DEF WaitReached
    <3>4. wk[w].polls + 1 \in Nat /\ wk[w].idle + 1 \in Nat
      BY <1>3 DEF Slot
    <3>5. /\ [wk[w] EXCEPT !.pc = "poll", !.seen = TRUE, !.polls = wk[w].polls + 1] \in Slot
          /\ [wk[w] EXCEPT !.pc = "poll", !.seen = TRUE, !.polls = wk[w].polls + 1].act \in Action
      BY <1>3, <3>4, CounterTypes, Zenon
    <3> QED
      BY <3>1, <3>5, Zenon
  <2> QED
    BY <2>1, <2>2, <2>3, Zenon
<1>5. wk' \in [Worker -> Slot] /\ LockInv' /\ ActInv'
  BY <1>2, <1>3, <1>4, SlotChange, Zenon
<1>6. blips' \in Nat
  BY <1>1, NoAnswerType, Zenon DEF PollUnreachable, WaitUnreachable, WaitReached, TypeOK, bound
<1> QED
  BY <1>1, <1>5, <1>6 DEF PollUnreachable, WaitUnreachable, WaitReached, TypeOK, IInv, bound

\* The ways to a verdict that leave everything else alone.
LEMMA DecideInv ==
  ASSUME IInv, NEW w \in Worker, Exhausted(w) \/ Unreachable(w) \/ Refused(w) \/ Identity(w)
  PROVE  IInv'
<1>1. TypeOK
  BY Zenon DEF IInv
<1>2. wk[w].pc \notin {"idle", "loaded"} /\ lock' = lock
  BY Zenon DEF Exhausted, Unreachable, Refused, Identity, Requesting
<1>3. PICK ok \in BOOLEAN : Verdict(w, ok)
  BY Zenon DEF Exhausted, Unreachable, Refused, Identity
<1>4. wk' \in [Worker -> Slot] /\ LockInv' /\ ActInv'
  BY <1>2, <1>3, VerdictInv, Zenon
<1>5. blips' \in Nat
  BY <1>1, NoAnswerType, Zenon DEF Exhausted, Unreachable, Refused, Identity, TypeOK, bound
<1> QED
  BY <1>1, <1>4, <1>5, Zenon DEF Exhausted, Unreachable, Refused, Identity, TypeOK, IInv, bound

\* A job commits, times out or dies with its worker.
LEMMA LeaveInv ==
  ASSUME IInv, NEW w \in Worker, Commit(w) \/ Timeout(w) \/ Crash(w)
  PROVE  IInv'
<1>1. TypeOK
  BY Zenon DEF IInv
<1>2. wk[w].act \in Action /\ row[wk[w].act] \in Row
  BY Zenon DEF Commit, Timeout, Crash, IInv, ActInv, TypeOK
<1>3. ASSUME Commit(w) PROVE IInv'
  <2>1. lock = w /\ lock' = None /\ wk' = [wk EXCEPT ![w] = IdleSlot]
    BY <1>3, Working, Zenon DEF Commit
  <2>2. wk' \in [Worker -> Slot] /\ LockInv' /\ ActInv' /\ lock' \in Worker \cup {None}
    BY <2>1, EndInv, Zenon
  <2> DEFINE st == IF wk[w].ok THEN "done" ELSE "failed"
  <2>3. st \in {"done", "failed"}
    BY Zenon
  <2>4. row' = [row EXCEPT ![wk[w].act] = [row[wk[w].act] EXCEPT !.status = st]]
    BY <1>3, Zenon DEF Commit
  <2> HIDE DEF st
  <2>5. [row[wk[w].act] EXCEPT !.status = st] \in Row
    BY <1>2, <2>3, Zenon DEF Row
  <2>6. row' \in [Action -> Row]
    BY <1>1, <1>2, <2>4, <2>5, Zenon DEF TypeOK
  <2> QED
    BY <1>1, <1>3, <2>2, <2>6, Zenon DEF Commit, TypeOK, IInv, bound
<1>4. ASSUME Timeout(w) PROVE IInv'
  <2>1. wk' \in [Worker -> Slot] /\ LockInv' /\ ActInv' /\ lock' \in Worker \cup {None}
    BY <1>4, EndInv, ZenonT(30) DEF Timeout
  <2> QED
    BY <1>1, <1>4, <2>1 DEF Timeout, TypeOK, IInv
<1>5. ASSUME Crash(w) PROVE IInv'
  <2>1. wk' \in [Worker -> Slot] /\ LockInv' /\ ActInv' /\ lock' \in Worker \cup {None}
    BY <1>5, EndInv, Zenon DEF Crash
  <2>2. queue' \in [Action -> Nat]
    BY <1>1, <1>2, <1>5 DEF Crash, Enqueue, TypeOK
  <2> QED
    BY <1>1, <1>5, <2>1, <2>2 DEF Crash, TypeOK, IInv
<1> QED
  BY <1>3, <1>4, <1>5, Zenon

\* Every step preserves the invariant.
LEMMA NextInv == IInv /\ [Next]_vars => IInv'
<1>1. ASSUME IInv, Next PROVE IInv'
  <2>1. ASSUME NEW w \in Worker, Job(w) \/ Timeout(w) \/ Crash(w) PROVE IInv'
    BY <1>1, <2>1, StartInv, OperateInv, PollInv, WaitInv, DecideInv, LeaveInv, Zenon DEF Job
  <2> QED
    BY <1>1, <2>1, HandlersInv, FirewallInv, Zenon DEF Next
<1>2. ASSUME IInv, UNCHANGED vars PROVE IInv'
  BY <1>2, JobsFrame, Zenon DEF IInv, TypeOK, vars, bound
<1> QED
  BY <1>1, <1>2, Zenon

\* Type correctness of create_firmware_action, run_firmware_action, the sweeper and the firewall: a
\* job is only taken from the queue if it was put there.
THEOREM FirmwareTypes == Spec => []TypeOK
<1>1. IInv => TypeOK
  BY Zenon DEF IInv
<1> QED
  BY InitInv, NextInv, <1>1, PTL DEF Spec

\* pg_try_advisory_xact_lock in run_firmware_action: at any time at most one job of the device is
\* past it, whatever crashes, timeouts, duplicates and reboots happen.
THEOREM FirmwareExclusion == Spec => []OneJobAtATime
<1>1. IInv => OneJobAtATime
  BY Zenon DEF IInv, LockInv, OneJobAtATime
<1> QED
  BY InitInv, NextInv, <1>1, PTL DEF Spec

(***************************************************************************)
(* The operations the jobs wait for                                        *)
(***************************************************************************)

\* What PolledToTheEnd rests on: only reboots make the firewall unreachable, nobody but the jobs
\* starts operations on it, and STARTUP_GRACE_POLLS is longer than an operation takes to start.
Calm == MaxBlips = 0 /\ MaxChecks = 0 /\ StartLimit < Grace

InstallsOnly == \A a \in Action : issued[a] > 0 => row[a].kind = "plugin_install"

\* The firewall shows what it has.
Accurate == (dev.updates <=> dev.minor > 0) /\ (dev.offered <=> dev.major > 0)

Clear == dev.minor = 0 /\ dev.major = 0

\* The firewall: an operation in progress was issued, and as long as only installs, or only one
\* upgrade, were issued, what its last mirror check found does not hide anything.
DeviceInv ==
    /\ blips = 0 /\ checks = 0
    /\ Busy => dev.op # "none"
    /\ dev.op = "install" => \E a \in Action : issued[a] > 0 /\ row[a].kind = "plugin_install"
    /\ dev.op = "upgrade" => dev.offered
    /\ InstallsOnly =>
          /\ dev.op \in {"none", "check", "install"} /\ ~dev.reboot /\ dev.phase # "down"
          /\ (\E a \in Action : issued[a] > 0) => Accurate
          /\ dev.op = "install" => dev.minor = 0
    /\ (\E a \in Action : row[a].kind = "firmware_upgrade" /\ issued[a] > 0 /\ Alone(a)) =>
          dev.updates \/ dev.offered \/ Clear

Succeeding(k) == k.pc = "identity" \/ (k.pc = "commit" /\ k.ok)

\* A job under the lock: it takes nothing stale for the end of its operation, and what it has
\* read of the firewall is still so.
JobInv(w) ==
    LET k == wk[w]
        kind == KindOf(w)
    IN  /\ k.pc = "loaded" => k.steps = 0
        /\ k.pc \notin {"idle", "loaded"} =>
              /\ k.pc = "poll" /\ dev.phase = "queued" => ~k.seen /\ k.idle <= dev.waited
              /\ k.pc \in {"wait", "status"} \/ Succeeding(k) => ~Busy
              /\ k.pc = "post" /\ kind = "firmware_upgrade" =>
                    ~Busy /\ (dev.updates \/ dev.offered) /\ (k.op = "upgrade" => dev.offered)
              /\ k.pc = "post" /\ kind = "plugin_install" => ~Busy /\ ~dev.updates
              /\ k.pc \in {"poll", "wait"} /\ k.next = "identity" => kind # "firmware_upgrade"
              /\ k.steps > 0 \/ (k.pc \in {"poll", "wait"} /\ k.next = "check") => issued[k.act] > 0
              /\ InstallsOnly /\ k.pc \in {"poll", "wait"} /\ k.next = "status" =>
                    Accurate \/ (Busy /\ dev.op = "check")
              /\ InstallsOnly /\ (k.pc = "status" \/ (k.pc = "post" /\ kind \in {"plugin_install", "firmware_upgrade"})) =>
                    Accurate
              /\ Succeeding(k) /\ kind = "firmware_upgrade" /\ Alone(k.act) => Clear

FInv == IInv /\ DeviceInv /\ \A w \in Worker : JobInv(w)

KindsKept == \A a \in Action : row'[a].kind = row[a].kind

\* No operation of the pipeline changes what kind of action a row is.
LEMMA NextKinds ==
  ASSUME IInv, [Next]_vars
  PROVE  KindsKept
<1>0. row \in [Action -> Row] /\ \A w \in Worker : wk[w].pc # "idle" => wk[w].act \in Action
  BY Zenon DEF IInv, TypeOK, ActInv
<1>1. ASSUME NEW a \in Action, NEW st, row' = [row EXCEPT ![a].status = st]
      PROVE  KindsKept
  BY <1>0, <1>1, Zenon DEF KindsKept, Row
<1>2. ASSUME NEW a \in Action, NEW n, row' = [row EXCEPT ![a].attempts = n]
      PROVE  KindsKept
  BY <1>0, <1>2, Zenon DEF KindsKept, Row
<1>3. ASSUME UNCHANGED row
      PROVE  KindsKept
  BY <1>3, Zenon DEF KindsKept
<1>4. CASE UNCHANGED vars
  BY <1>3, <1>4, Zenon DEF vars
<1>5. ASSUME NEW a \in Action, EnqueueNew(a) \/ CommitNew(a) \/ SweepLoad(a)
      PROVE  KindsKept
  BY <1>1, <1>3, <1>5, Zenon DEF EnqueueNew, CommitNew, SweepLoad
<1>6. ASSUME NEW w \in Worker, Job(w) \/ Timeout(w) \/ Crash(w)
      PROVE  KindsKept
  <2>1. CASE Commit(w)
    BY <1>0, <1>1, <2>1, Zenon DEF Commit
  <2>2. Job(w) \/ Timeout(w) \/ Crash(w) => Commit(w) \/ UNCHANGED row
    BY ZenonT(30) DEF Job, Timeout, Crash, Load, TryLock, Check, Status, Post, Poll, Exhausted, PollUnreachable,
         WaitUnreachable, WaitReached, Unreachable, Refused, Identity
  <2> QED
    BY <1>3, <1>6, <2>1, <2>2, Zenon
<1>7. CASE Sweep
  <2>1. sw.act # None => sw.act \in Action
    BY Zenon DEF IInv, TypeOK
  <2> QED
    BY <1>1, <1>2, <1>3, <1>7, <2>1, Zenon DEF Sweep, SweepSkip, SweepRetry, SweepGiveUp
<1>8. CASE UiCheck \/ Firewall
  BY <1>3, <1>8, Zenon DEF UiCheck, Firewall, DevStart, DevFinish, DevDown, DevUp
<1> QED
  BY <1>4, <1>5, <1>6, <1>7, <1>8, Zenon DEF Next

\* As long as the firewall, the issued operations and the kinds stay, so does what is known of them.
LEMMA DeviceFrame ==
  ASSUME FInv, KindsKept, UNCHANGED <<dev, issued, blips, checks>>
  PROVE  /\ DeviceInv'
         /\ InstallsOnly' <=> InstallsOnly
         /\ \A a \in Action : Alone(a)' <=> Alone(a)
<1>1. InstallsOnly' <=> InstallsOnly
  BY Zenon DEF InstallsOnly, KindsKept
<1>2. \A a \in Action : Alone(a)' <=> Alone(a)
  BY Zenon DEF Alone
<1>3. (\E a \in Action : issued[a] > 0)' <=> \E a \in Action : issued[a] > 0
  BY Zenon
<1>4. (\E a \in Action : issued[a] > 0 /\ row[a].kind = "plugin_install")'
         <=> \E a \in Action : issued[a] > 0 /\ row[a].kind = "plugin_install"
  BY Zenon DEF KindsKept
<1>5. (\E a \in Action : row[a].kind = "firmware_upgrade" /\ issued[a] > 0 /\ Alone(a))'
         <=> \E a \in Action : row[a].kind = "firmware_upgrade" /\ issued[a] > 0 /\ Alone(a)
  BY <1>2, Zenon DEF KindsKept
<1>6. DeviceInv
  BY Zenon DEF FInv
<1>7. DeviceInv'
  BY <1>1, <1>3, <1>4, <1>5, <1>6, Zenon DEF DeviceInv, Busy, Accurate, Clear
<1> QED
  BY <1>1, <1>2, <1>7, Zenon

\* A job that is not past the lock attempt has nothing to keep.
LEMMA OtherJobs ==
  ASSUME FInv, NEW w \in Worker, wk[w].pc \notin {"idle", "loaded"} \/ lock \in {None, w},
         \A u \in Worker \ {w} : wk'[u] = wk[u]
  PROVE  \A u \in Worker \ {w} : JobInv(u)'
<1> SUFFICES ASSUME NEW u \in Worker \ {w}
             PROVE  wk'[u].pc \in {"idle", "loaded"}
  BY Zenon DEF FInv, JobInv
<1>1. lock \in {None, w}
  BY Zenon DEF FInv, IInv, LockInv
<1> QED
  BY <1>1, FirmwareAssumption, Zenon DEF FInv, IInv, LockInv

\* The slots that do not change, with the firewall as it was.
LEMMA JobFrame ==
  ASSUME FInv, KindsKept, UNCHANGED <<dev, issued, blips, checks>>, NEW u \in Worker, wk'[u] = wk[u]
  PROVE  JobInv(u)'
<1>1. JobInv(u) /\ (wk[u].pc # "idle" => wk[u].act \in Action)
  BY Zenon DEF FInv, IInv, ActInv
<1>2. CASE wk[u].pc = "idle"
  BY <1>2, Zenon DEF JobInv
<1>3. CASE wk[u].pc # "idle"
  <2>1. KindOf(u)' = KindOf(u)
    BY <1>1, <1>3, Zenon DEF KindOf, KindsKept
  <2>2. (Alone(wk[u].act))' <=> Alone(wk[u].act)
    BY Zenon DEF Alone
  <2>3. InstallsOnly' <=> InstallsOnly
    BY Zenon DEF InstallsOnly, KindsKept
  <2>4. (Busy' <=> Busy) /\ (Accurate' <=> Accurate) /\ (Clear' <=> Clear)
    BY Zenon DEF Busy, Accurate, Clear
  <2> QED
    BY <1>1, <2>1, <2>2, <2>3, <2>4 DEF JobInv, Succeeding
<1> QED
  BY <1>2, <1>3, Zenon

\* A step of one job that leaves the firewall alone.
LEMMA StillStep ==
  ASSUME FInv, KindsKept, UNCHANGED <<dev, issued, blips, checks>>, NEW w \in Worker,
         \A u \in Worker \ {w} : wk'[u] = wk[u],
         JobInv(w)'
  PROVE  DeviceInv' /\ \A u \in Worker : JobInv(u)'
BY DeviceFrame, JobFrame, Zenon

\* What is known of the job that takes a step under the lock.
LEMMA Stepping ==
  ASSUME FInv, KindsKept, NEW w \in Worker, wk[w].pc \notin {"idle", "loaded"}
  PROVE  /\ wk \in [Worker -> Slot] /\ wk[w] \in Slot /\ wk[w].act \in Action
         /\ row'[wk[w].act].kind = row[wk[w].act].kind
         /\ JobInv(w) /\ DeviceInv /\ dev \in Device /\ issued \in [Action -> Nat]
BY Working, Zenon DEF FInv, IInv, TypeOK, KindsKept

\* A request got no answer: the firewall is down, since nothing else gets lost.
LEMMA OnlyReboots ==
  ASSUME Calm, FInv, NoAnswer
  PROVE  dev.phase = "down" /\ UNCHANGED blips
<1>1. blips = 0 /\ MaxBlips = 0
  BY Zenon DEF Calm, FInv, DeviceInv
<1> QED
  BY <1>1 DEF NoAnswer

\* A job that fails keeps nothing but its past.
LEMMA FailedJob ==
  ASSUME FInv, KindsKept, NEW w \in Worker, wk[w].pc \notin {"idle", "loaded"}, Verdict(w, FALSE),
         UNCHANGED <<dev, issued, blips, checks>>
  PROVE  DeviceInv' /\ \A u \in Worker : JobInv(u)'
<1> DEFINE k == [wk[w] EXCEPT !.pc = "commit", !.ok = FALSE]
<1>1. wk \in [Worker -> Slot] /\ wk[w] \in Slot /\ JobInv(w)
  BY Stepping, Zenon
<1>2. wk' = [wk EXCEPT ![w] = k]
  BY Zenon DEF Verdict
<1>3. k.pc = "commit" /\ k.ok = FALSE /\ k.act = wk[w].act /\ k.steps = wk[w].steps
  BY <1>1, Zenon DEF Slot
<1> HIDE DEF k
<1>4. wk'[w] = k /\ \A u \in Worker \ {w} : wk'[u] = wk[u]
  BY <1>1, <1>2, Zenon
<1>5. JobInv(w)'
  BY <1>1, <1>3, <1>4, Zenon DEF JobInv, Succeeding
<1> QED
  BY <1>4, <1>5, StillStep, Zenon

\* Jobs that begin, end, or take the lock.
LEMMA EdgeSteps ==
  ASSUME FInv, KindsKept, NEW w \in Worker,
         TryLock(w) \/ Commit(w) \/ Timeout(w) \/ Crash(w) \/ \E a \in Action : Load(w, a)
  PROVE  DeviceInv' /\ \A u \in Worker : JobInv(u)'
<1>0. wk \in [Worker -> Slot] /\ IdleSlot.pc = "idle"
  BY Zenon DEF FInv, IInv, TypeOK, IdleSlot
<1>1. UNCHANGED <<dev, issued, blips, checks>>
  BY Zenon DEF TryLock, Commit, Timeout, Crash, Load, bound
<1>2. ASSUME NEW k, wk' = [wk EXCEPT ![w] = k], k.pc = "idle" \/ (k.pc = "loaded" /\ k.steps = 0)
      PROVE  DeviceInv' /\ \A u \in Worker : JobInv(u)'
  <2>1. wk'[w] = k /\ \A u \in Worker \ {w} : wk'[u] = wk[u]
    BY <1>0, <1>2, Zenon
  <2>2. JobInv(w)'
    BY <1>2, <2>1, Zenon DEF JobInv
  <2> QED
    BY <1>1, <2>1, <2>2, StillStep, Zenon
<1>3. CASE Commit(w) \/ Timeout(w) \/ Crash(w)
  BY <1>0, <1>2, <1>3, Zenon DEF Commit, Timeout, Crash
<1>4. ASSUME NEW a \in Action, Load(w, a)
      PROVE  DeviceInv' /\ \A u \in Worker : JobInv(u)'
  <2>1. CASE row[a].status = "scheduled"
    <3> DEFINE k == [IdleSlot EXCEPT !.pc = "loaded", !.act = a]
    <3>1. k.pc = "loaded" /\ k.steps = 0
      BY Zenon DEF IdleSlot
    <3>2. wk' = [wk EXCEPT ![w] = k]
      BY <1>4, <2>1, Zenon DEF Load
    <3> HIDE DEF k
    <3> QED
      BY <1>2, <3>1, <3>2, Zenon
  <2>2. CASE row[a].status # "scheduled"
    <3>1. UNCHANGED wk
      BY <1>4, <2>2, Zenon DEF Load
    <3>2. \A u \in Worker : wk'[u] = wk[u]
      BY <3>1, Zenon
    <3> QED
      BY <1>1, <3>2, JobFrame, DeviceFrame, Zenon
  <2> QED
    BY <2>1, <2>2, Zenon
<1>5. CASE TryLock(w)
  <2>1. CASE lock # None
    BY <1>0, <1>2, <1>5, <2>1, Zenon DEF TryLock
  <2>2. CASE lock = None
    <3> DEFINE pc == IF KindOf(w) \in {"plugin_install", "firmware_upgrade"} THEN "check" ELSE "post"
               k == [wk[w] EXCEPT !.pc = pc]
    <3>1. wk' = [wk EXCEPT ![w] = k] /\ wk[w].pc = "loaded" /\ wk[w] \in Slot
      BY <1>0, <1>5, <2>2, Zenon DEF TryLock, Goto
    <3>2. wk[w].act \in Action
      BY <3>1, Zenon DEF FInv, IInv, ActInv
    <3>3. row'[wk[w].act].kind = row[wk[w].act].kind
      BY <3>2, Zenon DEF KindsKept
    <3>4. k.pc = pc /\ k.act = wk[w].act /\ k.steps = wk[w].steps
      BY <3>1, Zenon DEF Slot
    <3>5. pc = "check" \/ (pc = "post" /\ KindOf(w) \notin {"plugin_install", "firmware_upgrade"})
      BY Zenon
    <3> HIDE DEF k, pc
    <3>6. wk'[w] = k /\ \A u \in Worker \ {w} : wk'[u] = wk[u]
      BY <1>0, <3>1, Zenon
    <3>7. KindOf(w)' = KindOf(w)
      BY <3>3, <3>4, <3>6, Zenon DEF KindOf
    <3>8. wk[w].steps = 0
      BY <3>1, Zenon DEF FInv, JobInv
    <3>9. JobInv(w)'
      BY <3>4, <3>5, <3>6, <3>7, <3>8 DEF JobInv, Succeeding
    <3> QED
      BY <1>1, <3>6, <3>9, StillStep, Zenon
  <2> QED
    BY <2>1, <2>2, Zenon
<1> QED
  BY <1>3, <1>4, <1>5, Zenon

\* A job that reads the firewall's status.
LEMMA StatusStep ==
  ASSUME FInv, KindsKept, NEW w \in Worker, Status(w)
  PROVE  DeviceInv' /\ \A u \in Worker : JobInv(u)'
<1>1. /\ wk[w].pc = "status" /\ UNCHANGED <<dev, issued, blips, checks>>
  BY Zenon DEF Status, bound
<1>2. /\ wk \in [Worker -> Slot] /\ wk[w] \in Slot /\ wk[w].act \in Action /\ JobInv(w) /\ DeviceInv
      /\ row'[wk[w].act].kind = row[wk[w].act].kind
  BY <1>1, Stepping, Zenon
<1>3. /\ ~Busy /\ (wk[w].steps > 0 => issued[wk[w].act] > 0)
      /\ InstallsOnly => Accurate
  BY <1>1, <1>2, Zenon DEF JobInv
<1>4. (Busy' <=> Busy) /\ (Accurate' <=> Accurate) /\ (Clear' <=> Clear)
  BY <1>1, Zenon DEF Busy, Accurate, Clear
<1>5. (InstallsOnly' <=> InstallsOnly) /\ \A a \in Action : Alone(a)' <=> Alone(a)
  BY <1>1, DeviceFrame, Zenon
<1>6. CASE Verdict(w, FALSE)
  BY <1>1, <1>6, FailedJob, Zenon
<1>7. ASSUME NEW k, wk' = [wk EXCEPT ![w] = k], k.act = wk[w].act, k.steps = wk[w].steps,
             \/ /\ k.pc = "post"
                /\ KindOf(w) = "firmware_upgrade" =>
                      (dev.updates \/ dev.offered) /\ (k.op = "upgrade" => dev.offered)
                /\ KindOf(w) = "plugin_install" => ~dev.updates
             \/ k.pc = "identity" /\ (KindOf(w) = "firmware_upgrade" => ~dev.updates /\ ~dev.offered)
      PROVE  DeviceInv' /\ \A u \in Worker : JobInv(u)'
  <2>1. wk'[w] = k /\ \A u \in Worker \ {w} : wk'[u] = wk[u]
    BY <1>2, <1>7, Zenon
  <2>2. KindOf(w)' = KindOf(w)
    BY <1>2, <1>7, <2>1, Zenon DEF KindOf
  <2>3. ASSUME k.pc = "identity", KindOf(w) = "firmware_upgrade", Alone(wk[w].act)
        PROVE  Clear
    <3>1. ~dev.updates /\ ~dev.offered
      BY <1>7, <2>3, Zenon
    <3>2. CASE issued[wk[w].act] > 0
      BY <1>2, <2>3, <3>1, <3>2, Zenon DEF DeviceInv, KindOf
    <3>3. CASE ~(issued[wk[w].act] > 0)
      <4>1. InstallsOnly
        BY <1>2, <2>3, <3>3 DEF InstallsOnly, Alone
      <4>2. dev.minor \in Nat /\ dev.major \in Nat
        BY Stepping, <1>1, Zenon DEF Device
      <4> QED
        BY <1>3, <3>1, <4>1, <4>2 DEF Accurate, Clear
    <3> QED
      BY <3>2, <3>3, Zenon
  <2>4. JobInv(w)'
    BY <1>1, <1>2, <1>3, <1>4, <1>5, <1>7, <2>1, <2>2, <2>3, Zenon DEF JobInv, Succeeding
  <2> QED
    BY <1>1, <2>1, <2>4, StillStep, Zenon
<1>8. ASSUME NEW pc \in {"post", "identity"}, Goto(w, pc),
             pc = "post" => KindOf(w) = "plugin_install" /\ ~dev.updates,
             pc = "identity" => ~dev.updates /\ ~dev.offered
      PROVE  DeviceInv' /\ \A u \in Worker : JobInv(u)'
  <2> DEFINE k == [wk[w] EXCEPT !.pc = pc]
  <2>1. wk' = [wk EXCEPT ![w] = k]
    BY <1>8, Zenon DEF Goto
  <2>2. k.pc = pc /\ k.act = wk[w].act /\ k.steps = wk[w].steps
    BY <1>2, Zenon DEF Slot
  <2> HIDE DEF k
  <2> QED
    BY <1>7, <1>8, <2>1, <2>2, Zenon
<1>9. ASSUME NEW op \in {"update", "upgrade"}, wk' = [wk EXCEPT ![w].pc = "post", ![w].op = op],
             KindOf(w) # "plugin_install", dev.updates \/ dev.offered, op = "upgrade" => dev.offered
      PROVE  DeviceInv' /\ \A u \in Worker : JobInv(u)'
  <2> DEFINE k == [wk[w] EXCEPT !.pc = "post", !.op = op]
  <2>1. wk' = [wk EXCEPT ![w] = k]
    BY <1>9, Zenon
  <2>2. k.pc = "post" /\ k.op = op /\ k.act = wk[w].act /\ k.steps = wk[w].steps
    BY <1>2, Zenon DEF Slot
  <2> HIDE DEF k
  <2> QED
    BY <1>7, <1>9, <2>1, <2>2, Zenon
<1>10. CASE KindOf(w) = "plugin_install"
  BY <1>6, <1>8, <1>10, Zenon DEF Status
<1>11. CASE KindOf(w) # "plugin_install" /\ (dev.updates \/ dev.offered)
  <2>1. wk' = [wk EXCEPT ![w].pc = "post", ![w].op = IF dev.offered THEN "upgrade" ELSE "update"]
    BY <1>11, Zenon DEF Status
  <2>2. CASE dev.offered
    BY <1>9, <1>11, <2>1, <2>2, Zenon
  <2>3. CASE ~dev.offered
    BY <1>9, <1>11, <2>1, <2>3, Zenon
  <2> QED
    BY <2>2, <2>3, Zenon
<1>12. CASE KindOf(w) # "plugin_install" /\ ~dev.updates /\ ~dev.offered
  BY <1>8, <1>12, Zenon DEF Status
<1> QED
  BY <1>10, <1>11, <1>12, Zenon

\* A job that waits for the firewall to come back, and one that has read its identity.
LEMMA WaitSteps ==
  ASSUME Calm, FInv, KindsKept, NEW w \in Worker,
         PollUnreachable(w) \/ WaitUnreachable(w) \/ WaitReached(w) \/ Identity(w)
  PROVE  DeviceInv' /\ \A u \in Worker : JobInv(u)'
<1>0. wk[w].pc \notin {"idle", "loaded"}
  BY Zenon DEF PollUnreachable, WaitUnreachable, WaitReached, Identity
<1>1. UNCHANGED <<dev, issued, blips, checks>>
  BY OnlyReboots, Zenon DEF PollUnreachable, WaitUnreachable, WaitReached, Identity, bound
<1>2. /\ wk \in [Worker -> Slot] /\ wk[w] \in Slot /\ wk[w].act \in Action /\ JobInv(w)
      /\ row'[wk[w].act].kind = row[wk[w].act].kind
  BY <1>0, Stepping, Zenon
<1>4. (Busy' <=> Busy) /\ (Accurate' <=> Accurate) /\ (Clear' <=> Clear)
  BY <1>1, Zenon DEF Busy, Accurate, Clear
<1>5. (InstallsOnly' <=> InstallsOnly) /\ \A a \in Action : Alone(a)' <=> Alone(a)
  BY <1>1, DeviceFrame, Zenon
<1>6. ASSUME NEW k, wk' = [wk EXCEPT ![w] = k], k.act = wk[w].act, k.steps = wk[w].steps, k.next = wk[w].next,
             \/ k.pc \in {"poll", "wait"} /\ wk[w].pc \in {"poll", "wait"} /\ ~Busy
             \/ k.pc = "commit" /\ wk[w].pc = "identity"
      PROVE  DeviceInv' /\ \A u \in Worker : JobInv(u)'
  <2>1. wk'[w] = k /\ \A u \in Worker \ {w} : wk'[u] = wk[u]
    BY <1>2, <1>6, Zenon
  <2>2. KindOf(w)' = KindOf(w)
    BY <1>2, <1>6, <2>1, Zenon DEF KindOf
  <2>3. ~Busy /\ dev.phase # "queued"
    BY <1>2, <1>6, Zenon DEF JobInv, Succeeding, Busy
  <2>4. JobInv(w)'
    BY <1>1, <1>2, <1>4, <1>5, <1>6, <2>1, <2>2, <2>3, Zenon DEF JobInv, Succeeding
  <2> QED
    BY <1>1, <2>1, <2>4, StillStep, Zenon
<1>7. CASE PollUnreachable(w)
  <2> DEFINE k == [wk[w] EXCEPT !.pc = "wait", !.waits = 0]
  <2>1. wk' = [wk EXCEPT ![w] = k] /\ wk[w].pc = "poll" /\ dev.phase = "down"
    BY <1>7, OnlyReboots, Zenon DEF PollUnreachable
  <2>2. k.pc = "wait" /\ k.act = wk[w].act /\ k.steps = wk[w].steps /\ k.next = wk[w].next
    BY <1>2, Zenon DEF Slot
  <2> HIDE DEF k
  <2> QED
    BY <1>6, <2>1, <2>2, Zenon DEF Busy
<1>8. CASE WaitUnreachable(w)
  <2> DEFINE k == [wk[w] EXCEPT !.waits = @ + 1]
  <2>1. wk' = [wk EXCEPT ![w] = k] /\ wk[w].pc = "wait" /\ dev.phase = "down"
    BY <1>8, OnlyReboots, Zenon DEF WaitUnreachable
  <2>2. k.pc = "wait" /\ k.act = wk[w].act /\ k.steps = wk[w].steps /\ k.next = wk[w].next
    BY <1>2, <2>1, Zenon DEF Slot
  <2> HIDE DEF k
  <2> QED
    BY <1>6, <2>1, <2>2, Zenon DEF Busy
<1>9. CASE WaitReached(w)
  <2> DEFINE k == [wk[w] EXCEPT !.pc = "poll", !.seen = TRUE, !.polls = @ + 1]
  <2>1. wk' = [wk EXCEPT ![w] = k] /\ wk[w].pc = "wait"
    BY <1>9, Zenon DEF WaitReached
  <2>2. k.pc = "poll" /\ k.act = wk[w].act /\ k.steps = wk[w].steps /\ k.next = wk[w].next
    BY <1>2, Zenon DEF Slot
  <2> HIDE DEF k
  <2>3. ~Busy
    BY <1>2, <2>1, Zenon DEF JobInv
  <2> QED
    BY <1>6, <2>1, <2>2, <2>3, Zenon
<1>10. CASE Identity(w)
  <2> DEFINE k == [wk[w] EXCEPT !.pc = "commit", !.ok = TRUE]
  <2>1. wk' = [wk EXCEPT ![w] = k] /\ wk[w].pc = "identity"
    BY <1>10, Zenon DEF Identity, Verdict
  <2>2. k.pc = "commit" /\ k.act = wk[w].act /\ k.steps = wk[w].steps /\ k.next = wk[w].next
    BY <1>2, Zenon DEF Slot
  <2> HIDE DEF k
  <2> QED
    BY <1>6, <2>1, <2>2, Zenon
<1> QED
  BY <1>7, <1>8, <1>9, <1>10, Zenon

\* A job that gives up.
LEMMA FailSteps ==
  ASSUME Calm, FInv, KindsKept, NEW w \in Worker, Exhausted(w) \/ Unreachable(w) \/ Refused(w)
  PROVE  DeviceInv' /\ \A u \in Worker : JobInv(u)'
<1>1. wk[w].pc \notin {"idle", "loaded"} /\ Verdict(w, FALSE)
  BY Zenon DEF Exhausted, Unreachable, Refused, Requesting
<1>2. UNCHANGED <<dev, issued, blips, checks>>
  BY OnlyReboots, Zenon DEF Exhausted, Unreachable, Refused, bound
<1> QED
  BY <1>1, <1>2, FailedJob, Zenon

\* A job that asks for a mirror check and begins to poll.
LEMMA CheckStep ==
  ASSUME FInv, KindsKept, NEW w \in Worker, Check(w)
  PROVE  DeviceInv' /\ \A u \in Worker : JobInv(u)'
<1>1. wk[w].pc = "check" /\ UNCHANGED <<issued, blips, checks>> /\ Take("check")
  BY Zenon DEF Check, bound
<1>2. /\ wk \in [Worker -> Slot] /\ wk[w] \in Slot /\ wk[w].act \in Action /\ JobInv(w) /\ DeviceInv
      /\ row'[wk[w].act].kind = row[wk[w].act].kind /\ dev \in Device
  BY <1>1, Stepping, Zenon
<1> DEFINE k == [wk[w] EXCEPT !.pc = "poll", !.next = "status", !.polls = 0, !.idle = 0, !.seen = FALSE]
<1>3. wk' = [wk EXCEPT ![w] = k]
  BY Zenon DEF Check, ThenPoll
<1>4. /\ k.pc = "poll" /\ k.next = "status" /\ k.idle = 0 /\ k.seen = FALSE /\ k.act = wk[w].act
      /\ k.steps = wk[w].steps
  BY <1>2, Zenon DEF Slot
<1> HIDE DEF k
<1>5. wk'[w] = k /\ \A u \in Worker \ {w} : wk'[u] = wk[u]
  BY <1>2, <1>3, Zenon
<1>6. KindOf(w)' = KindOf(w)
  BY <1>2, <1>4, <1>5, Zenon DEF KindOf
<1>7. \A u \in Worker \ {w} : JobInv(u)'
  BY <1>1, <1>5, OtherJobs, Zenon
<1>8. CASE Busy
  <2>1. UNCHANGED dev
    BY <1>1, <1>8, Zenon DEF Take
  <2>2. DeviceInv' /\ (InstallsOnly' <=> InstallsOnly)
    BY <1>1, <2>1, DeviceFrame, Zenon
  <2>3. InstallsOnly => Accurate \/ dev.op = "check"
    BY <1>2, <1>8, Zenon DEF DeviceInv
  <2>4. dev.waited \in Nat
    BY <1>2, Zenon DEF Device
  <2>5. JobInv(w)'
    BY <1>1, <1>2, <1>4, <1>5, <1>6, <1>8, <2>1, <2>2, <2>3, <2>4 DEF JobInv, Succeeding, Accurate, Busy
  <2> QED
    BY <1>7, <2>2, <2>5, Zenon
<1>9. CASE ~Busy
  <2>1. dev' = [dev EXCEPT !.op = "check", !.phase = "queued", !.waited = 0]
    BY <1>1, <1>9, Zenon DEF Take
  <2>2. /\ dev'.op = "check" /\ dev'.phase = "queued" /\ dev'.waited = 0 /\ dev'.minor = dev.minor
        /\ dev'.major = dev.major /\ dev'.updates = dev.updates /\ dev'.offered = dev.offered
        /\ dev'.reboot = dev.reboot
    BY <1>2, <2>1, Zenon DEF Device
  <2>3. (InstallsOnly' <=> InstallsOnly) /\ \A a \in Action : Alone(a)' <=> Alone(a)
    BY <1>1, Zenon DEF InstallsOnly, Alone, KindsKept
  <2>4. (\E a \in Action : row[a].kind = "firmware_upgrade" /\ issued[a] > 0 /\ Alone(a))'
           <=> \E a \in Action : row[a].kind = "firmware_upgrade" /\ issued[a] > 0 /\ Alone(a)
    BY <1>1, <2>3, Zenon DEF KindsKept
  <2>5. DeviceInv'
    BY <1>1, <1>2, <2>2, <2>3, <2>4, Zenon DEF DeviceInv, Busy, Accurate, Clear
  <2>6. JobInv(w)'
    BY <1>1, <1>2, <1>4, <1>5, <1>6, <2>2 DEF JobInv, Succeeding, Busy
  <2> QED
    BY <1>7, <2>5, <2>6, Zenon
<1> QED
  BY <1>8, <1>9, Zenon

\* A job that issues its operation.
LEMMA PostStep ==
  ASSUME FInv, KindsKept, NEW w \in Worker, Post(w)
  PROVE  DeviceInv' /\ \A u \in Worker : JobInv(u)'
<1> DEFINE a == wk[w].act
           next == IF KindOf(w) = "firmware_upgrade" THEN "check" ELSE "identity"
<1>1. /\ wk[w].pc = "post" /\ UNCHANGED <<blips, checks>> /\ Take(Operation(w))
      /\ issued' = [issued EXCEPT ![a] = IF wk[w].steps = 0 THEN @ + 1 ELSE @]
      /\ ThenPoll(w, next) \/ Verdict(w, FALSE)
  BY Zenon DEF Post
<1>2. /\ wk \in [Worker -> Slot] /\ wk[w] \in Slot /\ a \in Action /\ JobInv(w) /\ DeviceInv
      /\ row'[a].kind = row[a].kind /\ dev \in Device /\ issued \in [Action -> Nat] /\ row[a] \in Row
  BY <1>1, Stepping, Working, Zenon DEF FInv
<1>3. /\ issued'[a] > 0 /\ \A b \in Action : issued[b] > 0 => issued'[b] > 0
      /\ \A b \in Action \ {a} : issued'[b] = issued[b]
  <2>1. wk[w].steps \in Nat /\ (wk[w].steps > 0 => issued[a] > 0)
    BY <1>1, <1>2, Zenon DEF JobInv, Slot
  <2>2. \A b \in Action \ {a} : issued'[b] = issued[b]
    BY <1>1, <1>2, Zenon
  <2>3. issued'[a] = IF wk[w].steps = 0 THEN issued[a] + 1 ELSE issued[a]
    BY <1>1, <1>2, Zenon
  <2>4. issued[a] \in Nat
    BY <1>2, Zenon
  <2>5. issued'[a] > 0
    BY <2>1, <2>3, <2>4
  <2> QED
    BY <2>2, <2>5, Zenon
<1>4. PICK k : /\ wk' = [wk EXCEPT ![w] = k] /\ k.act = a /\ k.steps = wk[w].steps
               /\ \/ k.pc = "poll" /\ k.next = next /\ k.idle = 0 /\ k.seen = FALSE
                  \/ k.pc = "commit" /\ k.ok = FALSE
  <2>1. CASE Verdict(w, FALSE)
    <3> DEFINE k == [wk[w] EXCEPT !.pc = "commit", !.ok = FALSE]
    <3>1. wk' = [wk EXCEPT ![w] = k]
      BY <2>1, Zenon DEF Verdict
    <3>2. k.pc = "commit" /\ k.ok = FALSE /\ k.act = a /\ k.steps = wk[w].steps
      BY <1>2, Zenon DEF Slot
    <3> QED
      BY <3>1, <3>2, Zenon
  <2>2. CASE ThenPoll(w, next)
    <3> DEFINE k == [wk[w] EXCEPT !.pc = "poll", !.next = next, !.polls = 0, !.idle = 0, !.seen = FALSE]
    <3>1. wk' = [wk EXCEPT ![w] = k]
      BY <2>2, Zenon DEF ThenPoll
    <3>2. k.pc = "poll" /\ k.next = next /\ k.idle = 0 /\ k.seen = FALSE /\ k.act = a /\ k.steps = wk[w].steps
      BY <1>2, Zenon DEF Slot
    <3> QED
      BY <3>1, <3>2, Zenon
  <2> QED
    BY <1>1, <2>1, <2>2, Zenon
<1>5. wk'[w] = k /\ \A u \in Worker \ {w} : wk'[u] = wk[u]
  BY <1>2, <1>4, Zenon
<1>6. \A u \in Worker \ {w} : JobInv(u)'
  BY <1>1, <1>5, OtherJobs, Zenon
<1>7. KindOf(w)' = KindOf(w) /\ KindOf(w) = row[a].kind
  BY <1>2, <1>4, <1>5, Zenon DEF KindOf
<1>8. /\ dev'.minor = dev.minor /\ dev'.major = dev.major /\ dev'.updates = dev.updates
      /\ dev'.offered = dev.offered /\ dev'.reboot = dev.reboot
      /\ \/ UNCHANGED dev /\ Busy
         \/ dev'.op = Operation(w) /\ dev'.phase = "queued" /\ dev'.waited = 0 /\ ~Busy
  <2>1. CASE Busy
    BY <1>1, <2>1, Zenon DEF Take
  <2>2. CASE ~Busy
    <3>1. dev' = [dev EXCEPT !.op = Operation(w), !.phase = "queued", !.waited = 0]
      BY <1>1, <2>2, Zenon DEF Take
    <3> QED
      BY <1>2, <2>2, <3>1, Zenon DEF Device
  <2> QED
    BY <2>1, <2>2, Zenon
<1>9. (Accurate' <=> Accurate) /\ (Clear' <=> Clear)
  BY <1>8, Zenon DEF Accurate, Clear
<1>10. /\ Operation(w) # "none" /\ Operation(w) # "check"
       /\ Operation(w) = "install" => KindOf(w) = "plugin_install"
       /\ KindOf(w) = "plugin_install" => Operation(w) = "install"
       /\ Operation(w) = "upgrade" => KindOf(w) = "firmware_upgrade" /\ wk[w].op = "upgrade"
  <2>1. wk[w].op \in {"update", "upgrade"} /\ KindOf(w) \in Kind
    BY <1>2, <1>7, Zenon DEF Row, Slot
  <2>3. CASE KindOf(w) = "firmware_update"
    BY <2>3, Zenon DEF Operation
  <2>4. CASE KindOf(w) = "firmware_upgrade"
    BY <2>1, <2>4, Zenon DEF Operation
  <2>5. CASE KindOf(w) = "plugin_install"
    BY <2>5, Zenon DEF Operation
  <2>6. CASE KindOf(w) = "plugin_remove"
    BY <2>6, Zenon DEF Operation
  <2> QED
    BY <2>1, <2>3, <2>4, <2>5, <2>6, Zenon DEF Kind
<1>11. InstallsOnly' => InstallsOnly /\ KindOf(w) = "plugin_install"
  BY <1>2, <1>3, <1>7, Zenon DEF InstallsOnly, KindsKept
<1>12. JobInv(w)'
  <2>1. dev.waited \in Nat
    BY <1>2, Zenon DEF Device
  <2>2. ASSUME k.pc = "poll", dev'.phase = "queued"
        PROVE  ~k.seen /\ k.idle <= dev'.waited
    BY <1>4, <1>8, <2>1, <2>2
  <2> QED
    BY <1>3, <1>4, <1>5, <1>7, <2>2, Zenon DEF JobInv, Succeeding
<1>13. DeviceInv'
  <2>1. Busy' => dev'.op # "none"
    BY <1>2, <1>8, <1>10, Zenon DEF DeviceInv, Busy
  <2>2. dev'.op = "install" => (\E b \in Action : issued[b] > 0 /\ row[b].kind = "plugin_install")'
    <3>1. CASE UNCHANGED dev
      <4>1. dev.op = "install" => \E b \in Action : issued[b] > 0 /\ row[b].kind = "plugin_install"
        BY <1>2, Zenon DEF DeviceInv
      <4> QED
        BY <1>3, <3>1, <4>1, Zenon DEF KindsKept
    <3>2. CASE dev'.op = Operation(w)
      BY <1>2, <1>3, <1>7, <1>10, <3>2, Zenon
    <3> QED
      BY <1>8, <3>1, <3>2, Zenon
  <2>3. dev'.op = "upgrade" => dev'.offered
    BY <1>1, <1>2, <1>8, <1>10, Zenon DEF DeviceInv, JobInv
  <2>4. ASSUME InstallsOnly'
        PROVE  /\ dev'.op \in {"none", "check", "install"} /\ ~dev'.reboot /\ dev'.phase # "down"
               /\ Accurate'
               /\ dev'.op = "install" => dev'.minor = 0
    <3>1. InstallsOnly /\ KindOf(w) = "plugin_install"
      BY <1>11, <2>4, Zenon
    <3>2. Accurate /\ ~Busy /\ ~dev.updates
      BY <1>1, <1>2, <3>1, Zenon DEF JobInv
    <3>3. dev.minor = 0
      <4>1. dev.minor \in Nat
        BY <1>2, Zenon DEF Device
      <4> QED
        BY <3>2, <4>1 DEF Accurate
    <3>4. dev'.op = "install" /\ dev'.phase = "queued" /\ ~dev.reboot
      BY <1>2, <1>8, <1>10, <3>1, <3>2, Zenon DEF DeviceInv
    <3> QED
      BY <1>8, <1>9, <3>2, <3>3, <3>4, Zenon
  <2>5. ASSUME NEW b \in Action, row'[b].kind = "firmware_upgrade", issued'[b] > 0, Alone(b)'
        PROVE  dev'.updates \/ dev'.offered \/ Clear'
    <3>1. b = a
      BY <1>2, <1>3, <2>5 DEF Alone
    <3>2. dev.updates \/ dev.offered
      BY <1>1, <1>2, <1>7, <2>5, <3>1, Zenon DEF JobInv
    <3> QED
      BY <1>8, <3>2, Zenon
  <2>6. (\E b \in Action : row[b].kind = "firmware_upgrade" /\ issued[b] > 0 /\ Alone(b))' =>
           dev'.updates \/ dev'.offered \/ Clear'
    BY <2>5, Zenon
  <2>7. blips' = 0 /\ checks' = 0
    BY <1>1, <1>2, Zenon DEF DeviceInv
  <2> QED
    BY <2>1, <2>2, <2>3, <2>4, <2>6, <2>7, Zenon DEF DeviceInv
<1> QED
  BY <1>6, <1>12, <1>13, Zenon

\* A poll: as the firewall starts an operation within StartLimit polls and STARTUP_GRACE_POLLS is
\* longer, a job stops polling only when no operation is left.
LEMMA PollStep ==
  ASSUME Calm, FInv, KindsKept, NEW w \in Worker, Poll(w)
  PROVE  /\ wk'[w].pc # "poll" => ~Busy
         /\ DeviceInv' /\ \A u \in Worker : JobInv(u)'
<1>1. wk[w].pc = "poll" /\ UNCHANGED <<issued, blips, checks>> /\ dev.phase # "down"
  BY Zenon DEF Poll, Reads, bound
<1>2. /\ wk \in [Worker -> Slot] /\ wk[w] \in Slot /\ wk[w].act \in Action /\ JobInv(w) /\ DeviceInv
      /\ row'[wk[w].act].kind = row[wk[w].act].kind /\ dev \in Device
  BY <1>1, Stepping, Zenon
<1>3. wk[w].idle \in Nat /\ dev.waited \in Nat /\ Grace \in Nat /\ StartLimit \in Nat /\ StartLimit < Grace
  BY <1>2, FirmwareAssumption, Zenon DEF Slot, Device, Calm
<1>4. dev.phase = "queued" => /\ ~wk[w].seen /\ wk[w].idle <= dev.waited /\ dev.waited < StartLimit
  BY <1>1, <1>2, Zenon DEF JobInv, Poll, Reads
<1>5. /\ dev'.op = dev.op /\ dev'.phase = dev.phase /\ dev'.minor = dev.minor /\ dev'.major = dev.major
      /\ dev'.updates = dev.updates /\ dev'.offered = dev.offered /\ dev'.reboot = dev.reboot
      /\ dev.phase = "queued" => dev'.waited = dev.waited + 1
  <2>1. CASE dev.phase = "queued"
    <3>1. dev' = [dev EXCEPT !.waited = @ + 1]
      BY <2>1, Zenon DEF Poll, Reads
    <3> QED
      BY <1>2, <3>1, Zenon DEF Device
  <2>2. CASE dev.phase # "queued"
    BY <2>2, Zenon DEF Poll, Reads
  <2> QED
    BY <2>1, <2>2, Zenon
<1>6. /\ (InstallsOnly' <=> InstallsOnly) /\ (Busy' <=> Busy) /\ (Accurate' <=> Accurate) /\ (Clear' <=> Clear)
      /\ \A a \in Action : Alone(a)' <=> Alone(a)
  BY <1>1, <1>5, Zenon DEF InstallsOnly, KindsKept, Busy, Accurate, Clear, Alone
<1>7. DeviceInv'
  <2>1. (\E a \in Action : issued[a] > 0 /\ row[a].kind = "plugin_install")'
           <=> \E a \in Action : issued[a] > 0 /\ row[a].kind = "plugin_install"
    BY <1>1, Zenon DEF KindsKept
  <2>2. (\E a \in Action : row[a].kind = "firmware_upgrade" /\ issued[a] > 0 /\ Alone(a))'
           <=> \E a \in Action : row[a].kind = "firmware_upgrade" /\ issued[a] > 0 /\ Alone(a)
    BY <1>1, <1>6, Zenon DEF KindsKept
  <2>3. (\E a \in Action : issued[a] > 0)' <=> \E a \in Action : issued[a] > 0
    BY <1>1, Zenon
  <2> QED
    BY <1>1, <1>2, <1>5, <1>6, <2>1, <2>2, <2>3, Zenon DEF DeviceInv
<1>8. ASSUME NEW k, wk' = [wk EXCEPT ![w] = k], k.act = wk[w].act,
             k.pc # "poll" => ~Busy,
             JobInv(w)'
      PROVE  /\ wk'[w].pc # "poll" => ~Busy
             /\ DeviceInv' /\ \A u \in Worker : JobInv(u)'
  <2>1. wk'[w] = k /\ \A u \in Worker \ {w} : wk'[u] = wk[u]
    BY <1>2, <1>8, Zenon
  <2>2. \A u \in Worker \ {w} : JobInv(u)'
    BY <1>1, <2>1, OtherJobs, Zenon
  <2> QED
    BY <1>7, <1>8, <2>1, <2>2, Zenon
<1>9. CASE dev.phase = "running"
  <2> DEFINE k == [wk[w] EXCEPT !.seen = TRUE, !.idle = 0, !.polls = @ + 1]
  <2>1. wk' = [wk EXCEPT ![w] = k]
    BY <1>9, Zenon DEF Poll
  <2>2. k.pc = "poll" /\ k.act = wk[w].act /\ k.steps = wk[w].steps /\ k.next = wk[w].next
    BY <1>1, <1>2, Zenon DEF Slot
  <2> HIDE DEF k
  <2>3. wk'[w] = k
    BY <1>2, <2>1, Zenon
  <2>4. KindOf(w)' = KindOf(w)
    BY <1>2, <2>2, <2>3, Zenon DEF KindOf
  <2>5. JobInv(w)'
    BY <1>1, <1>2, <1>5, <1>6, <1>9, <2>2, <2>3, <2>4, Zenon DEF JobInv, Succeeding
  <2> QED
    BY <1>1, <1>8, <2>1, <2>2, <2>5, Zenon
<1>10. CASE dev.phase # "running" /\ (wk[w].seen \/ wk[w].idle + 1 >= Grace)
  <2>1. dev.phase # "queued"
    BY <1>3, <1>4, <1>10
  <2>2. ~Busy
    BY <1>10, <2>1, Zenon DEF Busy
  <2> DEFINE k == [wk[w] EXCEPT !.pc = wk[w].next, !.steps = IF wk[w].next = "check" THEN @ + 1 ELSE @]
  <2>3. wk' = [wk EXCEPT ![w] = k]
    BY <1>10, Zenon DEF Poll, Polled
  <2>4. /\ k.pc = wk[w].next /\ k.act = wk[w].act /\ k.next = wk[w].next
        /\ k.steps = wk[w].steps \/ wk[w].next = "check"
        /\ wk[w].next \in {"check", "status", "identity"}
    BY <1>2, Zenon DEF Slot
  <2> HIDE DEF k
  <2>5. wk'[w] = k
    BY <1>2, <2>3, Zenon
  <2>6. KindOf(w)' = KindOf(w)
    BY <1>2, <2>4, <2>5, Zenon DEF KindOf
  <2>7. JobInv(w)'
    <3>1. /\ wk[w].next = "identity" => KindOf(w) # "firmware_upgrade"
          /\ wk[w].steps > 0 \/ wk[w].next = "check" => issued[wk[w].act] > 0
          /\ InstallsOnly /\ wk[w].next = "status" => Accurate
      BY <1>1, <1>2, <2>2, Zenon DEF JobInv
    <3> QED
      BY <1>1, <1>6, <2>2, <2>4, <2>5, <2>6, <3>1, Zenon DEF JobInv, Succeeding
  <2> QED
    BY <1>8, <2>2, <2>3, <2>4, <2>7, Zenon
<1>11. CASE dev.phase # "running" /\ ~(wk[w].seen \/ wk[w].idle + 1 >= Grace)
  <2> DEFINE k == [wk[w] EXCEPT !.idle = @ + 1, !.polls = @ + 1]
  <2>1. wk' = [wk EXCEPT ![w] = k]
    BY <1>11, Zenon DEF Poll
  <2>2. /\ k.pc = "poll" /\ k.act = wk[w].act /\ k.steps = wk[w].steps /\ k.next = wk[w].next
        /\ k.seen = wk[w].seen /\ k.idle = wk[w].idle + 1
    BY <1>1, <1>2, Zenon DEF Slot
  <2> HIDE DEF k
  <2>3. wk'[w] = k
    BY <1>2, <2>1, Zenon
  <2>4. KindOf(w)' = KindOf(w)
    BY <1>2, <2>2, <2>3, Zenon DEF KindOf
  <2>5. dev.phase = "queued" => ~k.seen /\ k.idle <= dev'.waited
    BY <1>3, <1>4, <1>5, <2>2
  <2>6. JobInv(w)'
    BY <1>1, <1>2, <1>5, <1>6, <2>2, <2>3, <2>4, <2>5, Zenon DEF JobInv, Succeeding
  <2> QED
    BY <1>1, <1>8, <2>1, <2>2, <2>6, Zenon
<1> QED
  BY <1>9, <1>10, <1>11, Zenon

\* The firewall starts an operation, reboots, or comes back.
LEMMA PhaseSteps ==
  ASSUME FInv, KindsKept, DevStart \/ DevDown \/ DevUp
  PROVE  DeviceInv' /\ \A u \in Worker : JobInv(u)'
<1>1. UNCHANGED <<wk, issued, blips, checks>>
  BY Zenon DEF DevStart, DevDown, DevUp, bound
<1>2. DeviceInv /\ dev \in Device /\ wk \in [Worker -> Slot]
  BY Zenon DEF FInv, IInv, TypeOK
<1>3. /\ dev'.minor = dev.minor /\ dev'.major = dev.major /\ dev'.updates = dev.updates
      /\ dev'.offered = dev.offered
      /\ \/ /\ dev.phase = "queued" /\ dev'.phase = "running"
            /\ dev'.op = dev.op /\ dev'.reboot = dev.reboot
         \/ dev.reboot /\ dev'.phase = "down" /\ dev'.op = "none" /\ ~dev'.reboot
         \/ /\ dev.phase = "down" /\ dev'.phase = "idle"
            /\ dev'.op = dev.op /\ dev'.reboot = dev.reboot
  BY <1>2, Zenon DEF DevStart, DevDown, DevUp, Device
<1>4. /\ InstallsOnly' <=> InstallsOnly
      /\ (Accurate' <=> Accurate) /\ (Clear' <=> Clear)
      /\ \A a \in Action : Alone(a)' <=> Alone(a)
  BY <1>1, <1>3, Zenon DEF InstallsOnly, KindsKept, Accurate, Clear, Alone
<1>5. /\ Busy' => Busy /\ dev'.op = dev.op
      /\ InstallsOnly => (Busy' <=> Busy) /\ dev'.op = dev.op
      /\ dev'.phase # "queued"
  BY <1>2, <1>3, Zenon DEF Busy, DeviceInv
<1>6. DeviceInv'
  <2>1. (\E a \in Action : issued[a] > 0 /\ row[a].kind = "plugin_install")'
           <=> \E a \in Action : issued[a] > 0 /\ row[a].kind = "plugin_install"
    BY <1>1, Zenon DEF KindsKept
  <2>2. (\E a \in Action : row[a].kind = "firmware_upgrade" /\ issued[a] > 0 /\ Alone(a))'
           <=> \E a \in Action : row[a].kind = "firmware_upgrade" /\ issued[a] > 0 /\ Alone(a)
    BY <1>1, <1>4, Zenon DEF KindsKept
  <2>3. (\E a \in Action : issued[a] > 0)' <=> \E a \in Action : issued[a] > 0
    BY <1>1, Zenon
  <2> QED
    BY <1>1, <1>2, <1>3, <1>4, <1>5, <2>1, <2>2, <2>3, Zenon DEF DeviceInv
<1>7. ASSUME NEW u \in Worker PROVE JobInv(u)'
  <2>1. JobInv(u) /\ (wk[u].pc # "idle" => wk[u].act \in Action) /\ wk'[u] = wk[u]
    BY <1>1, Zenon DEF FInv, IInv, ActInv
  <2>2. CASE wk[u].pc = "idle"
    BY <2>1, <2>2, Zenon DEF JobInv
  <2>3. CASE wk[u].pc # "idle"
    <3>1. KindOf(u)' = KindOf(u) /\ ((Alone(wk[u].act))' <=> Alone(wk[u].act))
      BY <1>1, <1>4, <2>1, <2>3, Zenon DEF KindOf, KindsKept
    <3> QED
      BY <1>1, <1>3, <1>4, <1>5, <2>1, <3>1 DEF JobInv, Succeeding
  <2> QED
    BY <2>2, <2>3, Zenon
<1> QED
  BY <1>6, <1>7, Zenon

\* An operation ends: a check leaves the firewall showing what it has, an install changes nothing
\* of it, and an upgrade or update alone leaves either something shown or nothing to do.
LEMMA FinishStep ==
  ASSUME FInv, KindsKept, DevFinish
  PROVE  DeviceInv' /\ \A u \in Worker : JobInv(u)'
<1>1. UNCHANGED <<wk, issued, blips, checks>> /\ Busy
  BY Zenon DEF DevFinish, bound
<1>2. DeviceInv /\ dev \in Device /\ wk \in [Worker -> Slot] /\ dev.minor \in Nat /\ dev.major \in Nat
  BY Zenon DEF FInv, IInv, TypeOK, Device
<1>3. PICK minor \in MinorAfter, reboot \in RebootAfter :
          dev' = [dev EXCEPT !.phase = "idle", !.op = "none", !.minor = minor, !.reboot = reboot,
                    !.major = IF dev.op = "upgrade" /\ @ > 0 THEN @ - 1 ELSE @,
                    !.updates = IF dev.op = "check" THEN dev.minor > 0 ELSE @,
                    !.offered = IF dev.op = "check" THEN dev.major > 0 ELSE @]
  BY Zenon DEF DevFinish
<1>4. /\ dev'.phase = "idle" /\ dev'.op = "none" /\ dev'.minor = minor /\ dev'.reboot = reboot
      /\ dev.op # "upgrade" => dev'.major = dev.major
      /\ dev.op = "check" => (dev'.updates <=> dev.minor > 0) /\ (dev'.offered <=> dev.major > 0)
      /\ dev.op # "check" => dev'.updates = dev.updates /\ dev'.offered = dev.offered
  BY <1>2, <1>3, Zenon DEF Device
<1>5. /\ dev.op \notin {"update", "upgrade"} => dev'.minor = dev.minor /\ dev'.reboot = dev.reboot
      /\ dev.op = "update" => dev'.minor = 0
  BY <1>4, Zenon DEF MinorAfter, RebootAfter
<1>6. ~Busy'
  BY <1>4, Zenon DEF Busy
<1>7. /\ InstallsOnly' <=> InstallsOnly
      /\ \A a \in Action : Alone(a)' <=> Alone(a)
  BY <1>1, Zenon DEF InstallsOnly, KindsKept, Alone
<1>8. dev.op = "check" => Accurate'
  BY <1>2, <1>4, <1>5, Zenon DEF Accurate
<1>9. dev.op \in {"install", "remove"} => (Accurate' <=> Accurate)
  BY <1>4, <1>5, Zenon DEF Accurate
<1>10. InstallsOnly => dev.op \in {"check", "install"} /\ ~dev'.reboot
  BY <1>1, <1>2, <1>5, Zenon DEF DeviceInv
<1>11. DeviceInv'
  <2>1. ASSUME \E a \in Action : row[a].kind = "firmware_upgrade" /\ issued[a] > 0 /\ Alone(a)
        PROVE  dev'.updates \/ dev'.offered \/ Clear'
    <3>1. dev.updates \/ dev.offered \/ Clear
      BY <1>2, <2>1, Zenon DEF DeviceInv
    <3>2. CASE dev.op = "check"
      <4>1. dev'.minor = dev.minor /\ dev'.major = dev.major
        BY <1>4, <1>5, <3>2, Zenon
      <4> QED
        BY <1>2, <1>4, <3>2, <4>1 DEF Clear
    <3>3. CASE dev.op # "check" /\ (dev.updates \/ dev.offered)
      BY <1>4, <3>3, Zenon
    <3>4. CASE dev.op # "check" /\ ~dev.offered /\ Clear
      BY <1>2, <1>4, <1>5, <3>4, Zenon DEF DeviceInv, Clear
    <3> QED
      BY <3>1, <3>2, <3>3, <3>4, Zenon
  <2>2. (\E a \in Action : row[a].kind = "firmware_upgrade" /\ issued[a] > 0 /\ Alone(a))'
           <=> \E a \in Action : row[a].kind = "firmware_upgrade" /\ issued[a] > 0 /\ Alone(a)
    BY <1>1, <1>7, Zenon DEF KindsKept
  <2>3. InstallsOnly /\ (\E a \in Action : issued[a] > 0) => Accurate'
    BY <1>2, <1>8, <1>9, <1>10, Zenon DEF DeviceInv
  <2>4. (\E a \in Action : issued[a] > 0)' <=> \E a \in Action : issued[a] > 0
    BY <1>1, Zenon
  <2> QED
    BY <1>1, <1>2, <1>4, <1>6, <1>7, <1>10, <2>1, <2>2, <2>3, <2>4, Zenon DEF DeviceInv
<1>12. ASSUME NEW u \in Worker PROVE JobInv(u)'
  <2>1. JobInv(u) /\ (wk[u].pc # "idle" => wk[u].act \in Action) /\ wk'[u] = wk[u]
    BY <1>1, Zenon DEF FInv, IInv, ActInv
  <2>2. CASE wk[u].pc = "idle"
    BY <2>1, <2>2, Zenon DEF JobInv
  <2>3. CASE wk[u].pc # "idle"
    <3>1. KindOf(u)' = KindOf(u)
      BY <1>1, <2>1, <2>3, Zenon DEF KindOf, KindsKept
    <3>2. (wk[u].pc \notin {"wait", "status"} /\ ~Succeeding(wk[u])) \/ wk[u].pc = "loaded"
      BY <1>1, <2>1, <2>3, Zenon DEF JobInv, Succeeding
    <3>3. wk[u].pc = "post" => KindOf(u) \notin {"firmware_upgrade", "plugin_install"}
      BY <1>1, <2>1, Zenon DEF JobInv
    <3>4. InstallsOnly /\ wk[u].pc = "poll" /\ wk[u].next = "status" => Accurate'
      BY <1>8, <1>9, <1>10, <2>1, Zenon DEF JobInv
    <3> QED
      BY <1>1, <1>4, <1>7, <2>1, <3>1, <3>2, <3>3, <3>4, Zenon DEF JobInv, Succeeding
  <2> QED
    BY <2>2, <2>3, Zenon
<1> QED
  BY <1>11, <1>12, Zenon

\* The start: the firewall is idle and nothing was issued.
LEMMA FInit == Init => FInv
<1> SUFFICES ASSUME Init PROVE FInv
  BY Zenon
<1>1. IInv
  BY InitInv, Zenon
<1>2. /\ dev.op = "none" /\ dev.phase = "idle" /\ dev.reboot = FALSE
      /\ issued = [a \in Action |-> 0] /\ blips = 0 /\ checks = 0
      /\ wk = [w \in Worker |-> IdleSlot]
  BY Zenon DEF Init
<1>3. ASSUME NEW a \in Action PROVE ~(issued[a] > 0)
  <2>1. issued[a] = 0
    BY <1>2, Zenon
  <2> QED
    BY <2>1
<1>4. DeviceInv
  BY <1>2, <1>3, Zenon DEF DeviceInv, Busy
<1>5. \A w \in Worker : JobInv(w)
  BY <1>2, Zenon DEF JobInv, IdleSlot
<1> QED
  BY <1>1, <1>4, <1>5, Zenon DEF FInv

\* Every step preserves the invariant, and a job that stops polling has nothing left to wait for.
LEMMA FNext ==
  ASSUME Calm, FInv, [Next]_vars
  PROVE  /\ FInv'
         /\ \A w \in Worker : wk[w].pc = "poll" /\ wk'[w].pc \in {"check", "status", "identity"} => ~Busy
<1>1. IInv' /\ KindsKept
  BY NextInv, NextKinds, Zenon DEF FInv
<1> DEFINE Kept == DeviceInv' /\ \A u \in Worker : JobInv(u)'
           Ended(w) == wk[w].pc = "poll" /\ wk'[w].pc \in {"check", "status", "identity"} => ~Busy
<1>2. ASSUME UNCHANGED <<wk, dev, issued, blips, checks>>
      PROVE  Kept /\ \A w \in Worker : Ended(w)
  BY <1>1, <1>2, DeviceFrame, JobFrame, Zenon
<1>3. CASE UNCHANGED vars
  BY <1>1, <1>2, <1>3, Zenon DEF vars, bound, FInv
<1>4. ASSUME NEW a \in Action, EnqueueNew(a) \/ CommitNew(a) \/ SweepLoad(a)
      PROVE  Kept /\ \A w \in Worker : Ended(w)
  BY <1>2, <1>4, Zenon DEF EnqueueNew, CommitNew, SweepLoad, bound
<1>5. ASSUME Sweep PROVE Kept /\ \A w \in Worker : Ended(w)
  BY <1>2, <1>5, Zenon DEF Sweep, SweepSkip, SweepRetry, SweepGiveUp, bound
<1>6. CASE UiCheck
  BY <1>6 DEF UiCheck, Calm, FInv, DeviceInv
<1>7. ASSUME Firewall PROVE Kept /\ \A w \in Worker : Ended(w)
  <2>1. Kept
    BY <1>1, <1>7, PhaseSteps, FinishStep, Zenon DEF Firewall
  <2>2. UNCHANGED wk
    BY <1>7, Zenon DEF Firewall, DevStart, DevFinish, DevDown, DevUp
  <2> QED
    BY <2>1, <2>2, Zenon
<1>8. ASSUME NEW w \in Worker, Job(w) \/ Timeout(w) \/ Crash(w)
      PROVE  Kept /\ \A u \in Worker : Ended(u)
  <2>1. Kept
    BY <1>1, <1>8, EdgeSteps, WaitSteps, FailSteps, StatusStep, CheckStep, PostStep, PollStep, Zenon DEF Job
  <2>2. wk \in [Worker -> Slot]
    BY Zenon DEF FInv, IInv, TypeOK
  <2>3. \A u \in Worker \ {w} : wk'[u] = wk[u]
    <3>1. \/ UNCHANGED wk
          \/ \E k : wk' = [wk EXCEPT ![w] = k]
      BY <1>8, Zenon
      DEF Job, Load, TryLock, Check, Status, Post, Poll, Exhausted, PollUnreachable, WaitUnreachable,
          WaitReached, Unreachable, Refused, Identity, Commit, Timeout, Crash, Goto, Verdict, ThenPoll, Polled
    <3> QED
      BY <2>2, <3>1, Zenon
  <2>4. Ended(w)
    <3> SUFFICES ASSUME wk[w].pc = "poll", wk'[w].pc \in {"check", "status", "identity"}
                 PROVE  ~Busy
      BY Zenon
    <3>1. CASE Poll(w)
      BY <1>1, <3>1, PollStep, Zenon
    <3>2. CASE Exhausted(w) \/ Refused(w) \/ PollUnreachable(w) \/ Timeout(w) \/ Crash(w)
      <4>1. wk[w] \in Slot
        BY <2>2, Zenon
      <4>2. wk'[w].pc \in {"commit", "wait", "idle"}
        BY <2>2, <3>2, <4>1 DEF Exhausted, Refused, PollUnreachable, Timeout, Crash, Verdict, IdleSlot, Slot
      <4> QED
        BY <4>2, Zenon
    <3> QED
      BY <1>8, <3>1, <3>2, Zenon
      DEF Job, Load, TryLock, Check, Status, Post, WaitUnreachable, WaitReached, Unreachable, Identity, Commit
  <2> QED
    BY <2>1, <2>3, <2>4, Zenon
<1> QED
  BY <1>1, <1>3, <1>4, <1>5, <1>6, <1>7, <1>8, Zenon DEF Next, FInv

\* poll_until_done with STARTUP_GRACE_POLLS, for any number of jobs, crashes and reboots: it returns
\* normally only when no operation is queued or running.
THEOREM OperationsWaitedFor ==
  ASSUME Calm
  PROVE  Spec => PolledToTheEnd
<1>1. FInv /\ [Next]_vars => FInv'
  BY FNext, Zenon
<1>2. FInv /\ [Next]_vars =>
        [\A w \in Worker :
            wk[w].pc = "poll" /\ wk'[w].pc \in {"check", "status", "identity"} => ~Busy]_vars
  BY FNext, Zenon
<1> QED
  BY FInit, <1>1, <1>2, PTL DEF Spec, PolledToTheEnd

\* The upgrade loop of run_firmware_action: an upgrade that nothing else on the firewall disturbs is
\* reported done only when neither package updates nor a major release are left.
THEOREM UpgradesComplete ==
  ASSUME Calm
  PROVE  Spec => []UpgradedToTheEnd
<1>1. FInv /\ [Next]_vars => FInv'
  BY FNext, Zenon
<1>2. FInv => UpgradedToTheEnd
  BY Zenon DEF FInv, JobInv, Succeeding, Clear, UpgradedToTheEnd
<1> QED
  BY FInit, <1>1, <1>2, PTL DEF Spec

\* The pre-check of plugin_install: as long as one action alone has worked on the firewall, a plugin
\* is installed only when no updates are pending, however often the job is cut off and run again.
THEOREM InstallsPrechecked ==
  ASSUME Calm
  PROVE  Spec => []InstalledUpToDate
<1>1. FInv /\ [Next]_vars => FInv'
  BY FNext, Zenon
<1>2. FInv => InstalledUpToDate
  <2> SUFFICES ASSUME FInv, dev.op = "install", NEW a \in Action, Alone(a)
               PROVE  dev.minor = 0
    BY Zenon DEF InstalledUpToDate
  <2>1. PICK b \in Action : issued[b] > 0 /\ row[b].kind = "plugin_install"
    BY Zenon DEF FInv, DeviceInv
  <2>2. \A c \in Action \ {a} : ~(issued[c] > 0)
    BY DEF Alone
  <2>3. InstallsOnly
    BY <2>1, <2>2, Zenon DEF InstallsOnly
  <2> QED
    BY <2>3, Zenon DEF FInv, DeviceInv
<1> QED
  BY FInit, <1>1, <1>2, PTL DEF Spec

==============================================================================
