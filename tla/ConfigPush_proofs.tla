-------------------------- MODULE ConfigPush_proofs --------------------------
(***************************************************************************)
(* Safety of the config-push pipeline for any number of changes, workers,  *)
(* requests, objects and values: the advisory lock, the staleness guard    *)
(* and the row a job loaded at its start together give NoClobber and       *)
(* SoleWriter.  First the inductive invariant and the facts about the      *)
(* operators and frames its proof rests on, then the steps of the API and  *)
(* the sweeper, of the worker's jobs and of the environment.  What the     *)
(* pipeline remembers follows: the baseline a change was proposed against, *)
(* the config.xml a job read, the rollback point, the inverse built from   *)
(* it and the writes the firewall took give AppliedOnce, RollbackPoint,    *)
(* RevertUndoes and AttemptsBounded.                                       *)
(***************************************************************************)
EXTENDS ConfigPush, TLAPS

(***************************************************************************)
(* The inductive invariant                                                 *)
(***************************************************************************)

\* Pcs of a job that holds the device lock.
Holding == {"locked", "push", "commit"}

LockInv == \A w \in Worker : lock = w <=> wk[w].pc \in Holding

\* The shape of a slot: a job past its load has members, decides them in order, and commits when
\* all of them are decided.
SlotShape(k) ==
    /\ k.pc \in Holding \cup {"loaded"} => k.batch # <<>>
    /\ k.pc \in {"loaded", "locked"} => k.out = <<>>
    /\ k.pc = "push" => Len(k.out) < Len(k.batch)
    /\ k.pc = "commit" => Len(k.out) = Len(k.batch)
    /\ \A i \in 1..Len(k.out) : k.out[i] \in {"applied", "failed", "conflict"}

ShapeInv == \A w \in Worker : SlotShape(wk[w])

\* A job's members are rows of the table.
LoadedInv == \A w \in Worker : \A i \in 1..Len(wk[w].batch) : row[wk[w].batch[i]].status # "none"

\* A job never counts more unlocked writes than there were.
EditsInv == \A w \in Worker : wk[w].edits <= edits

\* A schedule or cancel request in flight is about a row; so is the sweeper's work.
RequestInv ==
    /\ \A r \in Request : req[r].pc \in {"schedule", "cancel"} => req[r].change \in Change
    /\ sw.pc # "idle" => sw.change \in Change

IInv ==
    /\ TypeOK
    /\ LockInv
    /\ ShapeInv
    /\ LoadedInv
    /\ EditsInv
    /\ RequestInv
    /\ NoClobber

(***************************************************************************)
(* Lemmas on the operators                                                 *)
(***************************************************************************)

\* Every job the handlers, the sweeper and the crons build is a job of the queue.
LEMMA JobTypes ==
    /\ \A c \in Change, b \in BOOLEAN : ApplyJob(c, b) \in Job
    /\ \A s \in Profiles, b \in BOOLEAN : ProfileJob(s, b) \in Job
    /\ BackupJob \in Job
BY DEF Job

\* The defaults have their types.
LEMMA DefaultTypes ==
    /\ NoRow \in Row
    /\ IdleSlot \in Slot
    /\ IdleHandler \in Handler
    /\ IdleSweep \in Sweep
<1>1. (CHOOSE p \in Proposal : TRUE) \in Proposal
  <2>1. \E p \in Proposal : TRUE
    <3>1. PICK t \in Target, v \in Value : TRUE
      BY DomainAssumption, Zenon
    <3>2. [kind |-> "alias", op |-> "add", target |-> t, value |-> v] \in Proposal
      BY Zenon DEF Proposal, Kind, Operation
    <3> QED BY <3>2, Zenon
  <2> QED BY <2>1, Zenon
<1>2. NoRow \in Row
  BY <1>1, Zenon DEF NoRow, Row, Status, Result
<1>3. IdleSlot \in Slot
  BY JobTypes DEF IdleSlot, Slot, Step
<1>4. IdleHandler \in Handler
  BY JobTypes, Zenon DEF IdleHandler, Handler, Status
<1>5. IdleSweep \in Sweep
  BY Zenon DEF IdleSweep, Sweep
<1> QED BY <1>2, <1>3, <1>4, <1>5, Zenon

\* Enqueueing and starting a job keep the queue a count per job.
LEMMA QueueType ==
    ASSUME TypeOK, NEW j \in Job
    PROVE  /\ Enqueue(j) => queue' \in [Job -> Nat]
           /\ queue[j] > 0 /\ queue' = [queue EXCEPT ![j] = @ - 1] => queue' \in [Job -> Nat]
<1>1. queue \in [Job -> Nat] /\ queue[j] \in Nat
  BY Zenon DEF TypeOK
<1>2. Enqueue(j) => queue' \in [Job -> Nat]
  BY <1>1 DEF Enqueue
<1>3. queue[j] > 0 => queue[j] - 1 \in Nat
  BY <1>1
<1> QED BY <1>1, <1>2, <1>3, Zenon

\* A write leaves a configuration behind.
LEMMA EffectType ==
    ASSUME NEW p \in Proposal, NEW cfg \in Config
    PROVE  Effect(p, cfg) \in Config
BY Zenon DEF Effect, Config, Proposal

\* So does every outcome of apply_for_kind, and its flags are Booleans.
LEMMA OutcomeTypes ==
    ASSUME NEW p \in Proposal, NEW cfg \in Config, NEW live \in BOOLEAN,
           NEW o \in Outcomes(p, cfg, live)
    PROVE  o.cfg \in Config /\ o.wrote \in BOOLEAN /\ o.ok \in BOOLEAN
<1>1. Registered(p) \in BOOLEAN
  BY Zenon DEF Registered
<1>2. \/ o = [cfg |-> cfg, wrote |-> FALSE, ok |-> FALSE]
      \/ o = [cfg |-> cfg, wrote |-> FALSE, ok |-> Registered(p)]
      \/ \E b \in BOOLEAN : o = [cfg |-> Effect(p, cfg), wrote |-> TRUE, ok |-> b]
  BY Zenon DEF Outcomes
<1>3. Effect(p, cfg) \in Config
  BY EffectType, Zenon
<1>4. CASE o = [cfg |-> cfg, wrote |-> FALSE, ok |-> FALSE]
  BY <1>4, Zenon
<1>5. CASE o = [cfg |-> cfg, wrote |-> FALSE, ok |-> Registered(p)]
  BY <1>1, <1>5, Zenon
<1>6. ASSUME NEW b \in BOOLEAN, o = [cfg |-> Effect(p, cfg), wrote |-> TRUE, ok |-> b]
      PROVE  o.cfg \in Config /\ o.wrote \in BOOLEAN /\ o.ok \in BOOLEAN
  BY <1>3, <1>6, Zenon
<1> QED BY <1>2, <1>4, <1>5, <1>6, Zenon

\* build_inverse makes proposals.
LEMMA InverseTypes ==
    ASSUME NEW p \in Proposal, NEW snaps \in SUBSET Config, NEW q \in Inverse(p, snaps)
    PROVE  q \in Proposal
<1>1. /\ p \in [kind : Kind, op : Operation, target : Target, value : Value]
      /\ p.kind \in Kind /\ p.target \in Target /\ p.value \in Value
  BY Zenon DEF Proposal
<1>2. ASSUME NEW op \in Operation, NEW v \in Value
      PROVE  [p EXCEPT !.op = op, !.value = v] \in Proposal /\ [p EXCEPT !.op = op] \in Proposal
  BY <1>1, Zenon DEF Proposal
<1>3. \A s \in snaps : s[p.target] # Absent => s[p.target] \in Value
  BY <1>1, Zenon DEF Config
<1>4. CASE p.kind = "alias"
  <2>1. q \in InvertAlias(p, snaps)
    BY <1>4, Zenon DEF Inverse
  <2>2. CASE p.op = "add"
    BY <2>1, <2>2, <1>1, <1>2, Zenon DEF InvertAlias, Operation
  <2>3. CASE p.op # "add"
    <3>1. PICK s \in snaps :
             /\ s[p.target] # Absent
             /\ q = [p EXCEPT !.op = IF p.op = "delete" THEN "add" ELSE "set", !.value = s[p.target]]
      BY <2>1, <2>3, Zenon DEF InvertAlias
    <3> QED BY <3>1, <1>2, <1>3, Zenon DEF Operation
  <2> QED BY <2>2, <2>3, Zenon
<1>5. CASE p.kind = "firewall_rule"
  <2>1. q \in InvertFirewallRule(p, snaps)
    BY <1>5, Zenon DEF Inverse
  <2>2. \/ q = [p EXCEPT !.op = "delete"]
        \/ \E s \in snaps : /\ s[p.target] # Absent
                             /\ q = [p EXCEPT !.op = "set", !.value = s[p.target]]
    BY <2>1, Zenon DEF InvertFirewallRule
  <2>3. CASE q = [p EXCEPT !.op = "delete"]
    BY <2>3, <1>1, <1>2, Zenon DEF Operation
  <2>4. ASSUME NEW s \in snaps, s[p.target] # Absent, q = [p EXCEPT !.op = "set", !.value = s[p.target]]
        PROVE  q \in Proposal
    <3>1. s[p.target] \in Value
      BY <2>4, <1>3, Zenon
    <3> QED BY <2>4, <3>1, <1>2, Zenon DEF Operation
  <2> QED BY <2>2, <2>3, <2>4, Zenon
<1>6. CASE p.kind = "unregistered"
  BY <1>6, Zenon DEF Inverse
<1> QED BY <1>1, <1>4, <1>5, <1>6, Zenon DEF Kind

(***************************************************************************)
(* Frames: what a step leaves alone                                        *)
(***************************************************************************)

\* A row, once inserted, stays in the table and keeps the baseline it was proposed with.
RowsKept ==
    \A c \in Change : row[c].status # "none" =>
        row'[c].status # "none" /\ row'[c].baseline = row[c].baseline

\* Two slots that differ at most in the bookkeeping of snapshot times.
SameSlot(k, l) ==
    /\ k.pc = l.pc
    /\ k.batch = l.batch
    /\ k.out = l.out
    /\ k.xml = l.xml
    /\ k.edits = l.edits

\* A step that changes at most slot w, and not the firewall, keeps the invariants of every slot if
\* it establishes those of w.
LEMMA SlotFrame ==
    ASSUME IInv, TypeOK', RowsKept, UNCHANGED <<config, edits>>,
           NEW w \in Worker,
           \A u \in Worker \ {w} : SameSlot(wk'[u], wk[u]) /\ (lock' = u <=> lock = u),
           lock' = w <=> wk'[w].pc \in Holding,
           SlotShape(wk'[w]),
           \A i \in 1..Len(wk'[w].batch) : row'[wk'[w].batch[i]].status # "none",
           wk'[w].edits <= edits,
           wk'[w].pc = "push" /\ wk'[w].out = <<>> /\ wk'[w].edits = edits =>
              config = wk'[w].xml /\ row'[wk'[w].batch[1]].baseline \in {config, None}
    PROVE  LockInv' /\ ShapeInv' /\ LoadedInv' /\ EditsInv' /\ NoClobber'
<1>1. LockInv'
  BY Zenon DEF LockInv, IInv, SameSlot
<1>2. ShapeInv'
  BY SMTT(30) DEF ShapeInv, SlotShape, IInv, SameSlot
<1>3. \A u \in Worker : wk[u].batch \in Seq(Change) /\ wk'[u].batch \in Seq(Change)
  BY Zenon DEF IInv, TypeOK, Slot
<1>4. LoadedInv'
  BY <1>3 DEF LoadedInv, IInv, SameSlot, RowsKept
<1>5. EditsInv'
  BY Zenon DEF EditsInv, IInv, SameSlot
<1>6. ASSUME NEW u \in Worker, wk'[u].pc = "push", wk'[u].out = <<>>, wk'[u].edits = edits'
      PROVE  config' = wk'[u].xml /\ row'[wk'[u].batch[1]].baseline \in {config', None}
  <2>1. CASE u = w
    BY <2>1, <1>6, Zenon
  <2>2. CASE u # w
    <3>1. SameSlot(wk'[u], wk[u]) /\ SlotShape(wk[u])
      BY <2>2, Zenon DEF IInv, ShapeInv
    <3>2. 1 \in 1..Len(wk[u].batch) /\ wk[u].batch[1] \in Change
      BY <3>1, <1>3, <1>6, SMTT(30) DEF SameSlot, SlotShape, Holding
    <3>3. row[wk[u].batch[1]].status # "none"
      BY <3>2, Zenon DEF IInv, LoadedInv
    <3>4. config = wk[u].xml /\ row[wk[u].batch[Len(wk[u].out) + 1]].baseline \in {config, None}
      BY <3>1, <1>6, ZenonT(30) DEF IInv, NoClobber, Current, SameSlot
    <3>5. Len(wk[u].out) + 1 = 1
      BY <3>1, <1>6 DEF SameSlot
    <3> QED BY <3>1, <3>2, <3>3, <3>4, <3>5, Zenon DEF SameSlot, RowsKept
  <2> QED BY <2>1, <2>2, Zenon
<1>7. NoClobber'
  <2>1. ASSUME NEW u \in Worker, wk'[u].out = <<>>
        PROVE  wk'[u].batch[Len(wk'[u].out) + 1] = wk'[u].batch[1]
    BY <2>1
  <2> QED BY <1>6, <2>1, Zenon DEF NoClobber, Current
<1> QED BY <1>1, <1>2, <1>4, <1>5, <1>7, Zenon

\* A step that changes no slot, and neither the lock nor the firewall.
LEMMA RowFrame ==
    ASSUME IInv, TypeOK', RowsKept, UNCHANGED <<wk, lock, config, edits>>
    PROVE  LockInv' /\ ShapeInv' /\ LoadedInv' /\ EditsInv' /\ NoClobber'
<1>1. LockInv' /\ ShapeInv' /\ EditsInv'
  BY Zenon DEF IInv, LockInv, ShapeInv, EditsInv
<1>2. \A u \in Worker : wk[u].batch \in Seq(Change)
  BY Zenon DEF IInv, TypeOK, Slot
<1>3. LoadedInv'
  BY <1>2 DEF IInv, LoadedInv, RowsKept
<1>4. ASSUME NEW u \in Worker, wk[u].pc = "push", wk[u].out = <<>>, wk[u].edits = edits
      PROVE  config = wk[u].xml /\ row'[Current(u)].baseline \in {config, None}
  <2>1. Current(u) \in Change /\ row[Current(u)].status # "none"
    BY <1>2, <1>4, SMTT(30) DEF Current, IInv, ShapeInv, SlotShape, LoadedInv, Holding
  <2> QED BY <2>1, <1>4, Zenon DEF IInv, NoClobber, RowsKept
<1>5. NoClobber'
  BY <1>4, Zenon DEF NoClobber, Current
<1> QED BY <1>1, <1>3, <1>5, Zenon

(***************************************************************************)
(* API handlers                                                            *)
(***************************************************************************)

\* create_change fills every column of a row.
LEMMA CreatedType ==
    ASSUME TypeOK, NEW p \in Proposal, NEW st \in Status, NEW later \in BOOLEAN
    PROVE  /\ Created(p, st, later) \in Row
           /\ \A s \in Profiles : [Created(p, st, later) EXCEPT !.siblings = s] \in Row
           /\ \A c \in Change : [Created(p, st, later) EXCEPT !.reverts = c] \in Row
BY DefaultTypes, ZenonT(30) DEF Created, Row, TypeOK

\* A commit that goes on to enqueue job j.
LEMMA ThenEnqueueInv ==
    ASSUME IInv, NEW r \in Request, NEW j \in Job, ThenEnqueue(r, j), UNCHANGED sw
    PROVE  req' \in [Request -> Handler] /\ RequestInv'
<1>1. [IdleHandler EXCEPT !.pc = "enqueue", !.job = j] \in Handler
  BY DefaultTypes, Zenon DEF Handler
<1>2. req' \in [Request -> Handler]
  BY <1>1, Zenon DEF ThenEnqueue, IInv, TypeOK
<1>3. RequestInv'
  BY Zenon DEF ThenEnqueue, IInv, TypeOK, RequestInv, IdleHandler
<1> QED BY <1>2, <1>3, Zenon

\* A created row is "draft" and no job has it.
LEMMA CreateChangeInv ==
    ASSUME IInv, NEW c \in Change, NEW p \in Drafts, CreateChange(c, p)
    PROVE  IInv'
<1>1. Created(p, "draft", FALSE) \in Row
  BY CreatedType, ProposalsAssumption, Zenon DEF IInv, Status
<1>2. TypeOK'
  BY <1>1, Zenon DEF CreateChange, IInv, TypeOK, device, setting, counter
<1>3. RowsKept
  BY Zenon DEF CreateChange, Free, RowsKept, IInv, TypeOK
<1>4. RequestInv'
  BY Zenon DEF CreateChange, IInv, RequestInv
<1>5. UNCHANGED <<wk, lock, config, edits>>
  BY Zenon DEF CreateChange, device
<1> QED BY <1>2, <1>3, <1>4, <1>5, RowFrame, Zenon DEF IInv

\* The handlers that answer in one transaction (create, revert, profile) keep the
\* invariant.
LEMMA ApiStepInv ==
    ASSUME IInv, NEW r \in Request, ApiStep(r)
    PROVE  IInv'
<1>1. ASSUME NEW c \in Change, NEW p \in Templates, NEW b \in Delays, ApplyTemplate(r, c, p, b)
      PROVE  IInv'
  <2>1. b \in BOOLEAN /\ p \in Proposal
    BY DelaysAssumption, ProposalsAssumption, Zenon
  <2>2. Created(p, "scheduled", b) \in Row /\ ApplyJob(c, b) \in Job
    BY <2>1, CreatedType, JobTypes, Zenon DEF IInv, Status
  <2>3. req' \in [Request -> Handler] /\ RequestInv'
    BY <1>1, <2>2, ThenEnqueueInv, Zenon DEF ApplyTemplate
  <2>4. TypeOK'
    BY <1>1, <2>2, <2>3, Zenon DEF ApplyTemplate, IInv, TypeOK, device, setting, counter
  <2>5. RowsKept
    BY <1>1, Zenon DEF ApplyTemplate, Free, RowsKept, IInv, TypeOK
  <2>6. UNCHANGED <<wk, lock, config, edits>>
    BY <1>1, Zenon DEF ApplyTemplate, device
  <2> QED BY <2>3, <2>4, <2>5, <2>6, RowFrame, Zenon DEF IInv
<1>2. ASSUME NEW s \in Profiles, NEW b \in Delays, ApplyProfile(r, s, b)
      PROVE  IInv'
  <2>1. b \in BOOLEAN /\ Bodies \subseteq Proposal
    BY DelaysAssumption, ProposalsAssumption, Zenon
  <2>2. PICK ps \in [Members(s) -> Bodies] :
          row' = [c \in Change |->
                    IF c \in Members(s)
                    THEN [Created(ps[c], "scheduled", b) EXCEPT !.siblings = s]
                    ELSE row[c]]
    BY <1>2, Zenon DEF ApplyProfile
  <2>3. \A c \in Members(s) : [Created(ps[c], "scheduled", b) EXCEPT !.siblings = s] \in Row
    BY <2>1, CreatedType, Zenon DEF IInv, Status
  <2>4. row' \in [Change -> Row]
    BY <2>2, <2>3, Zenon DEF IInv, TypeOK
  <2>5. req' \in [Request -> Handler] /\ RequestInv'
    BY <1>2, <2>1, JobTypes, ThenEnqueueInv, Zenon DEF ApplyProfile
  <2>6. TypeOK'
    BY <1>2, <2>4, <2>5, Zenon DEF ApplyProfile, IInv, TypeOK, device, setting, counter
  <2>7. \A c \in Change : row[c].status # "none" => row'[c] = row[c]
    BY <1>2, <2>2, Zenon DEF ApplyProfile, Free
  <2>8. UNCHANGED <<wk, lock, config, edits>>
    BY <1>2, Zenon DEF ApplyProfile, device
  <2> QED BY <2>5, <2>6, <2>7, <2>8, RowFrame, Zenon DEF IInv, RowsKept
<1>3. ASSUME NEW c \in Change, NEW d \in Change, NEW b \in Delays, RevertChange(r, c, d, b)
      PROVE  IInv'
  <2>1. b \in BOOLEAN /\ row[c].prop \in Proposal /\ {row[c].snap} \ {None} \in SUBSET Config
    BY DelaysAssumption, Zenon DEF IInv, TypeOK, Row
  <2>2. PICK p \in Inverse(row[c].prop, {row[c].snap} \ {None}) :
          row' = [row EXCEPT ![d] = [Created(p, "scheduled", b) EXCEPT !.reverts = c]]
    BY <1>3, Zenon DEF RevertChange
  <2>3. p \in Proposal
    BY <2>1, InverseTypes, Zenon
  <2>4. [Created(p, "scheduled", b) EXCEPT !.reverts = c] \in Row /\ ApplyJob(d, b) \in Job
    BY <2>1, <2>3, CreatedType, JobTypes, Zenon DEF IInv, Status
  <2>5. req' \in [Request -> Handler] /\ RequestInv'
    BY <1>3, <2>4, ThenEnqueueInv, Zenon DEF RevertChange
  <2>6. TypeOK'
    BY <1>3, <2>2, <2>4, <2>5, Zenon DEF RevertChange, IInv, TypeOK, device, setting, counter
  <2>7. RowsKept
    BY <1>3, <2>2, Zenon DEF RevertChange, Free, RowsKept, IInv, TypeOK
  <2>8. UNCHANGED <<wk, lock, config, edits>>
    BY <1>3, Zenon DEF RevertChange, device
  <2> QED BY <2>5, <2>6, <2>7, <2>8, RowFrame, Zenon DEF IInv
<1>4. ASSUME NEW op \in {"schedule", "cancel"}, NEW c \in Change, NEW b \in BOOLEAN,
             LoadForRequest(r, op, c, b)
      PROVE  IInv'
  <2>1. [IdleHandler EXCEPT !.pc = op, !.change = c, !.seen = row[c].status,
                            !.was = row[c].later, !.later = b] \in Handler
    BY DefaultTypes, Zenon DEF Handler, IInv, TypeOK, Row
  <2>2. TypeOK'
    BY <1>4, <2>1 DEF LoadForRequest, IInv, TypeOK, device, setting
  <2>3. RequestInv'
    BY <1>4, Zenon DEF LoadForRequest, IInv, TypeOK, RequestInv, IdleHandler
  <2>4. RowsKept /\ UNCHANGED <<wk, lock, config, edits>>
    BY <1>4, Zenon DEF LoadForRequest, device, RowsKept
  <2> QED BY <2>2, <2>3, <2>4, RowFrame, Zenon DEF IInv
<1>5. ASSUME LoseRequest(r)
      PROVE  IInv'
  <2>1. TypeOK'
    BY <1>5, DefaultTypes, Zenon DEF LoseRequest, IInv, TypeOK, device, setting, counter
  <2>2. RequestInv'
    BY <1>5, Zenon DEF LoseRequest, IInv, TypeOK, RequestInv, IdleHandler
  <2>3. RowsKept /\ UNCHANGED <<wk, lock, config, edits>>
    BY <1>5, Zenon DEF LoseRequest, device, RowsKept
  <2> QED BY <2>1, <2>2, <2>3, RowFrame, Zenon DEF IInv
<1> QED BY <1>1, <1>2, <1>3, <1>4, <1>5, DelaysAssumption, Zenon DEF ApiStep

\* So do the commits and enqueues of the handlers that read first.
LEMMA FinishRequestInv ==
    ASSUME IInv, NEW r \in Request, FinishRequest(r)
    PROVE  IInv'
<1>0. req[r] \in Handler
  BY Zenon DEF IInv, TypeOK
<1>1. CASE CommitSchedule(r)
  <2> DEFINE c == req[r].change
  <2>1. c \in Change /\ row[c] \in Row /\ req[r].later \in BOOLEAN
    BY <1>0, <1>1, Zenon DEF CommitSchedule, IInv, RequestInv, TypeOK, Handler
  <2>2. PICK st \in {row[c].status, "scheduled"}, b \in BOOLEAN :
          row' = [row EXCEPT ![c] = [row[c] EXCEPT !.status = st, !.later = b]]
    <3> DEFINE st == IF req[r].seen = "scheduled" THEN row[c].status ELSE "scheduled"
               b == IF req[r].was = req[r].later THEN row[c].later ELSE req[r].later
    <3>1. row' = [row EXCEPT ![c] = [row[c] EXCEPT !.status = st, !.later = b]]
      BY <1>1, Zenon DEF CommitSchedule
    <3>2. st \in {row[c].status, "scheduled"} /\ b \in BOOLEAN
      BY <2>1, Zenon DEF Row
    <3> QED BY <3>1, <3>2, Zenon
  <2>3. row' \in [Change -> Row]
    BY <2>1, <2>2, ZenonT(30) DEF IInv, TypeOK, Row, Status
  <2>4. ApplyJob(c, req[r].later) \in Job
    BY <2>1, JobTypes, Zenon
  <2>5. [IdleHandler EXCEPT !.pc = "enqueue", !.job = ApplyJob(c, req[r].later)] \in Handler
    BY <2>4, DefaultTypes, Zenon DEF Handler
  <2>6. TypeOK'
    BY <1>1, <2>3, <2>5, Zenon DEF CommitSchedule, IInv, TypeOK, device, setting, counter
  <2>7. RequestInv'
    BY <1>1, Zenon DEF CommitSchedule, IInv, TypeOK, RequestInv, IdleHandler
  <2>8. RowsKept
    BY <2>1, <2>2, Zenon DEF RowsKept, IInv, TypeOK, Row
  <2>9. UNCHANGED <<wk, lock, config, edits>>
    BY <1>1, Zenon DEF CommitSchedule, device
  <2> QED BY <2>6, <2>7, <2>8, <2>9, RowFrame, Zenon DEF IInv
<1>2. CASE CommitCancel(r)
  <2>0. \A c \in Change : [row[c] EXCEPT !.status = "cancelled"] \in Row
    <3> SUFFICES ASSUME NEW c \in Change PROVE [row[c] EXCEPT !.status = "cancelled"] \in Row
      BY Zenon
    <3>1. row[c] \in Row
      BY Zenon DEF IInv, TypeOK
    <3> QED BY <3>1, Zenon DEF Row, Status
  <2>1. row' \in [Change -> Row]
    BY <1>2, <2>0, Zenon DEF CommitCancel, IInv, TypeOK
  <2>2. TypeOK'
    BY <1>2, <2>1, DefaultTypes, Zenon DEF CommitCancel, IInv, TypeOK, device, setting, counter
  <2>3. RequestInv'
    BY <1>2, Zenon DEF CommitCancel, IInv, TypeOK, RequestInv, IdleHandler
  <2>4. RowsKept
    BY <1>2, Zenon DEF CommitCancel, RowsKept, IInv, TypeOK, Row
  <2>5. UNCHANGED <<wk, lock, config, edits>>
    BY <1>2, Zenon DEF CommitCancel, device
  <2> QED BY <2>2, <2>3, <2>4, <2>5, RowFrame, Zenon DEF IInv
<1>3. CASE EnqueueRequest(r)
  <2>1. queue' \in [Job -> Nat]
    BY <1>0, <1>3, QueueType, Zenon DEF EnqueueRequest, IInv, Handler
  <2>2. TypeOK'
    BY <1>3, <2>1, DefaultTypes, Zenon DEF EnqueueRequest, IInv, TypeOK, device, setting, counter
  <2>3. RequestInv'
    BY <1>3, Zenon DEF EnqueueRequest, IInv, TypeOK, RequestInv, IdleHandler
  <2>4. RowsKept /\ UNCHANGED <<wk, lock, config, edits>>
    BY <1>3, Zenon DEF EnqueueRequest, device, RowsKept
  <2> QED BY <2>2, <2>3, <2>4, RowFrame, Zenon DEF IInv
<1> QED BY <1>1, <1>2, <1>3, Zenon DEF FinishRequest

(***************************************************************************)
(* Sweeper, cron and environment                                           *)
(***************************************************************************)

\* So does the sweeper, whichever of its rows it commits and enqueues.
LEMMA SweepInv ==
    ASSUME IInv, SweepStep \/ \E c \in Change : SweepLoad(c)
    PROVE  IInv'
<1>1. ASSUME NEW c \in Change, SweepLoad(c)
      PROVE  IInv'
  <2>1. sw' \in Sweep /\ sw'.change \in Change
    BY <1>1, Zenon DEF SweepLoad, Sweep, IInv, TypeOK, Row
  <2>2. TypeOK' /\ RequestInv'
    BY <1>1, <2>1, Zenon DEF SweepLoad, IInv, TypeOK, RequestInv, device, setting, counter
  <2>3. RowsKept /\ UNCHANGED <<wk, lock, config, edits>>
    BY <1>1, Zenon DEF SweepLoad, device, RowsKept
  <2> QED BY <2>2, <2>3, RowFrame, Zenon DEF IInv
<1>2. CASE SweepSkip
  <2>1. TypeOK' /\ RequestInv'
    BY <1>2, DefaultTypes, Zenon DEF SweepSkip, IInv, TypeOK, RequestInv, IdleSweep, device, setting, counter
  <2>2. RowsKept /\ UNCHANGED <<wk, lock, config, edits>>
    BY <1>2, Zenon DEF SweepSkip, device, RowsKept
  <2> QED BY <2>1, <2>2, RowFrame, Zenon DEF IInv
<1>3. CASE SweepRetry
  <2>1. sw.change \in Change /\ sw.attempts + 1 \in Nat
    BY <1>3 DEF SweepRetry, IInv, TypeOK, RequestInv, Sweep
  <2>2. row' \in [Change -> Row] /\ RowsKept
    <3> DEFINE c == sw.change
               new == [row[c] EXCEPT !.attempts = sw.attempts + 1]
    <3>0. row[c] \in Row
      BY <2>1, Zenon DEF IInv, TypeOK
    <3>1. new \in Row /\ new.status = row[c].status /\ new.baseline = row[c].baseline
      BY <2>1, <3>0, Zenon DEF Row
    <3>2. row' = [row EXCEPT ![c] = new]
      BY <1>3, Zenon DEF SweepRetry
    <3> HIDE DEF new
    <3> QED BY <2>1, <3>1, <3>2, Zenon DEF IInv, TypeOK, RowsKept
  <2>3. sw' \in Sweep /\ sw'.change \in Change
    BY <1>3, <2>1, Zenon DEF SweepRetry, IInv, TypeOK, Sweep
  <2>4. TypeOK' /\ RequestInv'
    BY <1>3, <2>2, <2>3, Zenon DEF SweepRetry, IInv, TypeOK, RequestInv, device, setting, counter
  <2>5. UNCHANGED <<wk, lock, config, edits>>
    BY <1>3, Zenon DEF SweepRetry, device
  <2> QED BY <2>2, <2>4, <2>5, RowFrame, Zenon DEF IInv
<1>4. CASE SweepEnqueue
  <2>1. queue' \in [Job -> Nat]
    <3>1. ApplyJob(sw.change, FALSE) \in Job
      BY <1>4, JobTypes, ZenonT(30) DEF SweepEnqueue, IInv, RequestInv
    <3> QED BY <1>4, <3>1, QueueType, Zenon DEF SweepEnqueue, IInv, TypeOK
  <2>2. TypeOK' /\ RequestInv'
    BY <1>4, <2>1, DefaultTypes, Zenon
       DEF SweepEnqueue, IInv, TypeOK, RequestInv, IdleSweep, device, setting, counter
  <2>3. RowsKept /\ UNCHANGED <<wk, lock, config, edits>>
    BY <1>4, Zenon DEF SweepEnqueue, device, RowsKept
  <2> QED BY <2>2, <2>3, RowFrame, Zenon DEF IInv
<1>5. CASE SweepGiveUp
  <2>1. row' \in [Change -> Row] /\ RowsKept
    <3> DEFINE c == sw.change
               new == [row[c] EXCEPT !.status = "failed", !.result = "error"]
    <3>1. c \in Change
      BY <1>5, Zenon DEF SweepGiveUp, IInv, RequestInv
    <3>0. row[c] \in Row
      BY <3>1, Zenon DEF IInv, TypeOK
    <3>2. new \in Row /\ new.status # "none" /\ new.baseline = row[c].baseline
      BY <3>0, ZenonT(30) DEF Row, Status, Result
    <3>3. row' = [row EXCEPT ![c] = new]
      BY <1>5, Zenon DEF SweepGiveUp
    <3> HIDE DEF new
    <3> QED BY <3>1, <3>2, <3>3, Zenon DEF IInv, TypeOK, RowsKept
  <2>2. TypeOK' /\ RequestInv'
    BY <1>5, <2>1, DefaultTypes, Zenon
       DEF SweepGiveUp, IInv, TypeOK, RequestInv, IdleSweep, device, setting, counter
  <2>3. UNCHANGED <<wk, lock, config, edits>>
    BY <1>5, Zenon DEF SweepGiveUp, device
  <2> QED BY <2>1, <2>2, <2>3, RowFrame, Zenon DEF IInv
<1> QED BY <1>1, <1>2, <1>3, <1>4, <1>5, Zenon DEF SweepStep

(***************************************************************************)
(* Worker                                                                  *)
(***************************************************************************)

\* A job starts with the rows it found scheduled.
LEMMA BeginInv ==
    ASSUME IInv, NEW w \in Worker, NEW j \in Job, NEW batch \in Seq(Change),
           NEW pc \in {"loaded", "refresh", "read"},
           pc = "loaded" => batch # <<>>,
           \A i \in 1..Len(batch) : row[batch[i]].status # "none",
           CanBegin(w, j), Begin(w, j, batch, pc),
           UNCHANGED <<device, setting, row, latest, lock, req, sw, counter, missed>>
    PROVE  IInv'
<1> DEFINE k == [IdleSlot EXCEPT !.pc = pc, !.job = j, !.batch = batch,
                                 !.older = {u \in Worker : wk[u].pc # "idle"}]
<1>1. k \in Slot
  BY DefaultTypes, Zenon DEF Slot, Step
<1>2. /\ k.pc = pc /\ k.batch = batch /\ k.out = <<>> /\ k.edits = 0
  BY Zenon DEF IdleSlot
<1>3. wk' = [wk EXCEPT ![w] = k]
  BY Zenon DEF Begin
<1> HIDE DEF k
<1>4. queue' \in [Job -> Nat]
  BY QueueType, Zenon DEF IInv, CanBegin, Runnable, Begin
<1>5. TypeOK'
  BY <1>1, <1>3, <1>4, Zenon DEF IInv, TypeOK, device, setting, counter
<1>6. RequestInv' /\ RowsKept /\ UNCHANGED <<config, edits>>
  BY Zenon DEF IInv, RequestInv, RowsKept, device
<1>7. wk'[w] = k /\ \A u \in Worker \ {w} : wk'[u] = wk[u]
  BY <1>3, Zenon DEF IInv, TypeOK
<1>8. SlotShape(wk'[w]) /\ wk'[w].pc \notin Holding
  BY <1>2, <1>7 DEF SlotShape, Holding
<1>9. lock' # w
  BY Zenon DEF IInv, LockInv, CanBegin, Holding
<1>10. wk'[w].edits <= edits
  BY <1>2, <1>7 DEF IInv, TypeOK
<1>11. wk'[w].pc # "push" /\ \A i \in 1..Len(wk'[w].batch) : row'[wk'[w].batch[i]].status # "none"
  BY <1>2, <1>7, Zenon
<1> QED BY <1>5, <1>6, <1>7, <1>8, <1>9, <1>10, <1>11, SlotFrame, Zenon DEF IInv, SameSlot

\* A job that loads a change, a profile or nothing (a backup) keeps the invariant.
LEMMA LoadInv ==
    ASSUME IInv, NEW w \in Worker,
           \/ \E c \in Change, b \in BOOLEAN : LoadChange(w, c, b)
           \/ \E s \in Profiles, b \in BOOLEAN : LoadProfile(w, s, b)
           \/ StartBackup(w)
    PROVE  IInv'
<1>1. ASSUME NEW c \in Change, NEW b \in BOOLEAN, LoadChange(w, c, b)
      PROVE  IInv'
  <2> DEFINE batch == IF row[c].status = "scheduled" THEN <<c>> ELSE <<>>
  <2>1. batch \in Seq(Change) /\ \A i \in 1..Len(batch) : row[batch[i]].status # "none"
    OBVIOUS
  <2>2. Begin(w, ApplyJob(c, b), batch, AfterLoad(batch))
    BY <1>1, Zenon DEF LoadChange
  <2> HIDE DEF batch
  <2>3. /\ AfterLoad(batch) \in {"loaded", "refresh", "read"}
        /\ AfterLoad(batch) = "loaded" => batch # <<>>
    BY Zenon DEF AfterLoad
  <2> QED BY <1>1, <2>1, <2>2, <2>3, JobTypes, BeginInv, Zenon DEF LoadChange
<1>2. ASSUME NEW s \in Profiles, NEW b \in BOOLEAN, LoadProfile(w, s, b)
      PROVE  IInv'
  <2>1. PICK batch \in Scheduled(s) : Begin(w, ProfileJob(s, b), batch, AfterLoad(batch))
    BY <1>2, Zenon DEF LoadProfile
  <2>2. /\ batch \in Seq(Change)
        /\ \A i \in 1..Len(batch) : row[batch[i]].status # "none"
    <3>1. s \in Seq(Change) /\ Members(s) \subseteq Change
      BY ProfilesAssumption DEF Members
    <3>2. PICK n \in 0..Len(s) : batch \in [1..n -> Members(s)]
      BY Zenon DEF Scheduled
    <3>3. batch \in Seq(Change) /\ Len(batch) = n
      BY <3>1, <3>2
    <3>4. \A i \in 1..Len(batch) : batch[i] \in Members(batch)
      BY Zenon DEF Members
    <3>5. \A c \in Members(batch) : row[c].status = "scheduled"
      BY Zenon DEF Scheduled
    <3> QED BY <3>3, <3>4, <3>5, Zenon
  <2>3. /\ AfterLoad(batch) \in {"loaded", "refresh", "read"}
        /\ AfterLoad(batch) = "loaded" => batch # <<>>
    BY Zenon DEF AfterLoad
  <2> QED BY <1>2, <2>1, <2>2, <2>3, JobTypes, BeginInv, Zenon DEF LoadProfile
<1>3. CASE StartBackup(w)
  <2>1. <<>> \in Seq(Change) /\ \A i \in 1..Len(<<>>) : row[<<>>[i]].status # "none"
    OBVIOUS
  <2> QED BY <1>3, <2>1, JobTypes, BeginInv, Zenon DEF StartBackup
<1> QED BY <1>1, <1>2, <1>3, Zenon

\* What is known of a slot, its record type unfolded.
LEMMA SlotFacts ==
    ASSUME IInv, NEW w \in Worker
    PROVE  /\ wk[w] \in Slot
           /\ wk[w].pc \in Step
           /\ wk[w].job \in Job
           /\ wk[w].batch \in Seq(Change)
           /\ wk[w].out \in Seq(Status)
           /\ wk[w].xml \in Config \cup {None}
           /\ wk[w].live \in BOOLEAN
           /\ wk[w].edits \in Nat
           /\ wk[w].edits <= edits
           /\ SlotShape(wk[w])
           /\ lock = w <=> wk[w].pc \in Holding
           /\ \A i \in 1..Len(wk[w].batch) : row[wk[w].batch[i]].status # "none"
<1>1. wk[w] \in Slot
  BY Zenon DEF IInv, TypeOK
<1> QED BY <1>1, Zenon DEF Slot, IInv, EditsInv, ShapeInv, LockInv, LoadedInv

\* Winning or losing the advisory lock keeps the invariant: only a free lock is won.
LEMMA TryLockInv ==
    ASSUME IInv, NEW w \in Worker, TryLock(w)
    PROVE  IInv'
<1> USE SlotFacts
<1> DEFINE pc == IF lock = None THEN "locked" ELSE "refresh"
           k == [wk[w] EXCEPT !.pc = pc]
<1>1. wk' = [wk EXCEPT ![w] = k]
  BY Zenon DEF TryLock
<1>2. pc \in Step /\ pc # "push" /\ pc # "loaded" /\ pc # "commit"
  BY Zenon DEF Step
<1>3. k \in Slot /\ k.pc = pc /\ k.batch = wk[w].batch /\ k.out = wk[w].out /\ k.edits = wk[w].edits
  BY <1>2, SMTT(30) DEF Slot
<1> HIDE DEF k
<1>4. missed' \in SUBSET Change
  <2>1. Members(wk[w].batch) \subseteq Change
    BY DEF Members
  <2> QED BY <2>1, Zenon DEF TryLock, IInv, TypeOK
<1>5. TypeOK'
  BY <1>1, <1>3, <1>4, ZenonT(30) DEF TryLock, IInv, TypeOK, device, setting, counter
<1>6. RequestInv' /\ RowsKept /\ UNCHANGED <<config, edits>>
  BY Zenon DEF TryLock, IInv, RequestInv, RowsKept, device
<1>7. wk'[w] = k /\ \A u \in Worker \ {w} : wk'[u] = wk[u]
  BY <1>1, Zenon DEF IInv, TypeOK
<1>8. SlotShape(wk'[w])
  BY <1>2, <1>3, <1>7 DEF SlotShape, TryLock, Holding
<1>9. /\ lock' = w <=> wk'[w].pc \in Holding
      /\ \A u \in Worker \ {w} : lock' = u <=> lock = u
  <2>1. CASE lock = None
    <3>1. lock' = w /\ wk'[w].pc = "locked"
      BY <2>1, <1>3, <1>7, Zenon DEF TryLock
    <3> QED BY <2>1, <3>1, NoneAssumption, Zenon DEF Holding
  <2>2. CASE lock # None
    <3>1. lock' = lock /\ wk'[w].pc = "refresh" /\ wk[w].pc = "loaded"
      BY <2>2, <1>3, <1>7, Zenon DEF TryLock
    <3>2. lock # w
      BY <3>1, Zenon DEF IInv, LockInv, Holding
    <3> QED BY <3>1, <3>2, Zenon DEF Holding
  <2> QED BY <2>1, <2>2, Zenon
<1>10. \A i \in 1..Len(wk'[w].batch) : row'[wk'[w].batch[i]].status # "none"
  BY <1>3, <1>7, SMTT(30) DEF TryLock
<1> QED BY <1>2, <1>3, <1>5, <1>6, <1>7, <1>8, <1>9, <1>10, SlotFrame, Zenon DEF IInv, SameSlot

\* Every member gets the same outcome.
LEMMA DecideAllInv ==
    ASSUME IInv, NEW w \in Worker, NEW st \in {"failed", "conflict"},
           wk[w].pc = "locked", DecideAll(w, st),
           UNCHANGED <<device, setting, row, latest, queue, lock, req, sw, counter, missed>>
    PROVE  IInv'
<1> USE SlotFacts
<1> DEFINE out == [i \in 1..Len(wk[w].batch) |-> st]
           k == [wk[w] EXCEPT !.pc = "commit", !.out = out]
<1>1. wk' = [wk EXCEPT ![w] = k]
  BY Zenon DEF DecideAll
<1>2. out \in Seq(Status) /\ Len(out) = Len(wk[w].batch) /\ \A i \in 1..Len(out) : out[i] = st
  BY DEF Status
<1> HIDE DEF out
<1>0. wk[w] \in Slot
  BY Zenon
<1>3. k \in Slot /\ k.pc = "commit" /\ k.batch = wk[w].batch /\ k.out = out /\ k.edits = wk[w].edits
  BY <1>0, <1>2, ZenonT(30) DEF Slot, Step
<1> HIDE DEF k
<1>4. TypeOK'
  BY <1>1, <1>3, Zenon DEF IInv, TypeOK, device, setting, counter
<1>5. RequestInv' /\ RowsKept /\ UNCHANGED <<config, edits>>
  BY Zenon DEF IInv, RequestInv, RowsKept, device
<1>6. wk'[w] = k /\ \A u \in Worker \ {w} : wk'[u] = wk[u]
  BY <1>1, Zenon DEF IInv, TypeOK
<1>7. SlotShape(wk'[w])
  BY <1>2, <1>3, <1>6, Zenon DEF SlotShape, Holding
<1>8. lock' = w <=> wk'[w].pc \in Holding
  BY <1>3, <1>6, Zenon DEF Holding
<1> QED BY <1>3, <1>4, <1>5, <1>6, <1>7, <1>8, SlotFrame, SMTT(30) DEF IInv, SameSlot

\* The live read under the lock keeps the invariant, failed, stale or fresh.
LEMMA ReadInv ==
    ASSUME IInv, NEW w \in Worker, ReadFails(w) \/ ReadStale(w) \/ ReadFresh(w)
    PROVE  IInv'
<1>1. CASE ReadFails(w)
  BY <1>1, DecideAllInv, Zenon DEF ReadFails
<1>2. CASE ReadStale(w)
  BY <1>2, DecideAllInv, Zenon DEF ReadStale
<1>3. CASE ReadFresh(w)
  <2> USE SlotFacts
  <2> DEFINE k == [wk[w] EXCEPT !.pc = "push", !.xml = config, !.live = livePush, !.edits = edits]
  <2>1. wk' = [wk EXCEPT ![w] = k]
    BY <1>3, Zenon DEF ReadFresh
  <2>2. /\ k \in Slot
        /\ k.pc = "push" /\ k.batch = wk[w].batch /\ k.out = wk[w].out
        /\ k.edits = edits /\ k.xml = config
    <3>1. wk[w] \in Slot
      BY Zenon
    <3>2. config \in Config /\ livePush \in BOOLEAN /\ edits \in Nat
      BY Zenon DEF IInv, TypeOK
    <3> QED BY <3>1, <3>2, ZenonT(30) DEF Slot, Step
  <2> HIDE DEF k
  <2>3. TypeOK'
    BY <1>3, <2>1, <2>2, Zenon DEF ReadFresh, IInv, TypeOK, device, setting, counter
  <2>4. RequestInv' /\ RowsKept /\ UNCHANGED <<config, edits, row, lock>>
    BY <1>3, Zenon DEF ReadFresh, IInv, RequestInv, RowsKept, device
  <2>5. wk'[w] = k /\ \A u \in Worker \ {w} : wk'[u] = wk[u]
    BY <2>1, Zenon DEF IInv, TypeOK
  <2>6. wk[w].batch # <<>> /\ wk[w].out = <<>>
    BY <1>3, Zenon DEF ReadFresh, SlotShape, Holding
  <2>7. Len(<<>>) < Len(wk[w].batch)
    BY <2>6, SMTT(30)
  <2>8. SlotShape(wk'[w])
    BY <2>2, <2>5, <2>6, <2>7, Zenon DEF SlotShape, Holding
  <2>9. lock' = w <=> wk'[w].pc \in Holding
    BY <1>3, <2>2, <2>4, <2>5, Zenon DEF Holding, ReadFresh
  <2>10. row'[wk'[w].batch[1]].baseline \in {config, None}
    BY <1>3, <2>2, <2>4, <2>5, Zenon DEF ReadFresh, Fresh
  <2>11. wk'[w].edits <= edits
    BY <2>2, <2>5 DEF IInv, TypeOK
  <2> QED BY <2>2, <2>3, <2>4, <2>5, <2>8, <2>9, <2>10, <2>11, SlotFrame, SMTT(30) DEF IInv, SameSlot
<1> QED BY <1>1, <1>2, <1>3, Zenon

\* The member being pushed is a row.
LEMMA CurrentType ==
    ASSUME IInv, NEW w \in Worker, wk[w].pc = "push"
    PROVE  Current(w) \in Change
<1>1. wk[w].batch \in Seq(Change) /\ wk[w].out \in Seq(Status) /\ Len(wk[w].out) < Len(wk[w].batch)
  BY SlotFacts, Zenon DEF SlotShape
<1>2. Len(wk[w].out) + 1 \in 1..Len(wk[w].batch)
  BY <1>1, SMTT(30)
<1> QED BY <1>1, <1>2 DEF Current

\* The only step of the pipeline that writes to the firewall: the writer holds the lock, so no
\* other job is past its read.
LEMMA PushMemberInv ==
    ASSUME IInv, NEW w \in Worker, PushMember(w)
    PROVE  IInv'
<1>1. wk[w].pc = "push" /\ Current(w) \in Change
  BY CurrentType, Zenon DEF PushMember
<1>2. PICK o \in Outcomes(row[Current(w)].prop, config, wk[w].live) :
        /\ config' = o.cfg
        /\ pushes' = [pushes EXCEPT ![Current(w)] = IF o.wrote THEN @ + 1 ELSE @]
        /\ LET out == Append(wk[w].out, IF o.ok THEN "applied" ELSE "failed")
           IN  wk' = [wk EXCEPT ![w] =
                        [@ EXCEPT !.out = out,
                                  !.pc = IF Len(out) = Len(wk[w].batch) THEN "commit" ELSE "push"]]
        /\ UNCHANGED edits
  BY Zenon DEF PushMember, PushOne
<1>3. row[Current(w)].prop \in Proposal
  BY <1>1, Zenon DEF IInv, TypeOK, Row
<1>4. o.cfg \in Config /\ o.wrote \in BOOLEAN /\ o.ok \in BOOLEAN
  BY <1>3, SlotFacts, OutcomeTypes, Zenon DEF IInv, TypeOK
<1> DEFINE st == IF o.ok THEN "applied" ELSE "failed"
           out == Append(wk[w].out, st)
           pc == IF Len(out) = Len(wk[w].batch) THEN "commit" ELSE "push"
           k == [wk[w] EXCEPT !.out = out, !.pc = pc]
<1>5. wk' = [wk EXCEPT ![w] = k]
  BY <1>2, Zenon
<1>6. st \in {"applied", "failed"}
  BY Zenon
<1> HIDE DEF st
<1>7. /\ wk[w].out \in Seq(Status) /\ wk[w].batch \in Seq(Change)
      /\ Len(wk[w].out) < Len(wk[w].batch)
      /\ \A i \in 1..Len(wk[w].out) : wk[w].out[i] \in {"applied", "failed", "conflict"}
  BY <1>1, SlotFacts, Zenon DEF SlotShape
<1>8. /\ out \in Seq(Status)
      /\ Len(out) = Len(wk[w].out) + 1
      /\ out # <<>>
      /\ \A i \in 1..Len(out) : out[i] \in {"applied", "failed", "conflict"}
  <2>1. st \in Status
    BY <1>6, Zenon DEF Status
  <2>2. out \in Seq(Status) /\ Len(out) = Len(wk[w].out) + 1
    BY <2>1, <1>7
  <2>3. \A i \in 1..Len(out) : out[i] = IF i = Len(wk[w].out) + 1 THEN st ELSE wk[w].out[i]
    BY <2>1, <2>2, <1>7
  <2>4. out # <<>>
    BY <2>2, <1>7, SMTT(30)
  <2> QED BY <2>2, <2>3, <2>4, <1>6, <1>7
<1> HIDE DEF out
<1>9. pc \in {"push", "commit"} /\ (pc = "push" => Len(out) < Len(wk[w].batch))
      /\ (pc = "commit" => Len(out) = Len(wk[w].batch))
  BY <1>7, <1>8
<1> HIDE DEF pc
<1>10. k \in Slot /\ k.pc = pc /\ k.batch = wk[w].batch /\ k.out = out /\ k.edits = wk[w].edits
  <2>1. wk[w] \in Slot
    BY SlotFacts, Zenon
  <2> QED BY <2>1, <1>8, <1>9, Zenon DEF Slot, Step
<1> HIDE DEF k
<1>11. wk'[w] = k /\ \A u \in Worker \ {w} : wk'[u] = wk[u]
  BY <1>5, Zenon DEF IInv, TypeOK
<1>12. TypeOK'
  <2>1. pushes' \in [Change -> Nat]
    BY <1>1, <1>2, <1>4 DEF IInv, TypeOK
  <2>2. wk' \in [Worker -> Slot]
    BY <1>5, <1>10, Zenon DEF IInv, TypeOK
  <2> QED BY <1>2, <1>4, <2>1, <2>2, Zenon DEF PushMember, IInv, TypeOK, setting, counter
<1>13. RequestInv' /\ UNCHANGED <<row, lock, edits>>
  BY <1>2, Zenon DEF PushMember, IInv, RequestInv
<1>14. LockInv'
  <2>1. wk'[w].pc \in Holding /\ wk[w].pc \in Holding
    BY <1>1, <1>9, <1>10, <1>11, Zenon DEF Holding
  <2> QED BY <2>1, <1>11, <1>13, Zenon DEF LockInv, IInv
<1>15. ShapeInv'
  <2>1. SlotShape(wk'[w])
    BY <1>7, <1>8, <1>9, <1>10, <1>11, SMTT(30) DEF SlotShape, Holding
  <2> QED BY <2>1, <1>11, Zenon DEF ShapeInv, IInv
<1>16. LoadedInv' /\ EditsInv'
  BY <1>10, <1>11, <1>13 DEF LoadedInv, EditsInv, IInv
<1>17. NoClobber'
  <2>1. \A u \in Worker : u # w => wk'[u].pc # "push"
    BY <1>1, <1>11, Zenon DEF IInv, LockInv, Holding
  <2>2. wk'[w].out # <<>>
    BY <1>8, <1>10, <1>11, Zenon
  <2> QED BY <2>1, <2>2, Zenon DEF NoClobber
<1> QED BY <1>12, <1>13, <1>14, <1>15, <1>16, <1>17, Zenon DEF IInv

\* The members a failed profile push aborts keep the invariant.
LEMMA AbortRestInv ==
    ASSUME IInv, NEW w \in Worker, AbortRest(w)
    PROVE  IInv'
<1> DEFINE out == [i \in 1..Len(wk[w].batch) |->
                     IF i \in 1..Len(wk[w].out) THEN wk[w].out[i] ELSE "failed"]
           k == [wk[w] EXCEPT !.pc = "commit", !.out = out]
<1>1. wk' = [wk EXCEPT ![w] = k] /\ wk[w].pc = "push"
  BY Zenon DEF AbortRest
<1>2. /\ wk[w].out \in Seq(Status) /\ wk[w].batch \in Seq(Change)
      /\ \A i \in 1..Len(wk[w].out) : wk[w].out[i] \in {"applied", "failed", "conflict"}
      /\ Len(wk[w].out) < Len(wk[w].batch)
  BY <1>1, SlotFacts, Zenon DEF SlotShape
<1>3. \A i \in 1..Len(wk[w].batch) : out[i] \in {"applied", "failed", "conflict"}
  BY <1>2, Zenon
<1>4. out \in Seq(Status) /\ Len(out) = Len(wk[w].batch)
  BY <1>2, <1>3 DEF Status
<1> HIDE DEF out
<1>5. k \in Slot /\ k.pc = "commit" /\ k.batch = wk[w].batch /\ k.out = out /\ k.edits = wk[w].edits
  <2>1. wk[w] \in Slot
    BY SlotFacts, Zenon
  <2> QED BY <2>1, <1>4, ZenonT(30) DEF Slot, Step
<1> HIDE DEF k
<1>6. TypeOK'
  BY <1>1, <1>5, Zenon DEF AbortRest, IInv, TypeOK, device, setting, counter
<1>7. RequestInv' /\ RowsKept /\ UNCHANGED <<config, edits, row, lock>>
  BY Zenon DEF AbortRest, IInv, RequestInv, RowsKept, device
<1>8. wk'[w] = k /\ \A u \in Worker \ {w} : wk'[u] = wk[u]
  BY <1>1, Zenon DEF IInv, TypeOK
<1>9. SlotShape(wk'[w])
  BY <1>2, <1>3, <1>4, <1>5, <1>8, SMTT(30) DEF SlotShape, Holding
<1>10. lock' = w <=> wk'[w].pc \in Holding
  BY <1>1, <1>5, <1>7, <1>8, SlotFacts, Zenon DEF Holding
<1> QED BY <1>5, <1>6, <1>7, <1>8, <1>9, <1>10, SlotFacts, SlotFrame, SMTT(30) DEF IInv, SameSlot

\* What the commit writes to the row of a member.
LEMMA WrittenType ==
    ASSUME IInv, NEW w \in Worker, wk[w].pc = "commit", NEW i \in 1..Len(wk[w].batch)
    PROVE  /\ Written(w, i) \in Row
           /\ Written(w, i).status # "none"
           /\ Written(w, i).baseline = row[wk[w].batch[i]].baseline
<1> DEFINE r == row[wk[w].batch[i]]
           st == wk[w].out[i]
           res == CASE wk[w].out[i] # "applied" -> "error"
                    [] wk[w].out[i] = "applied" /\ wk[w].live -> "live"
                    [] wk[w].out[i] = "applied" /\ ~wk[w].live -> "dry"
           snap == CASE wk[w].xml = None -> r.snap
                     [] wk[w].xml # None /\ wk[w].live -> wk[w].xml
                     [] wk[w].xml # None /\ ~wk[w].live ->
                           IF wk[w].job.fn = "apply_profile_changes" THEN None ELSE r.snap
<1>1. r \in Row
  BY SlotFacts, SMTT(30) DEF IInv, TypeOK
<1>2. st \in Status /\ st # "none"
  <2>1. i \in 1..Len(wk[w].out)
    BY SlotFacts, Zenon DEF SlotShape
  <2> QED BY <2>1, SlotFacts, Zenon DEF SlotShape, Status
<1>3. res \in Result
  BY SlotFacts, Zenon DEF Result
<1>4. snap \in Config \cup {None}
  BY <1>1, SlotFacts, Zenon DEF Row
<1>5. Written(w, i) = [r EXCEPT !.status = st, !.result = res, !.snap = snap]
  BY Zenon DEF Written
<1> HIDE DEF r, st, res, snap
<1>6. /\ Written(w, i) \in Row
      /\ Written(w, i).status = st
      /\ Written(w, i).baseline = r.baseline
  BY <1>1, <1>2, <1>3, <1>4, <1>5, ZenonT(30) DEF Row
<1> QED BY <1>2, <1>6, Zenon DEF r

\* Storing a snapshot touches only the bookkeeping of snapshot times.
LEMMA MarkLateSlot ==
    ASSUME NEW w \in Worker, NEW slots, NEW u \in Worker, slots[u] \in Slot
    PROVE  MarkLate(w, slots)[u] \in Slot /\ SameSlot(MarkLate(w, slots)[u], slots[u])
<1>1. PICK b \in BOOLEAN : MarkLate(w, slots)[u] = [slots[u] EXCEPT !.late = b]
  <2> DEFINE b == slots[u].late \/ u \in wk[w].older
  <2>1. b \in BOOLEAN /\ MarkLate(w, slots)[u] = [slots[u] EXCEPT !.late = b]
    BY Zenon DEF MarkLate
  <2> QED BY <2>1, Zenon
<1> QED BY <1>1, Zenon DEF Slot, SameSlot

\* The commit of an apply releases the lock with its rows and keeps the invariant.
LEMMA CommitApplyInv ==
    ASSUME IInv, NEW w \in Worker, CommitApply(w)
    PROVE  IInv'
<1>1. wk[w].pc = "commit"
  BY Zenon DEF CommitApply
<1> DEFINE At(c) == CHOOSE i \in 1..Len(wk[w].batch) : wk[w].batch[i] = c
<1>2. \A c \in Members(wk[w].batch) : At(c) \in 1..Len(wk[w].batch) /\ wk[w].batch[At(c)] = c
  BY Zenon DEF Members
<1>3. row' = [c \in Change |-> IF c \in Members(wk[w].batch) THEN Written(w, At(c)) ELSE row[c]]
  BY Zenon DEF CommitApply
<1> HIDE DEF At
<1>4. row' \in [Change -> Row]
  BY <1>1, <1>2, <1>3, WrittenType, Zenon DEF IInv, TypeOK
<1>5. RowsKept
  BY <1>1, <1>2, <1>3, WrittenType DEF RowsKept
<1> DEFINE ended == [wk EXCEPT ![w].pc = "refresh"]
<1>6. ASSUME NEW u \in Worker
      PROVE  /\ ended[u] \in Slot
             /\ ended[u].pc = IF u = w THEN "refresh" ELSE wk[u].pc
             /\ SameSlot([ended[u] EXCEPT !.pc = wk[u].pc], wk[u])
  <2>1. wk[u] \in Slot /\ wk \in [Worker -> Slot]
    BY SlotFacts, Zenon DEF IInv, TypeOK
  <2> QED BY <2>1, ZenonT(30) DEF Slot, Step, SameSlot
<1>7. /\ wk' = [u \in Worker |-> wk'[u]]
      /\ \A u \in Worker :
            /\ wk'[u] \in Slot
            /\ wk'[u].pc = IF u = w THEN "refresh" ELSE wk[u].pc
            /\ SameSlot([wk'[u] EXCEPT !.pc = wk[u].pc], wk[u])
  <2>1. CASE wk[w].live
    <3>1. wk' = MarkLate(w, ended)
      BY <2>1, Zenon DEF CommitApply
    <3> HIDE DEF ended
    <3>2. \A u \in Worker : MarkLate(w, ended)[u] \in Slot /\ SameSlot(MarkLate(w, ended)[u], ended[u])
      BY <1>6, MarkLateSlot DEF SameSlot
    <3>3. MarkLate(w, ended) = [u \in Worker |-> MarkLate(w, ended)[u]]
      BY Zenon DEF MarkLate
    <3> QED BY <1>6, <3>1, <3>2, <3>3 DEF SameSlot, Slot
  <2>2. CASE ~wk[w].live
    <3>1. wk' = ended
      BY <2>2, Zenon DEF CommitApply
    <3>2. ended = [u \in Worker |-> ended[u]]
      BY Zenon DEF IInv, TypeOK
    <3> HIDE DEF ended
    <3> QED BY <1>6, <3>1, <3>2, Zenon
  <2> QED BY <2>1, <2>2, Zenon
<1>8. wk' \in [Worker -> Slot]
  BY <1>6, <1>7, Zenon
<1>9. latest' \in Config \cup {None}
  BY SlotFacts, Zenon DEF CommitApply, Newest, IInv, TypeOK
<1>10. TypeOK'
  BY <1>4, <1>8, <1>9, Zenon DEF CommitApply, IInv, TypeOK, device, setting, counter
<1>11. RequestInv' /\ UNCHANGED <<config, edits>> /\ lock' = None
  BY Zenon DEF CommitApply, IInv, RequestInv, device
<1>12. SlotShape(wk'[w]) /\ wk'[w].pc \notin Holding /\ wk'[w].pc # "push"
  BY <1>7, SlotFacts, Zenon DEF SlotShape, Holding, SameSlot, Slot
<1>13. \A u \in Worker : lock' # u
  BY <1>11, NoneAssumption, Zenon
<1>14. \A u \in Worker \ {w} : lock # u
  BY <1>1, SlotFacts, Zenon DEF Holding
<1>15. \A i \in 1..Len(wk'[w].batch) : row'[wk'[w].batch[i]].status # "none"
  BY <1>5, <1>7, SlotFacts DEF RowsKept, SameSlot, Slot
<1>16. /\ \A u \in Worker \ {w} : SameSlot(wk'[u], wk[u])
       /\ wk'[w].edits <= edits
  BY <1>7, SlotFacts, Zenon DEF SameSlot, Slot
<1> QED BY <1>5, <1>10, <1>11, <1>12, <1>13, <1>14, <1>15, <1>16, SlotFrame, Zenon DEF IInv

(***************************************************************************)
(* The environment                                                         *)
(***************************************************************************)

\* The cron that enqueues backups, an edit outside the lock, and the settings keep the invariant.
LEMMA EnvironmentInv ==
    ASSUME IInv, EnqueueBackups \/ UnlockedEdit \/ SetLivePush \/ OpenWindow
    PROVE  IInv'
<1>1. CASE EnqueueBackups
  <2>1. queue' \in [Job -> Nat]
    BY <1>1, JobTypes, QueueType, Zenon DEF EnqueueBackups, IInv
  <2>2. TypeOK' /\ RequestInv'
    BY <1>1, <2>1 DEF EnqueueBackups, IInv, TypeOK, RequestInv, device, setting
  <2>3. RowsKept /\ UNCHANGED <<wk, lock, config, edits>>
    BY <1>1, Zenon DEF EnqueueBackups, device, RowsKept
  <2> QED BY <2>2, <2>3, RowFrame, Zenon DEF IInv
<1>2. CASE UnlockedEdit
  <2>1. TypeOK' /\ RequestInv'
    BY <1>2 DEF UnlockedEdit, IInv, TypeOK, RequestInv, setting, counter
  <2>2. LockInv' /\ ShapeInv' /\ LoadedInv'
    BY <1>2, Zenon DEF UnlockedEdit, IInv, LockInv, ShapeInv, LoadedInv
  <2>3. \A w \in Worker : wk'[w].edits <= edits /\ edits' = edits + 1 /\ wk'[w].edits \in Nat
    BY <1>2, Zenon DEF UnlockedEdit, IInv, EditsInv, TypeOK, Slot
  <2>4. EditsInv' /\ NoClobber'
    BY <2>3 DEF EditsInv, NoClobber, IInv, TypeOK
  <2> QED BY <2>1, <2>2, <2>4, Zenon DEF IInv
<1>3. CASE SetLivePush
  <2>1. TypeOK' /\ RequestInv'
    BY <1>3 DEF SetLivePush, IInv, TypeOK, RequestInv, device
  <2>2. RowsKept /\ UNCHANGED <<wk, lock, config, edits>>
    BY <1>3, Zenon DEF SetLivePush, device, RowsKept
  <2> QED BY <2>1, <2>2, RowFrame, Zenon DEF IInv
<1>4. CASE OpenWindow
  <2>1. TypeOK' /\ RequestInv'
    BY <1>4, Zenon DEF OpenWindow, IInv, TypeOK, RequestInv, device, counter
  <2>2. RowsKept /\ UNCHANGED <<wk, lock, config, edits>>
    BY <1>4, Zenon DEF OpenWindow, device, RowsKept
  <2> QED BY <2>1, <2>2, RowFrame, Zenon DEF IInv
<1> QED BY <1>1, <1>2, <1>3, <1>4, Zenon

(***************************************************************************)
(* The end of a job                                                        *)
(***************************************************************************)

\* The slots after job w left.
LEMMA LeaveSlots ==
    ASSUME IInv, NEW w \in Worker
    PROVE  /\ Leave(w) = [u \in Worker |-> Leave(w)[u]]
           /\ Leave(w)[w] = IdleSlot
           /\ \A u \in Worker : Leave(w)[u] \in Slot
           /\ \A u \in Worker \ {w} : SameSlot(Leave(w)[u], wk[u])
<1>1. Leave(w) = [u \in Worker |-> Leave(w)[u]] /\ Leave(w)[w] = IdleSlot
  BY Zenon DEF Leave
<1>2. ASSUME NEW u \in Worker \ {w}
      PROVE  Leave(w)[u] \in Slot /\ SameSlot(Leave(w)[u], wk[u])
  <2>1. wk[u] \in Slot
    BY SlotFacts, Zenon
  <2>2. Leave(w)[u] = [wk[u] EXCEPT !.older = @ \ {w}]
    BY Zenon DEF Leave
  <2> QED BY <2>1, <2>2, Zenon DEF Slot, SameSlot
<1> QED BY <1>1, <1>2, DefaultTypes, Zenon

\* A job that leaves releases the lock and disturbs no other slot.
LEMMA LeaveFrame ==
    ASSUME IInv, TypeOK', RowsKept, UNCHANGED <<config, edits>>, NEW w \in Worker,
           wk'[w] = IdleSlot,
           \A u \in Worker \ {w} : SameSlot(wk'[u], wk[u]),
           lock' = IF lock = w THEN None ELSE lock
    PROVE  LockInv' /\ ShapeInv' /\ LoadedInv' /\ EditsInv' /\ NoClobber'
<1>1. /\ wk'[w].pc = "idle" /\ wk'[w].batch = <<>> /\ wk'[w].out = <<>> /\ wk'[w].edits = 0
  BY DEF IdleSlot
<1>2. SlotShape(wk'[w]) /\ wk'[w].pc \notin Holding
  BY <1>1 DEF SlotShape, Holding
<1>3. lock' # w /\ \A u \in Worker \ {w} : lock' = u <=> lock = u
  BY NoneAssumption, Zenon
<1>4. wk'[w].edits <= edits /\ \A i \in 1..Len(wk'[w].batch) : row'[wk'[w].batch[i]].status # "none"
  BY <1>1 DEF IInv, TypeOK
<1> QED BY <1>1, <1>2, <1>3, <1>4, SlotFrame, Zenon

\* A job's last steps (the follow-up backup, a backup's read and store) and its end in a crash or
\* a timeout keep the invariant.
LEMMA EndOfJobInv ==
    ASSUME IInv, NEW w \in Worker,
           EnqueueRefresh(w) \/ BackupRead(w) \/ BackupStore(w) \/ CrashJob(w)
    PROVE  IInv'
<1>0. \A u \in Worker : lock = u <=> wk[u].pc \in Holding
  BY Zenon DEF IInv, LockInv
<1>1. CASE EnqueueRefresh(w)
  <2>1. queue' \in [Job -> Nat]
    BY <1>1, JobTypes, QueueType, Zenon DEF EnqueueRefresh, IInv, TypeOK
  <2>2. TypeOK'
    BY <1>1, <2>1, LeaveSlots, Zenon DEF EnqueueRefresh, IInv, TypeOK, device, setting, counter
  <2>3. RequestInv' /\ RowsKept /\ UNCHANGED <<config, edits, lock>> /\ wk' = Leave(w)
    BY <1>1, Zenon DEF EnqueueRefresh, IInv, RequestInv, RowsKept, device
  <2>4. lock # w
    BY <1>0, <1>1, Zenon DEF EnqueueRefresh, Holding
  <2> QED BY <2>2, <2>3, <2>4, LeaveSlots, LeaveFrame, Zenon DEF IInv
<1>2. CASE BackupRead(w)
  <2>1. RequestInv' /\ RowsKept /\ UNCHANGED <<config, edits, lock>> /\ lock # w
    BY <1>0, <1>2, Zenon DEF BackupRead, IInv, RequestInv, RowsKept, device, Holding
  <2>2. CASE wk' = Leave(w)
    <3>1. TypeOK'
      BY <1>2, <2>2, LeaveSlots, Zenon DEF BackupRead, IInv, TypeOK, device, setting, counter
    <3> QED BY <2>1, <2>2, <3>1, LeaveSlots, LeaveFrame, Zenon DEF IInv
  <2>3. CASE wk' = [wk EXCEPT ![w] = [@ EXCEPT !.pc = "store", !.xml = config]]
    <3> DEFINE k == [wk[w] EXCEPT !.pc = "store", !.xml = config]
    <3>1. wk[w] \in Slot /\ config \in Config
      BY SlotFacts, Zenon DEF IInv, TypeOK
    <3>2. /\ k \in Slot /\ k.pc = "store"
          /\ k.batch = wk[w].batch /\ k.out = wk[w].out /\ k.edits = wk[w].edits
      BY <3>1, Zenon DEF Slot, Step
    <3>3. wk' = [wk EXCEPT ![w] = k]
      BY <2>3, Zenon
    <3> HIDE DEF k
    <3>4. TypeOK'
      BY <1>2, <3>2, <3>3, Zenon DEF BackupRead, IInv, TypeOK, device, setting, counter
    <3>5. wk'[w] = k /\ \A u \in Worker \ {w} : wk'[u] = wk[u]
      BY <3>3, Zenon DEF IInv, TypeOK
    <3>6. SlotShape(wk'[w]) /\ wk'[w].pc \notin Holding /\ wk'[w].pc # "push"
      BY <3>2, <3>5, SlotFacts, Zenon DEF SlotShape, Holding
    <3>7. /\ wk'[w].edits <= edits
          /\ \A i \in 1..Len(wk'[w].batch) : row'[wk'[w].batch[i]].status # "none"
      BY <1>2, <3>2, <3>5, SlotFacts, Zenon DEF BackupRead
    <3> QED BY <2>1, <3>4, <3>5, <3>6, <3>7, SlotFrame, Zenon DEF IInv, SameSlot
  <2> QED BY <1>2, <2>2, <2>3, Zenon DEF BackupRead
<1>3. CASE BackupStore(w)
  <2>1. RequestInv' /\ RowsKept /\ UNCHANGED <<config, edits, lock>> /\ lock # w
    BY <1>0, <1>3, Zenon DEF BackupStore, IInv, RequestInv, RowsKept, device, Holding
  <2>2. /\ wk' = [u \in Worker |-> wk'[u]]
        /\ \A u \in Worker : wk'[u] \in Slot /\ SameSlot(wk'[u], Leave(w)[u])
        /\ wk'[w] = IdleSlot \/ wk'[w] = MarkLate(w, Leave(w))[w]
    <3>1. CASE latest = wk[w].xml
      BY <1>3, <3>1, LeaveSlots, Zenon DEF BackupStore, SameSlot
    <3>2. CASE latest # wk[w].xml
      <4>1. wk' = MarkLate(w, Leave(w))
        BY <1>3, <3>2, Zenon DEF BackupStore
      <4>2. MarkLate(w, Leave(w)) = [u \in Worker |-> MarkLate(w, Leave(w))[u]]
        BY Zenon DEF MarkLate
      <4> QED BY <4>1, <4>2, LeaveSlots, MarkLateSlot, Zenon
    <3> QED BY <3>1, <3>2, Zenon
  <2>3. latest' \in Config \cup {None}
    BY <1>3, SlotFacts, Zenon DEF BackupStore, Newest, IInv, TypeOK
  <2>4. TypeOK'
    BY <1>3, <2>2, <2>3, Zenon DEF BackupStore, IInv, TypeOK, device, setting, counter
  <2>5. /\ \A u \in Worker \ {w} : SameSlot(wk'[u], wk[u])
        /\ wk'[w].pc = "idle" /\ wk'[w].batch = <<>> /\ wk'[w].out = <<>> /\ wk'[w].edits = 0
    BY <2>2, LeaveSlots DEF SameSlot, IdleSlot
  <2>6. SlotShape(wk'[w]) /\ wk'[w].pc \notin Holding
    BY <2>5, SMTT(30) DEF SlotShape, Holding
  <2>7. wk'[w].edits <= edits /\ \A i \in 1..Len(wk'[w].batch) : row'[wk'[w].batch[i]].status # "none"
    BY <2>5 DEF IInv, TypeOK
  <2> QED BY <2>1, <2>4, <2>5, <2>6, <2>7, SlotFrame, Zenon DEF IInv
<1>4. CASE CrashJob(w)
  <2>1. queue' \in [Job -> Nat]
    BY <1>4, SlotFacts, QueueType, Zenon DEF CrashJob, IInv, TypeOK
  <2>2. TypeOK'
    BY <1>4, <2>1, LeaveSlots, SMTT(30) DEF CrashJob, IInv, TypeOK, device, setting
  <2>3. RequestInv' /\ RowsKept /\ UNCHANGED <<config, edits>> /\ wk' = Leave(w)
    BY <1>4, Zenon DEF CrashJob, IInv, RequestInv, RowsKept, device
  <2> QED BY <1>4, <2>2, <2>3, LeaveSlots, LeaveFrame, Zenon DEF IInv, CrashJob
<1> QED BY <1>1, <1>2, <1>3, <1>4, Zenon

(***************************************************************************)
(* Theorems                                                                *)
(***************************************************************************)

\* Nothing is wrong at the start.
LEMMA InitInv == Init => IInv
<1> SUFFICES ASSUME Init PROVE IInv
  BY Zenon
<1>1. TypeOK
  BY DefaultTypes, Zenon DEF Init, TypeOK
<1>2. \A w \in Worker : wk[w] = IdleSlot
  BY Zenon DEF Init
<1>3. \A w \in Worker : /\ wk[w].pc = "idle" /\ wk[w].batch = <<>>
                        /\ wk[w].out = <<>> /\ wk[w].edits = 0
  BY <1>2, SMTT(30) DEF IdleSlot
<1>4. LockInv /\ NoClobber
  BY <1>3, NoneAssumption, Zenon DEF Init, LockInv, NoClobber, Holding
<1>5. ShapeInv /\ LoadedInv
  BY <1>3 DEF ShapeInv, LoadedInv, SlotShape, Holding
<1>6. EditsInv
  BY <1>3 DEF Init, EditsInv
<1>7. RequestInv
  BY Zenon DEF Init, RequestInv, IdleHandler, IdleSweep
<1> QED BY <1>1, <1>4, <1>5, <1>6, <1>7, Zenon DEF IInv

\* No step of a handler, a job, the sweeper or the environment breaks the invariant.
LEMMA NextInv == IInv /\ [Next]_vars => IInv'
<1> SUFFICES ASSUME IInv, [Next]_vars PROVE IInv'
  BY Zenon
<1>1. ASSUME NEW w \in Worker, WorkerStep(w)
      PROVE  IInv'
  BY <1>1, LoadInv, TryLockInv, ReadInv, PushMemberInv, AbortRestInv, CommitApplyInv, EndOfJobInv, Zenon
     DEF WorkerStep
<1>2. CASE UNCHANGED vars
  <2>1. UNCHANGED <<config, edits, pushes, livePush, window, row, latest, queue, lock, missed, wk, req,
                    sw, requests, toggles, crashes, crons>>
    BY <1>2, Zenon DEF vars, device, setting, counter
  <2>2. TypeOK' /\ RequestInv' /\ RowsKept
    BY <2>1, Zenon DEF IInv, TypeOK, RequestInv, RowsKept
  <2> QED BY <2>1, <2>2, RowFrame, Zenon DEF IInv
<1>3. CASE Next
  BY <1>1, <1>3, CreateChangeInv, ApiStepInv, FinishRequestInv, EndOfJobInv, SweepInv, EnvironmentInv, Zenon
     DEF Next
<1> QED BY <1>2, <1>3, Zenon

\* The variables stay in their types; in particular no job is started that was not queued.
THEOREM TypeCorrect == Spec => []TypeOK
<1>1. IInv => TypeOK
  BY Zenon DEF IInv
<1> QED BY <1>1, InitInv, NextInv, PTL DEF Spec

\* apply_change and apply_profile_sequence do not clobber: whatever the other jobs, requests and
\* crashes, a job's first write goes to the configuration it read and kept as its rollback point, which
\* is the one the operator's proposal was made against.
THEOREM NothingClobbered == Spec => []NoClobber
<1>1. IInv => NoClobber
  BY Zenon DEF IInv
<1> QED BY <1>1, InitInv, NextInv, PTL DEF Spec

\* Within the pipeline only PushMember writes to the firewall.
LEMMA Writers ==
    ASSUME Next, config' # config, edits' = edits, TypeOK
    PROVE  \E w \in Worker : PushMember(w)
<1>1. \A c \in Change, p \in Drafts : ~CreateChange(c, p)
  BY Zenon DEF CreateChange, device
<1>2. \A r \in Request : ~ApiStep(r)
  BY ZenonT(30) DEF ApiStep, ApplyTemplate, ApplyProfile, RevertChange, LoadForRequest, LoseRequest, device
<1>3. \A r \in Request : ~FinishRequest(r)
  BY Zenon DEF FinishRequest, CommitSchedule, CommitCancel, EnqueueRequest, device
<1>4. \A w \in Worker : WorkerStep(w) => PushMember(w)
  BY ZenonT(30) DEF WorkerStep, LoadChange, LoadProfile, TryLock, ReadFails, ReadStale, ReadFresh, AbortRest,
         CommitApply, EnqueueRefresh, StartBackup, BackupRead, BackupStore, device
<1>5. \A w \in Worker : ~CrashJob(w)
  BY Zenon DEF CrashJob, device
<1>6. ~SweepStep /\ \A c \in Change : ~SweepLoad(c)
  BY Zenon DEF SweepStep, SweepLoad, SweepSkip, SweepRetry, SweepEnqueue, SweepGiveUp, device
<1>7. ~EnqueueBackups /\ ~UnlockedEdit /\ ~SetLivePush /\ ~OpenWindow
  BY DEF EnqueueBackups, UnlockedEdit, SetLivePush, OpenWindow, device, TypeOK
<1> QED BY <1>1, <1>2, <1>3, <1>4, <1>5, <1>6, <1>7, Zenon DEF Next

\* "The lock makes us the only writer": between a job's read of config.xml and its last member, the
\* pipeline changes the firewall only by that job's own pushes.
THEOREM OnlyWriter == Spec => SoleWriter
<1> DEFINE A == \A w \in Worker :
                  wk[w].pc = "push" /\ config' # config /\ edits' = edits => wk'[w].out # wk[w].out
<1>1. IInv /\ [Next]_vars => [A]_vars
  <2> SUFFICES ASSUME IInv, Next, NEW w \in Worker, wk[w].pc = "push", config' # config, edits' = edits
               PROVE  wk'[w].out # wk[w].out
    BY Zenon
  <2>1. PICK u \in Worker : PushMember(u)
    BY Writers, Zenon DEF IInv
  <2>2. u = w
    BY <2>1, Zenon DEF PushMember, IInv, LockInv, Holding
  <2>3. PICK x \in {"applied", "failed"} : wk'[w].out = Append(wk[w].out, x)
    <3>1. PICK o \in Outcomes(row[Current(w)].prop, config, wk[w].live) :
            LET out == Append(wk[w].out, IF o.ok THEN "applied" ELSE "failed")
            IN  wk' = [wk EXCEPT ![w] =
                         [@ EXCEPT !.out = out,
                                   !.pc = IF Len(out) = Len(wk[w].batch) THEN "commit" ELSE "push"]]
      BY <2>1, <2>2, Zenon DEF PushMember, PushOne
    <3> DEFINE out == Append(wk[w].out, IF o.ok THEN "applied" ELSE "failed")
               pc == IF Len(out) = Len(wk[w].batch) THEN "commit" ELSE "push"
               k == [wk[w] EXCEPT !.out = out, !.pc = pc]
    <3>2. wk' = [wk EXCEPT ![w] = k]
      BY <3>1, Zenon
    <3> HIDE DEF pc
    <3>3. k.out = out
      <4>1. wk[w] \in Slot
        BY SlotFacts, Zenon
      <4> HIDE DEF out
      <4> QED BY <4>1, Zenon DEF Slot
    <3> HIDE DEF k
    <3>4. wk'[w] = k
      BY <3>2, Zenon DEF IInv, TypeOK
    <3> QED BY <3>3, <3>4, Zenon
  <2>4. Len(Append(wk[w].out, x)) = Len(wk[w].out) + 1 /\ Len(wk[w].out) \in Nat
    BY SlotFacts DEF Status
  <2> QED BY <2>3, <2>4
<1>2. Spec => []IInv
  BY InitInv, NextInv, PTL DEF Spec
<1> QED BY <1>1, <1>2, PTL DEF Spec, SoleWriter

\* build_inverse: for every kind, operation and configuration but an upsert proposed as an "add", the
\* inverse of an accepted change is accepted by what the change left behind and restores what was there.
THEOREM InverseUndoes ==
    ASSUME NEW p \in Proposal, NEW before \in Config, Accepts(p, before),
           p.kind = "firewall_rule" => p.op # "add",
           NEW q \in Inverse(p, {before})
    PROVE  Undoes(q, p, before)
<1> DEFINE t == p.target
           after == Effect(p, before)
<1>1. t \in Target /\ p.kind \in Kind /\ p.op \in Operation /\ p.value \in Value
  BY Zenon DEF Proposal
<1>2. /\ after = [before EXCEPT ![t] = IF p.op = "delete" THEN Absent ELSE p.value]
      /\ before[t] \in Value \cup {Absent}
  BY <1>1, Zenon DEF Effect, Config
<1>3. after[t] = IF p.op = "delete" THEN Absent ELSE p.value
  BY <1>1, <1>2, Zenon DEF Config
<1>4. \A v : [after EXCEPT ![t] = v] = [before EXCEPT ![t] = v]
  BY <1>1, <1>2, Zenon DEF Config
<1>5. [before EXCEPT ![t] = before[t]] = before
  BY <1>1, Zenon DEF Config
<1> HIDE DEF after
<1>6. SUFFICES /\ q.target = t
               /\ Accepts(q, after)
               /\ (IF q.op = "delete" THEN Absent ELSE q.value) = before[t]
  BY <1>4, <1>5, Zenon DEF Undoes, Effect, after
<1>7. CASE p.kind = "alias"
  <2>1. q \in InvertAlias(p, {before})
    BY <1>7, Zenon DEF Inverse
  <2>2. CASE p.op = "add"
    <3>1. q = [p EXCEPT !.op = "delete"]
      BY <2>1, <2>2, Zenon DEF InvertAlias
    <3>2. q.kind = "alias" /\ q.op = "delete" /\ q.target = t
      BY <3>1, <1>7, Zenon DEF Proposal
    <3>3. before[t] = Absent /\ after[t] # Absent
      BY <1>1, <1>3, <1>7, <2>2, DomainAssumption, Zenon DEF Accepts
    <3> QED BY <3>2, <3>3, Zenon DEF Accepts
  <2>3. CASE p.op # "add"
    <3>1. /\ before[t] # Absent
          /\ q = [p EXCEPT !.op = IF p.op = "delete" THEN "add" ELSE "set", !.value = before[t]]
      BY <2>1, <2>3, Zenon DEF InvertAlias
    <3>2. /\ q.kind = "alias" /\ q.target = t /\ q.value = before[t]
          /\ q.op = IF p.op = "delete" THEN "add" ELSE "set"
      BY <3>1, <1>7, Zenon DEF Proposal
    <3>3. after[t] = Absent <=> p.op = "delete"
      BY <1>1, <1>3, DomainAssumption, Zenon
    <3> QED BY <3>2, <3>3, Zenon DEF Accepts
  <2> QED BY <2>2, <2>3, Zenon
<1>8. CASE p.kind = "firewall_rule"
  <2>1. q \in InvertFirewallRule(p, {before}) /\ p.op # "add"
    BY <1>8, Zenon DEF Inverse
  <2>2. \/ before[t] # Absent /\ q = [p EXCEPT !.op = "set", !.value = before[t]]
        \/ before[t] = Absent /\ q = [p EXCEPT !.op = "delete"]
    BY <2>1, Zenon DEF InvertFirewallRule
  <2>3. /\ q.kind = "firewall_rule" /\ q.target = t
        /\ \/ before[t] # Absent /\ q.op = "set" /\ q.value = before[t]
           \/ before[t] = Absent /\ q.op = "delete"
    BY <1>8, <2>2, Zenon DEF Proposal
  <2> QED BY <2>3, Zenon DEF Accepts
<1>9. CASE p.kind = "unregistered"
  BY <1>9, Zenon DEF Inverse
<1> QED BY <1>1, <1>7, <1>8, <1>9, Zenon DEF Kind

\* build_inverse restores the object: the inverse addresses the object of the change, and puts the
\* contents of the snapshot back.
LEMMA InverseRestores ==
    ASSUME NEW p \in Proposal, NEW before \in Config,
           p.kind = "firewall_rule" => p.op # "add",
           p.kind = "alias" /\ p.op = "add" => before[p.target] = Absent,
           NEW q \in Inverse(p, {before})
    PROVE  /\ q.target = p.target
           /\ (IF q.op = "delete" THEN Absent ELSE q.value) = before[p.target]
<1> DEFINE t == p.target
<1>1. CASE p.kind = "alias"
  <2>1. q \in InvertAlias(p, {before})
    BY <1>1, Zenon DEF Inverse
  <2>2. CASE p.op = "add"
    <3>1. q = [p EXCEPT !.op = "delete"]
      BY <2>1, <2>2, Zenon DEF InvertAlias
    <3> QED BY <1>1, <2>2, <3>1, Zenon DEF Proposal
  <2>3. CASE p.op # "add"
    <3>1. q = [p EXCEPT !.op = IF p.op = "delete" THEN "add" ELSE "set", !.value = before[t]]
      BY <2>1, <2>3, Zenon DEF InvertAlias
    <3>2. q.target = t /\ q.value = before[t] /\ q.op = IF p.op = "delete" THEN "add" ELSE "set"
      BY <3>1, Zenon DEF Proposal
    <3> QED BY <3>2, Zenon
  <2> QED BY <2>2, <2>3, Zenon
<1>2. CASE p.kind = "firewall_rule"
  <2>1. q \in InvertFirewallRule(p, {before}) /\ p.op # "add"
    BY <1>2, Zenon DEF Inverse
  <2>2. \/ q = [p EXCEPT !.op = "set", !.value = before[t]]
        \/ before[t] = Absent /\ q = [p EXCEPT !.op = "delete"]
    BY <2>1, Zenon DEF InvertFirewallRule
  <2>3. /\ q.target = t
        /\ \/ q.op = "set" /\ q.value = before[t]
           \/ before[t] = Absent /\ q.op = "delete"
    BY <2>2, Zenon DEF Proposal
  <2> QED BY <2>3, Zenon
<1>3. CASE p.kind = "unregistered"
  BY <1>3, Zenon DEF Inverse
<1> QED BY <1>1, <1>2, <1>3, Zenon DEF Proposal, Kind

(***************************************************************************)
(* What is remembered: the inductive invariant                             *)
(***************************************************************************)

\* A job that is waiting, about to be enqueued, or running (and may be run again).
Alive(j) ==
    \/ queue[j] > 0
    \/ \E r \in Request : req[r].job = j
    \/ \E w \in Worker : wk[w].job = j

\* The members of a profile job were created by one call, so they have one baseline; each sets
\* an object.
Together(s) ==
    \A c, d \in Members(s) :
        row[c].status # "none" /\ row[c].baseline = row[d].baseline /\ row[c].prop.op = "set"

JobsInv == \A s \in Profiles, b \in BOOLEAN : Alive(ProfileJob(s, b)) => Together(s)

\* A job loads every member once, and all of them have the baseline its staleness guard looks at;
\* a job with several members is a profile's, so they set objects.
BatchShape(k) ==
    \A i, j \in 1..Len(k.batch) :
        /\ row[k.batch[i]].baseline = row[k.batch[j]].baseline
        /\ k.batch[i] = k.batch[j] => i = j
        /\ i # j => row[k.batch[i]].prop.op = "set"

\* What a job that pushes has read is what its members' baselines promised.
ReadShape(k) ==
    /\ k.pc \in {"loaded", "locked"} => k.xml = None
    /\ k.pc = "push" => k.xml # None
    /\ k.pc = "commit" /\ (\E i \in 1..Len(k.out) : k.out[i] = "applied") => k.xml # None
    /\ k.pc \in {"push", "commit"} /\ k.xml # None =>
          \A i \in 1..Len(k.batch) : row[k.batch[i]].baseline \in {k.xml, None}

SlotsInv == \A w \in Worker : BatchShape(wk[w]) /\ ReadShape(wk[w])

\* The columns of one row agree.
RowGood(r) ==
    /\ r.attempts <= MaxAttempts
    /\ r.snap # None => r.baseline \in {r.snap, None}
    /\ r.result = "live" => r.snap # None

RowsInv == \A c \in Change : RowGood(row[c])

\* An inverse was built from the baseline of the change it reverts.
RevertInv ==
    \A d \in Change : row[d].reverts # None =>
        /\ row[row[d].reverts].status # "none"
        /\ row[row[d].reverts].baseline # None =>
              row[d].prop \in Inverse(row[row[d].reverts].prop, {row[row[d].reverts].baseline})

\* Nobody has written to the firewall, or only change c has.
Untouched == edits = 0 /\ \A c \in Change : pushes[c] = 0

Alone(c) == edits = 0 /\ \A d \in Change \ {c} : pushes[d] = 0

\* As long as nobody has written to the firewall, everything read from it is what it still has.
QuietInv ==
    Untouched =>
        /\ latest \in {config, None}
        /\ \A c \in Change : row[c].baseline \in {config, None}
        /\ \A w \in Worker : wk[w].xml \in {config, None}

\* Only rows of the table have been pushed.
FreeInv == \A c \in Change : row[c].status = "none" => pushes[c] = 0

\* The change has a baseline, and is not a no-op on it.
Changes(c) == row[c].baseline # None /\ Effect(row[c].prop, row[c].baseline) # row[c].baseline

\* Once the only change that wrote to the firewall has been written, the firewall has its effect
\* and no job has it still to push.
OnceInv ==
    \A c \in Change : Alone(c) /\ Changes(c) /\ pushes[c] # 0 =>
        /\ pushes[c] = 1
        /\ config = Effect(row[c].prop, row[c].baseline)
        /\ \A w \in Worker : wk[w].pc = "push" =>
              \A i \in 1..Len(wk[w].batch) : wk[w].batch[i] = c => i <= Len(wk[w].out)

\* The only change that wrote to the firewall was accepted on its baseline and left its effect on it.
LeftInv ==
    \A c \in Change : Alone(c) /\ row[c].baseline # None /\ pushes[c] # 0 =>
        /\ Accepts(row[c].prop, row[c].baseline)
        /\ config = Effect(row[c].prop, row[c].baseline)

\* An alias that was added was not in the configuration the operator saw.
AddInv ==
    \A c \in Change :
        /\ edits = 0 /\ pushes[c] # 0 /\ row[c].baseline # None
        /\ row[c].prop.kind = "alias" /\ row[c].prop.op = "add"
        => row[c].baseline[row[c].prop.target] = Absent

HInv ==
    /\ IInv
    /\ JobsInv
    /\ SlotsInv
    /\ RowsInv
    /\ RevertInv
    /\ QuietInv
    /\ FreeInv
    /\ OnceInv
    /\ LeftInv
    /\ AddInv

(***************************************************************************)
(* What a step does to the rows                                            *)
(***************************************************************************)

\* A row keeps what it was proposed with, and stays in the table.
KeptRow(c) ==
    /\ row'[c].prop = row[c].prop
    /\ row'[c].baseline = row[c].baseline
    /\ row'[c].reverts = row[c].reverts
    /\ row[c].status # "none" => row'[c].status # "none"

\* A new row's baseline is the newest snapshot, and its inverse, if it is one, comes from the
\* rollback point of a row.
NewRow(c) ==
    /\ row[c].status = "none"
    /\ row'[c].status # "none"
    /\ row'[c].baseline = latest
    /\ row'[c].reverts # None =>
          /\ row[row'[c].reverts].status # "none"
          /\ row'[c].prop \in Inverse(row[row'[c].reverts].prop, {row[row'[c].reverts].snap} \ {None})

RowStep == \A c \in Change : (KeptRow(c) \/ NewRow(c)) /\ RowGood(row'[c])

\* create_change fills the columns of a row it creates.
LEMMA CreatedFacts ==
    ASSUME NEW p, NEW st, NEW later
    PROVE  LET r == Created(p, st, later)
           IN  /\ r.status = st /\ r.baseline = latest /\ r.reverts = None /\ r.prop = p
               /\ r.attempts = 0 /\ r.snap = None /\ r.result = "none"
               /\ \A s : LET q == [r EXCEPT !.siblings = s]
                         IN  /\ q.status = st /\ q.baseline = latest /\ q.reverts = None /\ q.prop = p
                             /\ q.attempts = 0 /\ q.snap = None /\ q.result = "none"
               /\ \A c : LET q == [r EXCEPT !.reverts = c]
                         IN  /\ q.status = st /\ q.baseline = latest /\ q.reverts = c /\ q.prop = p
                             /\ q.attempts = 0 /\ q.snap = None /\ q.result = "none"
BY Zenon DEF Created, NoRow

\* The handlers that create rows.
LEMMA CreateRows ==
    ASSUME HInv,
           \/ \E c \in Change, p \in Drafts : CreateChange(c, p)
           \/ \E r \in Request, c \in Change, p \in Templates, b \in Delays : ApplyTemplate(r, c, p, b)
           \/ \E r \in Request, s \in Profiles, b \in Delays : ApplyProfile(r, s, b)
           \/ \E r \in Request, c, d \in Change, b \in Delays : RevertChange(r, c, d, b)
    PROVE  RowStep
<1> USE BoundsAssumption
<1>0. row \in [Change -> Row] /\ \A c \in Change : RowGood(row[c])
  BY Zenon DEF HInv, IInv, TypeOK, RowsInv
<1>1. ASSUME NEW c \in Change, NEW p, NEW st \in {"draft", "scheduled"}, NEW b, Free(c),
             row' = [row EXCEPT ![c] = Created(p, st, b)]
      PROVE  RowStep
  <2>1. row'[c] = Created(p, st, b) /\ \A d \in Change \ {c} : row'[d] = row[d]
    BY <1>0, <1>1, Zenon
  <2> QED BY <1>0, <1>1, <2>1, CreatedFacts DEF RowStep, KeptRow, NewRow, RowGood, Free
<1>2. ASSUME NEW r \in Request, NEW s \in Profiles, NEW b \in Delays, ApplyProfile(r, s, b)
      PROVE  RowStep
  <2>1. PICK ps \in [Members(s) -> Bodies] :
          row' = [c \in Change |->
                    IF c \in Members(s)
                    THEN [Created(ps[c], "scheduled", b) EXCEPT !.siblings = s]
                    ELSE row[c]]
    BY <1>2, Zenon DEF ApplyProfile
  <2>2. \A c \in Change \ Members(s) : row'[c] = row[c]
    BY <2>1, Zenon
  <2>3. ASSUME NEW c \in Change, c \in Members(s)
        PROVE  NewRow(c) /\ RowGood(row'[c])
    <3>1. row'[c] = [Created(ps[c], "scheduled", b) EXCEPT !.siblings = s] /\ Free(c)
      BY <1>2, <2>1, <2>3, Zenon DEF ApplyProfile
    <3> QED BY <3>1, CreatedFacts DEF NewRow, RowGood, Free
  <2> QED BY <1>0, <2>2, <2>3, Zenon DEF RowStep, KeptRow
<1>3. ASSUME NEW r \in Request, NEW c \in Change, NEW d \in Change, NEW b \in Delays, RevertChange(r, c, d, b)
      PROVE  RowStep
  <2>1. PICK p \in Inverse(row[c].prop, {row[c].snap} \ {None}) :
          row' = [row EXCEPT ![d] = [Created(p, "scheduled", b) EXCEPT !.reverts = c]]
    BY <1>3, Zenon DEF RevertChange
  <2>2. /\ row'[d] = [Created(p, "scheduled", b) EXCEPT !.reverts = c]
        /\ \A e \in Change \ {d} : row'[e] = row[e]
    BY <1>0, <2>1, Zenon
  <2>3. row[c].status # "none" /\ Free(d)
    BY <1>3, Zenon DEF RevertChange
  <2>4. NewRow(d) /\ RowGood(row'[d])
    BY <2>2, <2>3, CreatedFacts DEF NewRow, RowGood, Free
  <2> QED BY <1>0, <2>2, <2>4, Zenon DEF RowStep, KeptRow
<1>4. ASSUME NEW c \in Change, NEW p \in Drafts, CreateChange(c, p)
      PROVE  RowStep
  BY <1>1, <1>4, Zenon DEF CreateChange
<1>5. ASSUME NEW r \in Request, NEW c \in Change, NEW p \in Templates, NEW b \in Delays, ApplyTemplate(r, c, p, b)
      PROVE  RowStep
  BY <1>1, <1>5, Zenon DEF ApplyTemplate
<1> QED BY <1>2, <1>3, <1>4, <1>5, Zenon

\* A request that commits, and the sweeper: the columns they write are not the proposal's.
LEMMA UpdateRows ==
    ASSUME HInv, (\E r \in Request : CommitSchedule(r) \/ CommitCancel(r)) \/ SweepRetry \/ SweepGiveUp
    PROVE  RowStep
<1> USE BoundsAssumption
<1>0. row \in [Change -> Row] /\ \A c \in Change : RowGood(row[c])
  BY Zenon DEF HInv, IInv, TypeOK, RowsInv
<1>1. ASSUME NEW c \in Change, NEW new,
             row' = [row EXCEPT ![c] = new], RowGood(new),
             new.prop = row[c].prop, new.baseline = row[c].baseline, new.reverts = row[c].reverts,
             row[c].status # "none" => new.status # "none"
      PROVE  RowStep
  BY <1>0, <1>1, Zenon DEF RowStep, KeptRow
<1>2. ASSUME NEW r \in Request, CommitSchedule(r)
      PROVE  RowStep
  <2> DEFINE c == req[r].change
             st == IF req[r].seen = "scheduled" THEN row[c].status ELSE "scheduled"
             b == IF req[r].was = req[r].later THEN row[c].later ELSE req[r].later
             new == [row[c] EXCEPT !.status = st, !.later = b]
  <2>1. c \in Change /\ row' = [row EXCEPT ![c] = new]
    BY <1>2, Zenon DEF CommitSchedule, HInv, IInv, RequestInv
  <2>2. row[c] \in Row /\ RowGood(row[c])
    BY <1>0, <2>1, Zenon
  <2>3. row[c].status # "none" => st # "none"
    BY Zenon
  <2> HIDE DEF st, b
  <2>4. /\ RowGood(new) /\ new.status = st
        /\ new.prop = row[c].prop /\ new.baseline = row[c].baseline /\ new.reverts = row[c].reverts
    BY <2>2, Zenon DEF Row, RowGood
  <2> HIDE DEF new, c
  <2> QED BY <1>1, <2>1, <2>3, <2>4, Zenon
<1>3. ASSUME NEW r \in Request, CommitCancel(r)
      PROVE  RowStep
  <2> DEFINE c == req[r].change
             new == [row[c] EXCEPT !.status = "cancelled"]
  <2>1. c \in Change /\ row' = [row EXCEPT ![c] = new]
    BY <1>3, Zenon DEF CommitCancel, HInv, IInv, RequestInv
  <2>2. row[c] \in Row /\ RowGood(row[c])
    BY <1>0, <2>1, Zenon
  <2>4. /\ RowGood(new) /\ new.status = "cancelled"
        /\ new.prop = row[c].prop /\ new.baseline = row[c].baseline /\ new.reverts = row[c].reverts
    BY <2>2, Zenon DEF Row, RowGood
  <2> HIDE DEF new, c
  <2> QED BY <1>1, <2>1, <2>4, Zenon
<1>4. ASSUME SweepRetry
      PROVE  RowStep
  <2> DEFINE c == sw.change
             new == [row[c] EXCEPT !.attempts = sw.attempts + 1]
  <2>1. c \in Change /\ row' = [row EXCEPT ![c] = new]
    BY <1>4, Zenon DEF SweepRetry, HInv, IInv, RequestInv
  <2>2. row[c] \in Row /\ RowGood(row[c])
    BY <1>0, <2>1, Zenon
  <2>3. sw.attempts + 1 <= MaxAttempts
    BY <1>4 DEF SweepRetry, HInv, IInv, TypeOK, Sweep
  <2>4. /\ RowGood(new) /\ new.status = row[c].status
        /\ new.prop = row[c].prop /\ new.baseline = row[c].baseline /\ new.reverts = row[c].reverts
    BY <2>2, <2>3, Zenon DEF Row, RowGood
  <2> HIDE DEF new, c
  <2> QED BY <1>1, <2>1, <2>4, Zenon
<1>5. ASSUME SweepGiveUp
      PROVE  RowStep
  <2> DEFINE c == sw.change
             new == [row[c] EXCEPT !.status = "failed", !.result = "error"]
  <2>1. c \in Change /\ row' = [row EXCEPT ![c] = new]
    BY <1>5, Zenon DEF SweepGiveUp, HInv, IInv, RequestInv
  <2>2. row[c] \in Row /\ RowGood(row[c])
    BY <1>0, <2>1, Zenon
  <2>4. /\ RowGood(new) /\ new.status = "failed"
        /\ new.prop = row[c].prop /\ new.baseline = row[c].baseline /\ new.reverts = row[c].reverts
    BY <2>2, Zenon DEF Row, RowGood
  <2> HIDE DEF new, c
  <2> QED BY <1>1, <2>1, <2>4, Zenon
<1> QED BY <1>2, <1>3, <1>4, <1>5, Zenon

\* What the commit of an apply writes: a live result comes with a rollback point, and the
\* rollback point is what the job read.
LEMMA WrittenGood ==
    ASSUME HInv, NEW w \in Worker, wk[w].pc = "commit", NEW i \in 1..Len(wk[w].batch)
    PROVE  /\ RowGood(Written(w, i))
           /\ Written(w, i).prop = row[wk[w].batch[i]].prop
           /\ Written(w, i).baseline = row[wk[w].batch[i]].baseline
           /\ Written(w, i).reverts = row[wk[w].batch[i]].reverts
           /\ Written(w, i).status # "none"
<1> DEFINE r == row[wk[w].batch[i]]
           st == wk[w].out[i]
           res == CASE wk[w].out[i] # "applied" -> "error"
                    [] wk[w].out[i] = "applied" /\ wk[w].live -> "live"
                    [] wk[w].out[i] = "applied" /\ ~wk[w].live -> "dry"
           snap == CASE wk[w].xml = None -> r.snap
                     [] wk[w].xml # None /\ wk[w].live -> wk[w].xml
                     [] wk[w].xml # None /\ ~wk[w].live ->
                           IF wk[w].job.fn = "apply_profile_changes" THEN None ELSE r.snap
<1>0. IInv
  BY Zenon DEF HInv
<1>1. r \in Row /\ RowGood(r)
  <2>1. wk[w].batch[i] \in Change
    BY <1>0, SlotFacts
  <2> QED BY <2>1, Zenon DEF HInv, IInv, TypeOK, RowsInv
<1>2. ReadShape(wk[w]) /\ wk[w].live \in BOOLEAN /\ i \in 1..Len(wk[w].out)
  BY <1>0, SlotFacts, Zenon DEF HInv, SlotsInv, SlotShape
<1>3. res = "live" => wk[w].xml # None /\ wk[w].live
  BY <1>2, Zenon DEF ReadShape
<1>4. res = "live" => snap = wk[w].xml
  BY <1>3, Zenon
<1>5. snap # None => r.baseline \in {snap, None}
  BY <1>1, <1>2, Zenon DEF RowGood, ReadShape
<1>6. Written(w, i) = [r EXCEPT !.status = st, !.result = res, !.snap = snap]
  BY Zenon DEF Written
<1>7. st # "none"
  BY <1>0, <1>2, SlotFacts, Zenon DEF SlotShape
<1> HIDE DEF st, res, snap
<1>8. /\ Written(w, i).prop = r.prop /\ Written(w, i).baseline = r.baseline
      /\ Written(w, i).reverts = r.reverts /\ Written(w, i).attempts = r.attempts
      /\ Written(w, i).status = st /\ Written(w, i).result = res /\ Written(w, i).snap = snap
  BY <1>1, <1>6, Zenon DEF Row
<1>9. r.attempts <= MaxAttempts
  BY <1>1, Zenon DEF RowGood
<1> HIDE DEF r
<1>10. RowGood(Written(w, i))
  BY <1>3, <1>4, <1>5, <1>8, <1>9, Zenon DEF RowGood
<1> QED BY <1>7, <1>8, <1>10, Zenon DEF r

\* So a commit keeps what its members were proposed with.
LEMMA CommitRows ==
    ASSUME HInv, NEW w \in Worker, CommitApply(w)
    PROVE  RowStep
<1>1. wk[w].pc = "commit"
  BY Zenon DEF CommitApply
<1> DEFINE At(c) == CHOOSE i \in 1..Len(wk[w].batch) : wk[w].batch[i] = c
<1>2. \A c \in Members(wk[w].batch) : At(c) \in 1..Len(wk[w].batch) /\ wk[w].batch[At(c)] = c
  BY Zenon DEF Members
<1>3. row' = [c \in Change |-> IF c \in Members(wk[w].batch) THEN Written(w, At(c)) ELSE row[c]]
  BY Zenon DEF CommitApply
<1> HIDE DEF At
<1>4. ASSUME NEW c \in Change, c \in Members(wk[w].batch)
      PROVE  KeptRow(c) /\ RowGood(row'[c])
  <2>1. row'[c] = Written(w, At(c))
    BY <1>3, <1>4, Zenon
  <2> QED BY <1>1, <1>2, <1>4, <2>1, WrittenGood DEF KeptRow
<1>5. ASSUME NEW c \in Change, c \notin Members(wk[w].batch)
      PROVE  KeptRow(c) /\ RowGood(row'[c])
  BY <1>3, <1>5, Zenon DEF KeptRow, HInv, RowsInv
<1> QED BY <1>4, <1>5, Zenon DEF RowStep

\* No step changes what a row was proposed with, or loses the link from a live write to what was
\* read before it.
LEMMA NextRows ==
    ASSUME HInv, [Next]_vars
    PROVE  RowStep
<1>1. ASSUME UNCHANGED row
      PROVE  RowStep
  BY <1>1, Zenon DEF RowStep, KeptRow, HInv, RowsInv
<1>2. CASE UNCHANGED vars
  BY <1>1, <1>2, Zenon DEF vars
<1>3. ASSUME NEW r \in Request, ApiStep(r) \/ FinishRequest(r)
      PROVE  RowStep
  <2>1. CASE LoseRequest(r) \/ EnqueueRequest(r)
    BY <1>1, <2>1, Zenon DEF LoseRequest, EnqueueRequest
  <2>2. ASSUME NEW op, NEW c \in Change, NEW b, LoadForRequest(r, op, c, b)
        PROVE  RowStep
    BY <1>1, <2>2, Zenon DEF LoadForRequest
  <2> QED BY <1>3, <2>1, <2>2, CreateRows, UpdateRows, Zenon DEF ApiStep, FinishRequest
<1>4. ASSUME NEW w \in Worker, WorkerStep(w) \/ CrashJob(w)
      PROVE  RowStep
  <2>1. WorkerStep(w) \/ CrashJob(w) => CommitApply(w) \/ UNCHANGED row
    BY ZenonT(30) DEF WorkerStep, LoadChange, LoadProfile, TryLock, ReadFails, ReadStale, ReadFresh, PushMember,
          AbortRest, EnqueueRefresh, StartBackup, BackupRead, BackupStore, CrashJob
  <2> QED BY <1>1, <1>4, <2>1, CommitRows, Zenon
<1>5. ASSUME NEW c \in Change, SweepLoad(c)
      PROVE  RowStep
  BY <1>1, <1>5, Zenon DEF SweepLoad
<1>6. CASE SweepStep
  BY <1>1, <1>6, UpdateRows, Zenon DEF SweepStep, SweepSkip, SweepEnqueue
<1>7. CASE EnqueueBackups \/ UnlockedEdit \/ SetLivePush \/ OpenWindow
  BY <1>1, <1>7, Zenon DEF EnqueueBackups, UnlockedEdit, SetLivePush, OpenWindow
<1> QED BY <1>2, <1>3, <1>4, <1>5, <1>6, <1>7, CreateRows, Zenon DEF Next

(***************************************************************************)
(* What a step does to the jobs                                            *)
(***************************************************************************)

\* What a worker slot reads is what the firewall has, a job that pushes goes on or has just read,
\* and a slot gets its job from the queue.
SlotStep(w) ==
    /\ wk'[w].xml \in {wk[w].xml, config, None}
    /\ wk'[w].pc = "push" =>
          \/ wk[w].pc = "push" /\ wk'[w].batch = wk[w].batch /\ Len(wk[w].out) <= Len(wk'[w].out)
          \/ ReadFresh(w)
    /\ BatchShape(wk[w])'
    /\ ReadShape(wk[w])'
    /\ wk'[w].job \in {wk[w].job, BackupJob} \/ queue[wk'[w].job] > 0

\* The members of a job that keeps them have the baselines and the proposals they had.
LEMMA SameBatch ==
    ASSUME HInv, RowStep, NEW w \in Worker, wk'[w].batch = wk[w].batch
    PROVE  /\ BatchShape(wk[w])'
           /\ \A i \in 1..Len(wk[w].batch) :
                 row'[wk[w].batch[i]].baseline = row[wk[w].batch[i]].baseline
<1>1. \A i \in 1..Len(wk[w].batch) : wk[w].batch[i] \in Change /\ row[wk[w].batch[i]].status # "none"
  BY SlotFacts DEF HInv
<1>2. \A i \in 1..Len(wk[w].batch) :
        /\ row'[wk[w].batch[i]].baseline = row[wk[w].batch[i]].baseline
        /\ row'[wk[w].batch[i]].prop = row[wk[w].batch[i]].prop
  BY <1>1, Zenon DEF RowStep, KeptRow, NewRow
<1>3. BatchShape(wk[w])
  BY Zenon DEF HInv, SlotsInv
<1> QED BY <1>2, <1>3 DEF BatchShape

\* A slot the step leaves alone.
LEMMA KeptSlot ==
    ASSUME HInv, RowStep, NEW u \in Worker, SameSlot(wk'[u], wk[u]), wk'[u].job = wk[u].job
    PROVE  SlotStep(u)
<1>1. ReadShape(wk[u])
  BY Zenon DEF HInv, SlotsInv
<1>2. ReadShape(wk[u])'
  BY <1>1, SameBatch DEF ReadShape, SameSlot
<1>3. wk[u].out \in Seq(Status)
  BY SlotFacts, Zenon DEF HInv
<1>4. Len(wk[u].out) <= Len(wk'[u].out)
  BY <1>3 DEF SameSlot
<1> QED BY <1>2, <1>4, SameBatch, Zenon DEF SlotStep, SameSlot

\* A slot that becomes idle or goes to its last step.
LEMMA EndedSlot ==
    ASSUME HInv, RowStep, NEW w \in Worker,
           wk'[w].pc \notin {"loaded", "locked", "push", "commit"},
           wk'[w].batch \in {<<>>, wk[w].batch},
           wk'[w].xml \in {wk[w].xml, config, None},
           wk'[w].job \in {wk[w].job, BackupJob}
    PROVE  SlotStep(w)
<1>1. CASE wk'[w].batch = <<>>
  BY <1>1 DEF BatchShape, ReadShape, SlotStep
<1>2. CASE wk'[w].batch = wk[w].batch
  BY <1>2, SameBatch, Zenon DEF ReadShape, SlotStep
<1> QED BY <1>1, <1>2, Zenon

\* A job starts with members that have one baseline, and has read nothing.
LEMMA BegunSlot ==
    ASSUME HInv, UNCHANGED row, NEW w \in Worker, NEW j \in Job, NEW batch, NEW pc \in {"loaded", "refresh", "read"},
           CanBegin(w, j), Begin(w, j, batch, pc),
           \A m, n \in 1..Len(batch) :
               /\ row[batch[m]].baseline = row[batch[n]].baseline /\ (batch[m] = batch[n] => m = n)
               /\ m # n => row[batch[m]].prop.op = "set"
    PROVE  /\ SlotStep(w)
           /\ \A u \in Worker \ {w} : wk'[u] = wk[u]
<1> DEFINE k == [IdleSlot EXCEPT !.pc = pc, !.job = j, !.batch = batch,
                                 !.older = {u \in Worker : wk[u].pc # "idle"}]
<1>1. k.pc = pc /\ k.job = j /\ k.batch = batch /\ k.xml = None
  BY Zenon DEF IdleSlot
<1>2. wk' = [wk EXCEPT ![w] = k]
  BY Zenon DEF Begin
<1> HIDE DEF k
<1>3. wk'[w] = k /\ \A u \in Worker \ {w} : wk'[u] = wk[u]
  BY <1>2, Zenon DEF HInv, IInv, TypeOK
<1>4. queue[wk'[w].job] > 0
  BY <1>1, <1>3, Zenon DEF CanBegin, Runnable
<1>5. BatchShape(wk[w])' /\ ReadShape(wk[w])'
  BY <1>1, <1>3 DEF BatchShape, ReadShape
<1> QED BY <1>1, <1>3, <1>4, <1>5, Zenon DEF SlotStep

\* The members of a profile job that are scheduled: each of them once, with one baseline, each
\* setting an object.
LEMMA ScheduledMembers ==
    ASSUME HInv, NEW s \in Profiles, NEW b \in BOOLEAN, queue[ProfileJob(s, b)] > 0, NEW t \in Scheduled(s),
           NEW m \in 1..Len(t), NEW n \in 1..Len(t)
    PROVE  /\ row[t[m]].baseline = row[t[n]].baseline /\ (t[m] = t[n] => m = n)
           /\ row[t[m]].prop.op = "set"
<1>1. Together(s)
  BY Zenon DEF HInv, JobsInv, Alive
<1>2. PICK l \in 0..Len(s) : t \in [1..l -> Members(s)]
  BY Zenon DEF Scheduled
<1>3. s \in Seq(Change) /\ \A i, j \in 1..Len(s) : s[i] = s[j] => i = j
  BY ProfilesAssumption, Zenon
<1>4. l \in Nat /\ Len(t) = l
  BY <1>2, <1>3
<1>5. t[m] \in Members(s) /\ t[n] \in Members(s) /\ m \in Nat /\ n \in Nat
  BY <1>2, <1>4
<1>6. ASSUME NEW x \in 1..Len(t), NEW y \in 1..Len(t), x < y, t[x] = t[y]
      PROVE  FALSE
  <2>1. PICK i \in 1..Len(s), j \in 1..Len(s) : i < j /\ s[i] = t[x] /\ s[j] = t[y]
    BY <1>6, Zenon DEF Scheduled
  <2>2. i = j
    BY <1>3, <1>6, <2>1, Zenon
  <2>3. i \in Nat /\ j \in Nat
    BY <1>3
  <2> QED BY <2>1, <2>2, <2>3
<1>7. t[m] = t[n] => m = n
  BY <1>5, <1>6
<1> QED BY <1>1, <1>5, <1>7, Zenon DEF Together

\* Every slot after a job was started.
LEMMA LoadSlots ==
    ASSUME HInv, RowStep, NEW w \in Worker,
           \/ \E c \in Change, b \in BOOLEAN : LoadChange(w, c, b)
           \/ \E s \in Profiles, b \in BOOLEAN : LoadProfile(w, s, b)
           \/ StartBackup(w)
    PROVE  \A u \in Worker : SlotStep(u)
<1>0. SUFFICES SlotStep(w) /\ \A u \in Worker \ {w} : wk'[u] = wk[u]
  BY KeptSlot, Zenon DEF SameSlot
<1>1. ASSUME NEW c \in Change, NEW b \in BOOLEAN, LoadChange(w, c, b)
      PROVE  SlotStep(w) /\ \A u \in Worker \ {w} : wk'[u] = wk[u]
  <2> DEFINE batch == IF row[c].status = "scheduled" THEN <<c>> ELSE <<>>
  <2>1. \A m, n \in 1..Len(batch) :
           /\ row[batch[m]].baseline = row[batch[n]].baseline /\ (batch[m] = batch[n] => m = n)
           /\ m # n => row[batch[m]].prop.op = "set"
    OBVIOUS
  <2>2. /\ Begin(w, ApplyJob(c, b), batch, AfterLoad(batch))
        /\ CanBegin(w, ApplyJob(c, b))
        /\ UNCHANGED row
    BY <1>1, Zenon DEF LoadChange
  <2> HIDE DEF batch
  <2>3. AfterLoad(batch) \in {"loaded", "refresh", "read"} /\ ApplyJob(c, b) \in Job
    BY JobTypes, Zenon DEF AfterLoad
  <2> QED BY <2>1, <2>2, <2>3, BegunSlot
<1>2. ASSUME NEW s \in Profiles, NEW b \in BOOLEAN, LoadProfile(w, s, b)
      PROVE  SlotStep(w) /\ \A u \in Worker \ {w} : wk'[u] = wk[u]
  <2>1. PICK batch \in Scheduled(s) : Begin(w, ProfileJob(s, b), batch, AfterLoad(batch))
    BY <1>2, Zenon DEF LoadProfile
  <2>2. CanBegin(w, ProfileJob(s, b)) /\ UNCHANGED row /\ queue[ProfileJob(s, b)] > 0
    BY <1>2, Zenon DEF LoadProfile, CanBegin, Runnable
  <2>3. AfterLoad(batch) \in {"loaded", "refresh", "read"} /\ ProfileJob(s, b) \in Job
    BY JobTypes, Zenon DEF AfterLoad
  <2>4. \A m, n \in 1..Len(batch) :
           /\ row[batch[m]].baseline = row[batch[n]].baseline /\ (batch[m] = batch[n] => m = n)
           /\ m # n => row[batch[m]].prop.op = "set"
    <3>1. ASSUME NEW m \in 1..Len(batch), NEW n \in 1..Len(batch)
          PROVE  /\ row[batch[m]].baseline = row[batch[n]].baseline /\ (batch[m] = batch[n] => m = n)
                 /\ row[batch[m]].prop.op = "set"
      BY <2>2, ScheduledMembers, Zenon
    <3> QED BY <3>1, Zenon
  <2> QED BY <2>1, <2>2, <2>3, <2>4, BegunSlot
<1>3. ASSUME StartBackup(w)
      PROVE  SlotStep(w) /\ \A u \in Worker \ {w} : wk'[u] = wk[u]
  <2>1. \A m, n \in 1..Len(<<>>) :
           /\ row[<<>>[m]].baseline = row[<<>>[n]].baseline /\ (<<>>[m] = <<>>[n] => m = n)
           /\ m # n => row[<<>>[m]].prop.op = "set"
    OBVIOUS
  <2>2. CanBegin(w, BackupJob) /\ Begin(w, BackupJob, <<>>, "read") /\ UNCHANGED row
    BY <1>3, Zenon DEF StartBackup
  <2> QED BY <2>1, <2>2, JobTypes, BegunSlot, Zenon
<1> QED BY <1>1, <1>2, <1>3, Zenon

\* Every slot after a step of a job under way: what it has read stays, until it has read config.xml
\* afresh under the lock and found the baseline.
LEMMA WorkSlots ==
    ASSUME HInv, RowStep, NEW w \in Worker,
           TryLock(w) \/ ReadFails(w) \/ ReadStale(w) \/ ReadFresh(w) \/ PushMember(w) \/ AbortRest(w)
    PROVE  \A u \in Worker : SlotStep(u)
<1>0. IInv /\ wk \in [Worker -> Slot] /\ wk[w] \in Slot
  BY Zenon DEF HInv, IInv, TypeOK
<1>1. BatchShape(wk[w]) /\ ReadShape(wk[w])
  BY Zenon DEF HInv, SlotsInv
<1>2. ASSUME NEW k, wk' = [wk EXCEPT ![w] = k], k.batch = wk[w].batch, k.job = wk[w].job,
             k.xml \in {wk[w].xml, config, None},
             ReadShape(wk[w])',
             k.pc = "push" => (wk[w].pc = "push" /\ Len(wk[w].out) <= Len(k.out)) \/ ReadFresh(w)
      PROVE  \A u \in Worker : SlotStep(u)
  <2>1. wk'[w] = k /\ \A u \in Worker \ {w} : wk'[u] = wk[u]
    BY <1>0, <1>2, Zenon
  <2>2. SlotStep(w)
    BY <1>2, <2>1, SameBatch, Zenon DEF SlotStep
  <2> QED BY <2>1, <2>2, KeptSlot, Zenon DEF SameSlot
<1>3. CASE TryLock(w)
  <2> DEFINE pc == IF lock = None THEN "locked" ELSE "refresh"
             k == [wk[w] EXCEPT !.pc = pc]
  <2>1. wk' = [wk EXCEPT ![w] = k] /\ wk[w].pc = "loaded" /\ pc \in {"locked", "refresh"}
    BY <1>3, Zenon DEF TryLock
  <2> HIDE DEF pc
  <2>2. k.pc = pc /\ k.batch = wk[w].batch /\ k.job = wk[w].job /\ k.xml = wk[w].xml
    BY <1>0, Zenon DEF Slot
  <2> HIDE DEF k
  <2>3. wk'[w] = k
    BY <1>0, <2>1, Zenon
  <2>4. ReadShape(wk[w])'
    BY <1>1, <2>1, <2>2, <2>3, Zenon DEF ReadShape
  <2> QED BY <1>2, <2>1, <2>2, <2>4, Zenon
<1>4. ASSUME NEW st \in {"failed", "conflict"}, wk[w].pc = "locked", DecideAll(w, st)
      PROVE  \A u \in Worker : SlotStep(u)
  <2> DEFINE out == [i \in 1..Len(wk[w].batch) |-> st]
             k == [wk[w] EXCEPT !.pc = "commit", !.out = out]
  <2>1. wk' = [wk EXCEPT ![w] = k]
    BY <1>4, Zenon DEF DecideAll
  <2>2. Len(out) = Len(wk[w].batch) /\ \A i \in 1..Len(out) : out[i] # "applied"
    BY <1>0, SlotFacts
  <2> HIDE DEF out
  <2>3. k.pc = "commit" /\ k.out = out /\ k.batch = wk[w].batch /\ k.job = wk[w].job /\ k.xml = wk[w].xml
    BY <1>0, Zenon DEF Slot
  <2> HIDE DEF k
  <2>4. wk'[w] = k /\ wk[w].xml = None
    BY <1>0, <1>1, <1>4, <2>1, Zenon DEF ReadShape
  <2>5. ReadShape(wk[w])'
    BY <2>2, <2>3, <2>4, Zenon DEF ReadShape
  <2> QED BY <1>2, <2>1, <2>3, <2>5, Zenon
<1>5. CASE ReadFails(w)
  BY <1>4, <1>5, Zenon DEF ReadFails
<1>6. CASE ReadStale(w)
  BY <1>4, <1>6, Zenon DEF ReadStale
<1>7. CASE ReadFresh(w)
  <2> DEFINE k == [wk[w] EXCEPT !.pc = "push", !.xml = config, !.live = livePush, !.edits = edits]
  <2>1. wk' = [wk EXCEPT ![w] = k] /\ wk[w].pc = "locked" /\ Fresh(w) /\ UNCHANGED row
    BY <1>7, Zenon DEF ReadFresh
  <2>2. k.pc = "push" /\ k.xml = config /\ k.batch = wk[w].batch /\ k.job = wk[w].job
    BY <1>0, Zenon DEF Slot
  <2> HIDE DEF k
  <2>3. wk'[w] = k
    BY <1>0, <2>1, Zenon
  <2>4. \A i \in 1..Len(wk[w].batch) : row[wk[w].batch[i]].baseline \in {config, None}
    <3>1. wk[w].batch \in Seq(Change) /\ wk[w].batch # <<>>
      BY <1>0, <2>1, SlotFacts, Zenon DEF SlotShape, Holding
    <3>2. 1 \in 1..Len(wk[w].batch)
      BY <3>1
    <3> QED BY <1>1, <2>1, <3>2, Zenon DEF BatchShape, Fresh
  <2>5. config # None
    BY NoneAssumption, Zenon DEF HInv, IInv, TypeOK
  <2>6. ReadShape(wk[w])'
    BY <2>1, <2>2, <2>3, <2>4, <2>5, Zenon DEF ReadShape
  <2> QED BY <1>2, <1>7, <2>1, <2>2, <2>6, Zenon
<1>8. ASSUME NEW out, NEW pc \in {"push", "commit"}, wk[w].pc = "push", Len(wk[w].out) <= Len(out),
             wk' = [wk EXCEPT ![w] = [wk[w] EXCEPT !.out = out, !.pc = pc]]
      PROVE  \A u \in Worker : SlotStep(u)
  <2> DEFINE k == [wk[w] EXCEPT !.out = out, !.pc = pc]
  <2>1. wk' = [wk EXCEPT ![w] = k]
    BY <1>8, Zenon
  <2>2. k.pc = pc /\ k.out = out /\ k.xml = wk[w].xml /\ k.batch = wk[w].batch /\ k.job = wk[w].job
    BY <1>0, Zenon DEF Slot
  <2> HIDE DEF k
  <2>3. wk'[w] = k
    BY <1>0, <2>1, Zenon
  <2>4. \A i \in 1..Len(wk[w].batch) : row'[wk[w].batch[i]].baseline = row[wk[w].batch[i]].baseline
    BY <2>2, <2>3, SameBatch, Zenon
  <2>5. ReadShape(wk[w])'
    BY <1>1, <1>8, <2>2, <2>3, <2>4, Zenon DEF ReadShape
  <2> QED BY <1>2, <1>8, <2>1, <2>2, <2>5, Zenon
<1>9. CASE PushMember(w)
  <2>1. PICK o \in Outcomes(row[Current(w)].prop, config, wk[w].live) :
          LET out == Append(wk[w].out, IF o.ok THEN "applied" ELSE "failed")
          IN  wk' = [wk EXCEPT ![w] =
                       [@ EXCEPT !.out = out,
                                 !.pc = IF Len(out) = Len(wk[w].batch) THEN "commit" ELSE "push"]]
    BY <1>9, Zenon DEF PushMember, PushOne
  <2> DEFINE st == IF o.ok THEN "applied" ELSE "failed"
             out == Append(wk[w].out, st)
             pc == IF Len(out) = Len(wk[w].batch) THEN "commit" ELSE "push"
  <2>2. wk[w].pc = "push" /\ wk[w].out \in Seq(Status)
    BY <1>0, <1>9, SlotFacts, Zenon DEF PushMember
  <2>3. wk' = [wk EXCEPT ![w] = [wk[w] EXCEPT !.out = out, !.pc = pc]]
    BY <2>1, Zenon
  <2>4. pc \in {"push", "commit"}
    BY Zenon
  <2>5. st \in Status
    BY Zenon DEF Status
  <2> HIDE DEF st
  <2>6. Len(wk[w].out) <= Len(out)
    BY <2>2, <2>5
  <2> HIDE DEF out, pc
  <2> QED BY <1>8, <2>2, <2>3, <2>4, <2>6, Zenon
<1>10. CASE AbortRest(w)
  <2> DEFINE out == [i \in 1..Len(wk[w].batch) |->
                       IF i \in 1..Len(wk[w].out) THEN wk[w].out[i] ELSE "failed"]
  <2>1. wk' = [wk EXCEPT ![w] = [wk[w] EXCEPT !.out = out, !.pc = "commit"]] /\ wk[w].pc = "push"
    <3>1. wk' = [wk EXCEPT ![w] = [wk[w] EXCEPT !.pc = "commit", !.out = out]] /\ wk[w].pc = "push"
      BY <1>10, Zenon DEF AbortRest
    <3>2. [wk[w] EXCEPT !.pc = "commit", !.out = out] = [wk[w] EXCEPT !.out = out, !.pc = "commit"]
      BY <1>0, Zenon DEF Slot
    <3> QED BY <3>1, <3>2, Zenon
  <2>2. Len(out) = Len(wk[w].batch) /\ Len(wk[w].out) < Len(wk[w].batch)
        /\ wk[w].out \in Seq(Status) /\ wk[w].batch \in Seq(Change)
    BY <1>0, <2>1, SlotFacts DEF SlotShape
  <2> HIDE DEF out
  <2>3. Len(wk[w].out) <= Len(out)
    BY <2>2
  <2> QED BY <1>8, <2>1, <2>3, Zenon
<1> QED BY <1>3, <1>5, <1>6, <1>7, <1>9, <1>10, Zenon

\* Every slot after a job committed or ended.
LEMMA EndSlots ==
    ASSUME HInv, RowStep, NEW w \in Worker,
           CommitApply(w) \/ EnqueueRefresh(w) \/ BackupRead(w) \/ BackupStore(w) \/ CrashJob(w)
    PROVE  \A u \in Worker : SlotStep(u)
<1>0. IInv /\ wk \in [Worker -> Slot] /\ wk[w] \in Slot
  BY Zenon DEF HInv, IInv, TypeOK
<1>1. \A u \in Worker \ {w} : SameSlot(Leave(w)[u], wk[u]) /\ Leave(w)[u].job = wk[u].job
  <2> SUFFICES ASSUME NEW u \in Worker \ {w}
               PROVE  SameSlot(Leave(w)[u], wk[u]) /\ Leave(w)[u].job = wk[u].job
    BY Zenon
  <2>1. wk[u] \in Slot /\ Leave(w)[u] = [wk[u] EXCEPT !.older = @ \ {w}]
    BY <1>0, Zenon DEF Leave
  <2> QED BY <2>1, Zenon DEF Slot, SameSlot
<1>2. /\ Leave(w)[w].pc = "idle" /\ Leave(w)[w].batch = <<>> /\ Leave(w)[w].xml = None
      /\ Leave(w)[w].job = BackupJob
  BY Zenon DEF Leave, IdleSlot
<1>3. ASSUME NEW slots, NEW u \in Worker, slots[u] \in Slot
      PROVE  SameSlot(MarkLate(w, slots)[u], slots[u]) /\ MarkLate(w, slots)[u].job = slots[u].job
  <2>1. MarkLate(w, slots)[u] = [slots[u] EXCEPT !.late = @ \/ u \in wk[w].older]
    BY Zenon DEF MarkLate
  <2> QED BY <1>3, <2>1, Zenon DEF Slot, SameSlot
<1>4. \A u \in Worker : Leave(w)[u] \in Slot
  BY <1>0, LeaveSlots, Zenon
<1>5. ASSUME wk' = Leave(w) \/ wk' = MarkLate(w, Leave(w))
      PROVE  \A u \in Worker : SlotStep(u)
  <2>1. \A u \in Worker : SameSlot(wk'[u], Leave(w)[u]) /\ wk'[u].job = Leave(w)[u].job
    BY <1>3, <1>4, <1>5 DEF SameSlot
  <2>2. SlotStep(w)
    BY <1>2, <2>1, EndedSlot, Zenon DEF SameSlot
  <2>3. \A u \in Worker \ {w} : SlotStep(u)
    BY <1>1, <2>1, KeptSlot, Zenon DEF SameSlot
  <2> QED BY <2>2, <2>3, Zenon
<1>6. CASE EnqueueRefresh(w) \/ CrashJob(w) \/ BackupStore(w)
  BY <1>5, <1>6, Zenon DEF EnqueueRefresh, CrashJob, BackupStore
<1>7. CASE BackupRead(w)
  <2>1. CASE wk' = Leave(w)
    BY <1>5, <2>1, Zenon
  <2>2. CASE wk' = [wk EXCEPT ![w] = [@ EXCEPT !.pc = "store", !.xml = config]]
    <3>1. wk'[w] = [wk[w] EXCEPT !.pc = "store", !.xml = config] /\ \A u \in Worker \ {w} : wk'[u] = wk[u]
      BY <1>0, <2>2, Zenon
    <3>2. wk'[w].pc = "store" /\ wk'[w].xml = config /\ wk'[w].batch = wk[w].batch /\ wk'[w].job = wk[w].job
      BY <1>0, <3>1, Zenon DEF Slot
    <3>3. SlotStep(w)
      BY <3>2, EndedSlot, Zenon
    <3> QED BY <3>1, <3>3, KeptSlot, Zenon DEF SameSlot
  <2> QED BY <1>7, <2>1, <2>2, Zenon DEF BackupRead
<1>8. CASE CommitApply(w)
  <2> DEFINE ended == [wk EXCEPT ![w].pc = "refresh"]
  <2>1. \A u \in Worker \ {w} : ended[u] = wk[u]
    BY <1>0, Zenon
  <2>2. /\ ended[w] \in Slot /\ ended[w].pc = "refresh"
        /\ ended[w].batch = wk[w].batch /\ ended[w].xml = wk[w].xml /\ ended[w].job = wk[w].job
    BY <1>0, Zenon DEF Slot, Step
  <2>3. wk' = ended \/ wk' = MarkLate(w, ended)
    BY <1>8, Zenon DEF CommitApply
  <2> HIDE DEF ended
  <2>4. \A u \in Worker : SameSlot(wk'[u], ended[u]) /\ wk'[u].job = ended[u].job
    BY <1>0, <1>3, <2>1, <2>2, <2>3 DEF SameSlot
  <2>5. SlotStep(w)
    BY <2>2, <2>4, EndedSlot, Zenon DEF SameSlot
  <2>6. \A u \in Worker \ {w} : SlotStep(u)
    BY <2>1, <2>4, KeptSlot, Zenon
  <2> QED BY <2>5, <2>6, Zenon
<1> QED BY <1>6, <1>7, <1>8, Zenon

\* What any step does to a worker slot.
LEMMA NextSlots ==
    ASSUME HInv, [Next]_vars
    PROVE  \A w \in Worker : SlotStep(w)
<1>0. RowStep
  BY NextRows, Zenon
<1>1. ASSUME UNCHANGED wk
      PROVE  \A w \in Worker : SlotStep(w)
  BY <1>0, <1>1, KeptSlot, Zenon DEF SameSlot
<1>2. CASE UNCHANGED vars
  BY <1>1, <1>2, Zenon DEF vars
<1>3. ASSUME NEW w \in Worker, WorkerStep(w) \/ CrashJob(w)
      PROVE  \A u \in Worker : SlotStep(u)
  BY <1>0, <1>3, LoadSlots, WorkSlots, EndSlots, Zenon DEF WorkerStep
<1>4. \/ UNCHANGED vars
      \/ UNCHANGED wk
      \/ \E w \in Worker : WorkerStep(w) \/ CrashJob(w)
  <2>1. \A c \in Change, p \in Drafts : CreateChange(c, p) => UNCHANGED wk
    BY Zenon DEF CreateChange
  <2>2. \A r \in Request : ApiStep(r) => UNCHANGED wk
    BY ZenonT(30) DEF ApiStep, ApplyTemplate, ApplyProfile, RevertChange, LoadForRequest, LoseRequest
  <2>3. \A r \in Request : FinishRequest(r) => UNCHANGED wk
    BY Zenon DEF FinishRequest, CommitSchedule, CommitCancel, EnqueueRequest
  <2>4. \A c \in Change : SweepLoad(c) => UNCHANGED wk
    BY Zenon DEF SweepLoad
  <2>5. SweepStep => UNCHANGED wk
    BY Zenon DEF SweepStep, SweepSkip, SweepRetry, SweepEnqueue, SweepGiveUp
  <2>6. EnqueueBackups \/ UnlockedEdit \/ SetLivePush \/ OpenWindow => UNCHANGED wk
    BY Zenon DEF EnqueueBackups, UnlockedEdit, SetLivePush, OpenWindow
  <2> QED BY <2>1, <2>2, <2>3, <2>4, <2>5, <2>6, Zenon DEF Next
<1> QED BY <1>1, <1>2, <1>3, <1>4, Zenon

(***************************************************************************)
(* The jobs that are alive                                                 *)
(***************************************************************************)

\* A profile job is no other kind of job, and names its members.
LEMMA ProfileJobs ==
    ASSUME NEW s, NEW b
    PROVE  /\ ProfileJob(s, b) # BackupJob
           /\ \A c, d : ProfileJob(s, b) # ApplyJob(c, d)
           /\ \A t, d : ProfileJob(s, b) = ProfileJob(t, d) => s = t
<1> DEFINE j == ProfileJob(s, b)
<1>1. j.fn = "apply_profile_changes" /\ j.ids = s
  BY Zenon DEF ProfileJob
<1>2. BackupJob.fn = "backup_device_config"
  BY Zenon DEF BackupJob
<1>3. \A c, d : ApplyJob(c, d).fn = "apply_config_change"
  BY Zenon DEF ApplyJob
<1>4. \A t, d : ProfileJob(t, d).ids = t
  BY Zenon DEF ProfileJob
<1> QED BY <1>1, <1>2, <1>3, <1>4

\* A waiting job was waiting, or a handler, a crashed worker, the sweeper or the end of a job has
\* enqueued it.
LEMMA NextQueue ==
    ASSUME HInv, [Next]_vars, NEW s \in Profiles, NEW b \in BOOLEAN, queue'[ProfileJob(s, b)] > 0
    PROVE  Alive(ProfileJob(s, b))
<1> DEFINE j == ProfileJob(s, b)
<1>0. j \in Job /\ queue \in [Job -> Nat]
  BY JobTypes, Zenon DEF HInv, IInv, TypeOK
<1>1. ASSUME NEW i \in Job, Enqueue(i), i # j \/ Alive(j)
      PROVE  Alive(j)
  BY <1>0, <1>1, Zenon DEF Enqueue, Alive
<1>2. ASSUME UNCHANGED queue
      PROVE  Alive(j)
  BY <1>2, Zenon DEF Alive
<1>3. ASSUME NEW w \in Worker, NEW i \in Job, NEW t, NEW pc, Begin(w, i, t, pc)
      PROVE  Alive(j)
  <2>1. queue[i] \in Nat /\ queue' = [queue EXCEPT ![i] = queue[i] - 1]
    BY <1>0, <1>3, Zenon DEF Begin
  <2> QED BY <1>0, <2>1 DEF Alive
<1>4. BackupJob \in Job /\ BackupJob # j /\ \A c \in Change, d \in BOOLEAN : ApplyJob(c, d) \in Job /\ ApplyJob(c, d) # j
  BY JobTypes, ProfileJobs, Zenon
<1>5. CASE UNCHANGED vars
  BY <1>2, <1>5, Zenon DEF vars
<1>6. ASSUME NEW c \in Change, NEW p \in Drafts, CreateChange(c, p)
      PROVE  Alive(j)
  BY <1>2, <1>6, Zenon DEF CreateChange
<1>7. ASSUME NEW r \in Request, ApiStep(r) \/ FinishRequest(r)
      PROVE  Alive(j)
  <2>1. ApiStep(r) \/ FinishRequest(r) => EnqueueRequest(r) \/ UNCHANGED queue
    BY ZenonT(30) DEF ApiStep, FinishRequest, ApplyTemplate, ApplyProfile, RevertChange, LoadForRequest,
         LoseRequest, CommitSchedule, CommitCancel
  <2>2. req[r].job \in Job
    BY Zenon DEF HInv, IInv, TypeOK, Handler
  <2>3. req[r].job # j \/ Alive(j)
    BY Zenon DEF Alive
  <2> QED BY <1>1, <1>2, <1>7, <2>1, <2>2, <2>3, Zenon DEF EnqueueRequest
<1>8. ASSUME NEW w \in Worker, WorkerStep(w) \/ CrashJob(w)
      PROVE  Alive(j)
  <2>1. CASE \E c \in Change, d \in BOOLEAN : LoadChange(w, c, d)
    BY <1>3, <1>4, <2>1, Zenon DEF LoadChange
  <2>2. CASE \E t \in Profiles, d \in BOOLEAN : LoadProfile(w, t, d)
    BY <1>3, <2>2, JobTypes, Zenon DEF LoadProfile
  <2>3. CASE StartBackup(w)
    BY <1>3, <1>4, <2>3, Zenon DEF StartBackup
  <2>4. CASE EnqueueRefresh(w)
    BY <1>1, <1>2, <1>4, <2>4, Zenon DEF EnqueueRefresh
  <2>5. CASE CrashJob(w)
    <3>1. wk[w].job \in Job
      BY Zenon DEF HInv, IInv, TypeOK, Slot
    <3>2. wk[w].job # j \/ Alive(j)
      BY Zenon DEF Alive
    <3> QED BY <1>1, <1>2, <2>5, <3>1, <3>2, Zenon DEF CrashJob
  <2>6. CASE \/ TryLock(w) \/ ReadFails(w) \/ ReadStale(w) \/ ReadFresh(w) \/ PushMember(w)
             \/ AbortRest(w) \/ CommitApply(w) \/ BackupRead(w) \/ BackupStore(w)
    BY <1>2, <2>6, ZenonT(30) DEF TryLock, ReadFails, ReadStale, ReadFresh, PushMember, AbortRest, CommitApply,
         BackupRead, BackupStore
  <2> QED BY <1>8, <2>1, <2>2, <2>3, <2>4, <2>5, <2>6, Zenon DEF WorkerStep
<1>9. ASSUME NEW c \in Change, SweepLoad(c)
      PROVE  Alive(j)
  BY <1>2, <1>9, Zenon DEF SweepLoad
<1>10. CASE SweepStep
  <2>1. sw.pc = "enqueue" => sw.change \in Change
    BY Zenon DEF HInv, IInv, RequestInv
  <2> QED BY <1>1, <1>2, <1>4, <1>10, <2>1, Zenon DEF SweepStep, SweepSkip, SweepRetry, SweepEnqueue, SweepGiveUp
<1>11. CASE EnqueueBackups \/ UnlockedEdit \/ SetLivePush \/ OpenWindow
  BY <1>1, <1>2, <1>4, <1>11, Zenon DEF EnqueueBackups, UnlockedEdit, SetLivePush, OpenWindow
<1> QED BY <1>5, <1>6, <1>7, <1>8, <1>9, <1>10, <1>11, Zenon DEF Next

\* A profile job about to be enqueued was about to be, or apply_profile has just created its members.
LEMMA NextRequests ==
    ASSUME HInv, [Next]_vars, NEW s \in Profiles, NEW b \in BOOLEAN, NEW r \in Request,
           req'[r].job = ProfileJob(s, b)
    PROVE  Alive(ProfileJob(s, b)) \/ \E q \in Request, d \in Delays : ApplyProfile(q, s, d)
<1> DEFINE j == ProfileJob(s, b)
           Made == \E q \in Request, d \in Delays : ApplyProfile(q, s, d)
<1>0. req \in [Request -> Handler] /\ j # BackupJob /\ \A c, d : ApplyJob(c, d) # j
  BY ProfileJobs, Zenon DEF HInv, IInv, TypeOK
<1>1. ASSUME NEW q \in Request, NEW h, req' = [req EXCEPT ![q] = h], h.job # j
      PROVE  Alive(j)
  <2>1. r # q
    BY <1>0, <1>1, Zenon
  <2>2. req'[r] = req[r]
    BY <1>0, <1>1, <2>1, Zenon
  <2> QED BY <2>2, Zenon DEF Alive
<1>2. ASSUME UNCHANGED req
      PROVE  Alive(j)
  BY <1>2, Zenon DEF Alive
<1>3. IdleHandler.job = BackupJob
  BY Zenon DEF IdleHandler
<1>4. \A i : [IdleHandler EXCEPT !.pc = "enqueue", !.job = i].job = i
  BY Zenon DEF IdleHandler
<1>5. ASSUME NEW q \in Request, ApiStep(q) \/ FinishRequest(q)
      PROVE  Alive(j) \/ Made
  <2>1. ASSUME NEW i, ThenEnqueue(q, i), i # j
        PROVE  Alive(j)
    <3>1. req' = [req EXCEPT ![q] = [IdleHandler EXCEPT !.pc = "enqueue", !.job = i]]
      BY <2>1, Zenon DEF ThenEnqueue
    <3> QED BY <1>1, <1>4, <2>1, <3>1, Zenon
  <2>2. CASE \E c \in Change, p \in Templates, d \in Delays : ApplyTemplate(q, c, p, d)
    BY <1>0, <2>1, <2>2, Zenon DEF ApplyTemplate
  <2>3. ASSUME NEW t \in Profiles, NEW d \in Delays, ApplyProfile(q, t, d)
        PROVE  Alive(j) \/ Made
    <3>1. CASE ProfileJob(t, d) = j
      BY <2>3, <3>1, ProfileJobs
    <3>2. CASE ProfileJob(t, d) # j
      BY <2>1, <2>3, <3>2, Zenon DEF ApplyProfile
    <3> QED BY <3>1, <3>2, Zenon
  <2>4. CASE \E c, d \in Change, x \in Delays : RevertChange(q, c, d, x)
    BY <1>0, <2>1, <2>4, Zenon DEF RevertChange
  <2>5. ASSUME NEW op, NEW c \in Change, NEW d, LoadForRequest(q, op, c, d)
        PROVE  Alive(j)
    <3> DEFINE h == [IdleHandler EXCEPT !.pc = op, !.change = c, !.seen = row[c].status,
                                        !.was = row[c].later, !.later = d]
    <3>1. req' = [req EXCEPT ![q] = h] /\ h.job = BackupJob
      BY <2>5, Zenon DEF LoadForRequest, IdleHandler
    <3> QED BY <1>0, <1>1, <3>1, Zenon
  <2>6. CASE LoseRequest(q) \/ EnqueueRequest(q) \/ CommitCancel(q)
    BY <1>0, <1>1, <1>3, <2>6, Zenon DEF LoseRequest, EnqueueRequest, CommitCancel
  <2>7. CASE CommitSchedule(q)
    <3>1. PICK i : req' = [req EXCEPT ![q] = [IdleHandler EXCEPT !.pc = "enqueue", !.job = i]] /\ i # j
      BY <1>0, <2>7, Zenon DEF CommitSchedule
    <3> QED BY <1>1, <1>4, <3>1, Zenon
  <2> QED BY <1>5, <2>2, <2>3, <2>4, <2>5, <2>6, <2>7, Zenon DEF ApiStep, FinishRequest
<1>6. \/ UNCHANGED req
      \/ \E q \in Request : ApiStep(q) \/ FinishRequest(q)
  <2>1. UNCHANGED vars => UNCHANGED req
    BY Zenon DEF vars
  <2>2. \A c \in Change, p \in Drafts : CreateChange(c, p) => UNCHANGED req
    BY Zenon DEF CreateChange
  <2>3. \A w \in Worker : WorkerStep(w) \/ CrashJob(w) => UNCHANGED req
    BY ZenonT(30) DEF WorkerStep, LoadChange, LoadProfile, TryLock, ReadFails, ReadStale, ReadFresh, PushMember,
         AbortRest, CommitApply, EnqueueRefresh, StartBackup, BackupRead, BackupStore, CrashJob
  <2>4. \A c \in Change : SweepLoad(c) => UNCHANGED req
    BY Zenon DEF SweepLoad
  <2>5. SweepStep => UNCHANGED req
    BY Zenon DEF SweepStep, SweepSkip, SweepRetry, SweepEnqueue, SweepGiveUp
  <2>6. EnqueueBackups \/ UnlockedEdit \/ SetLivePush \/ OpenWindow => UNCHANGED req
    BY Zenon DEF EnqueueBackups, UnlockedEdit, SetLivePush, OpenWindow
  <2> QED BY <2>1, <2>2, <2>3, <2>4, <2>5, <2>6, Zenon DEF Next
<1> QED BY <1>2, <1>5, <1>6, Zenon

\* As long as a profile job is alive its members are rows with one baseline that set objects.
LEMMA NextJobs ==
    ASSUME HInv, [Next]_vars, RowStep, \A w \in Worker : SlotStep(w)
    PROVE  JobsInv'
<1> SUFFICES ASSUME NEW s \in Profiles, NEW b \in BOOLEAN, Alive(ProfileJob(s, b))'
             PROVE  Together(s)'
  BY Zenon DEF JobsInv
<1> DEFINE j == ProfileJob(s, b)
<1>0. \A c \in Members(s) : c \in Change
  <2>1. s \in Seq(Change)
    BY ProfilesAssumption, Zenon
  <2> QED BY <2>1 DEF Members
<1>1. Alive(j) \/ \E q \in Request, d \in Delays : ApplyProfile(q, s, d)
  <2>1. ASSUME NEW w \in Worker, wk'[w].job = j
        PROVE  Alive(j)
    BY <2>1, ProfileJobs, Zenon DEF SlotStep, Alive
  <2>2. (\E w \in Worker : wk'[w].job = j) => Alive(j)
    BY <2>1, Zenon
  <2>3. \/ queue'[j] > 0 \/ (\E r \in Request : req'[r].job = j) \/ (\E w \in Worker : wk'[w].job = j)
    BY Zenon DEF Alive
  <2> QED BY <2>2, <2>3, NextQueue, NextRequests, Zenon
<1>2. CASE Alive(j)
  <2>1. Together(s)
    BY <1>2, Zenon DEF HInv, JobsInv
  <2>2. ASSUME NEW c \in Members(s)
        PROVE  /\ row'[c].status # "none" /\ row'[c].baseline = row[c].baseline
               /\ row'[c].prop = row[c].prop
    <3>1. c \in Change /\ row[c].status # "none"
      BY <1>0, <2>1, Zenon DEF Together
    <3> QED BY <3>1, Zenon DEF RowStep, KeptRow, NewRow
  <2> QED BY <2>1, <2>2, Zenon DEF Together
<1>3. ASSUME NEW q \in Request, NEW d \in Delays, ApplyProfile(q, s, d)
      PROVE  Together(s)'
  <2>1. PICK ps \in [Members(s) -> Bodies] :
          row' = [c \in Change |->
                    IF c \in Members(s)
                    THEN [Created(ps[c], "scheduled", d) EXCEPT !.siblings = s]
                    ELSE row[c]]
    BY <1>3, Zenon DEF ApplyProfile
  <2>2. \A c \in Members(s) : row'[c] = [Created(ps[c], "scheduled", d) EXCEPT !.siblings = s]
    BY <1>0, <2>1, Zenon
  <2>3. ASSUME NEW c \in Members(s)
        PROVE  row'[c].status = "scheduled" /\ row'[c].baseline = latest /\ row'[c].prop.op = "set"
    <3>1. row'[c] = [Created(ps[c], "scheduled", d) EXCEPT !.siblings = s]
      BY <2>2, Zenon
    <3>2. row'[c].status = "scheduled" /\ row'[c].baseline = latest /\ row'[c].prop = ps[c]
      BY <3>1, CreatedFacts
    <3> QED BY <2>1, <3>2, ProposalsAssumption, Zenon
  <2> QED BY <2>3, Zenon DEF Together
<1> QED BY <1>1, <1>2, <1>3, Zenon

(***************************************************************************)
(* What a step does to the firewall and to the snapshots                   *)
(***************************************************************************)

\* The firewall changes by an unlocked edit or by a push.
LEMMA NextDevice ==
    ASSUME [Next]_vars
    PROVE  UNCHANGED device \/ UnlockedEdit \/ \E w \in Worker : PushMember(w)
<1>1. UNCHANGED vars => UNCHANGED device
  BY Zenon DEF vars
<1>2. \A c \in Change, p \in Drafts : CreateChange(c, p) => UNCHANGED device
  BY Zenon DEF CreateChange
<1>3. \A r \in Request : ApiStep(r) \/ FinishRequest(r) => UNCHANGED device
  BY ZenonT(30) DEF ApiStep, ApplyTemplate, ApplyProfile, RevertChange, LoadForRequest, LoseRequest,
       FinishRequest, CommitSchedule, CommitCancel, EnqueueRequest
<1>4. \A w \in Worker : WorkerStep(w) \/ CrashJob(w) => UNCHANGED device \/ PushMember(w)
  BY ZenonT(30) DEF WorkerStep, LoadChange, LoadProfile, TryLock, ReadFails, ReadStale, ReadFresh,
       AbortRest, CommitApply, EnqueueRefresh, StartBackup, BackupRead, BackupStore, CrashJob
<1>5. \A c \in Change : SweepLoad(c) => UNCHANGED device
  BY Zenon DEF SweepLoad
<1>6. SweepStep => UNCHANGED device
  BY Zenon DEF SweepStep, SweepSkip, SweepRetry, SweepEnqueue, SweepGiveUp
<1>7. EnqueueBackups \/ SetLivePush \/ OpenWindow => UNCHANGED device
  BY Zenon DEF EnqueueBackups, SetLivePush, OpenWindow
<1> QED BY <1>1, <1>2, <1>3, <1>4, <1>5, <1>6, <1>7, Zenon DEF Next

\* The newest snapshot stays, or is one a job has read.
LEMMA NextLatest ==
    ASSUME [Next]_vars
    PROVE  latest' = latest \/ \E w \in Worker : latest' = wk[w].xml
<1>1. UNCHANGED vars => UNCHANGED latest
  BY Zenon DEF vars
<1>2. \A c \in Change, p \in Drafts : CreateChange(c, p) => UNCHANGED latest
  BY Zenon DEF CreateChange
<1>3. \A r \in Request : ApiStep(r) \/ FinishRequest(r) => UNCHANGED latest
  BY ZenonT(30) DEF ApiStep, ApplyTemplate, ApplyProfile, RevertChange, LoadForRequest, LoseRequest,
       FinishRequest, CommitSchedule, CommitCancel, EnqueueRequest
<1>4. \A w \in Worker : CommitApply(w) \/ BackupStore(w) => latest' \in {latest, wk[w].xml}
  BY Zenon DEF CommitApply, BackupStore, Newest
<1>5. \A w \in Worker : WorkerStep(w) \/ CrashJob(w) => UNCHANGED latest \/ CommitApply(w) \/ BackupStore(w)
  BY ZenonT(30) DEF WorkerStep, LoadChange, LoadProfile, TryLock, ReadFails, ReadStale, ReadFresh, PushMember,
       AbortRest, EnqueueRefresh, StartBackup, BackupRead, CrashJob
<1>6. \A c \in Change : SweepLoad(c) => UNCHANGED latest
  BY Zenon DEF SweepLoad
<1>7. SweepStep => UNCHANGED latest
  BY Zenon DEF SweepStep, SweepSkip, SweepRetry, SweepEnqueue, SweepGiveUp
<1>8. EnqueueBackups \/ UnlockedEdit \/ SetLivePush \/ OpenWindow => UNCHANGED latest
  BY Zenon DEF EnqueueBackups, UnlockedEdit, SetLivePush, OpenWindow
<1>9. \A w \in Worker : WorkerStep(w) \/ CrashJob(w) => latest' = latest \/ latest' = wk[w].xml
  BY <1>4, <1>5, Zenon
<1> QED BY <1>1, <1>2, <1>3, <1>6, <1>7, <1>8, <1>9, Zenon DEF Next

\* A push that the firewall accepted counts for the member pushed and leaves its effect; any other
\* changes nothing.
LEMMA PushEffect ==
    ASSUME HInv, NEW w \in Worker, PushMember(w)
    PROVE  /\ Current(w) \in Change /\ row[Current(w)].status # "none" /\ edits' = edits
           /\ \/ UNCHANGED device
              \/ /\ Accepts(row[Current(w)].prop, config)
                 /\ config' = Effect(row[Current(w)].prop, config)
                 /\ pushes' = [pushes EXCEPT ![Current(w)] = @ + 1]
<1> DEFINE c == Current(w)
<1>1. IInv /\ wk[w].pc = "push" /\ edits' = edits
  BY Zenon DEF HInv, PushMember, PushOne
<1>2. /\ wk[w].batch \in Seq(Change) /\ wk[w].out \in Seq(Status)
      /\ Len(wk[w].out) < Len(wk[w].batch)
      /\ \A i \in 1..Len(wk[w].batch) : row[wk[w].batch[i]].status # "none"
  BY <1>1, SlotFacts, Zenon DEF SlotShape
<1>3. c \in Change /\ row[c].status # "none"
  BY <1>2 DEF Current
<1>4. PICK o \in Outcomes(row[c].prop, config, wk[w].live) :
        config' = o.cfg /\ pushes' = [pushes EXCEPT ![c] = IF o.wrote THEN @ + 1 ELSE @]
  BY Zenon DEF PushMember, PushOne
<1>5. \/ o.cfg = config /\ o.wrote = FALSE
      \/ Accepts(row[c].prop, config) /\ o.cfg = Effect(row[c].prop, config) /\ o.wrote = TRUE
  BY <1>4, SMTT(30) DEF Outcomes
<1>6. pushes \in [Change -> Nat]
  BY Zenon DEF HInv, IInv, TypeOK
<1>7. CASE o.cfg = config /\ o.wrote = FALSE
  <2>1. pushes' = [pushes EXCEPT ![c] = pushes[c]]
    BY <1>4, <1>7, Zenon
  <2>2. UNCHANGED pushes
    BY <1>6, <2>1, Zenon
  <2> QED BY <1>1, <1>3, <1>4, <1>7, <2>2, Zenon DEF device
<1>8. CASE Accepts(row[c].prop, config) /\ o.cfg = Effect(row[c].prop, config) /\ o.wrote = TRUE
  BY <1>1, <1>3, <1>4, <1>8, Zenon
<1> QED BY <1>5, <1>7, <1>8, Zenon

\* What any step does to the firewall: nothing, an unlocked edit, or one write of a row's change.
LEMMA DeviceStep ==
    ASSUME HInv, [Next]_vars
    PROVE  \/ UNCHANGED device
           \/ edits' # 0 /\ pushes' = pushes
           \/ \E w \in Worker :
                 /\ PushMember(w)
                 /\ Current(w) \in Change /\ row[Current(w)].status # "none"
                 /\ edits' = edits
                 /\ Accepts(row[Current(w)].prop, config)
                 /\ config' = Effect(row[Current(w)].prop, config)
                 /\ pushes' = [pushes EXCEPT ![Current(w)] = @ + 1]
<1>1. UnlockedEdit => edits' # 0 /\ pushes' = pushes
  BY DEF UnlockedEdit, HInv, IInv, TypeOK
<1> QED BY <1>1, NextDevice, PushEffect, Zenon

\* Writes are never forgotten.
LEMMA Quieter ==
    ASSUME HInv, [Next]_vars
    PROVE  /\ Untouched' => Untouched /\ UNCHANGED device
           /\ \A c \in Change : Alone(c)' => Alone(c)
<1>1. pushes \in [Change -> Nat] /\ edits \in Nat
  BY Zenon DEF HInv, IInv, TypeOK
<1>2. CASE UNCHANGED device
  BY <1>2, Zenon DEF Untouched, Alone, device
<1>3. CASE edits' # 0 /\ pushes' = pushes
  BY <1>3, Zenon DEF Untouched, Alone
<1>4. ASSUME NEW c \in Change, edits' = edits, pushes' = [pushes EXCEPT ![c] = @ + 1]
      PROVE  ~Untouched' /\ \A d \in Change : Alone(d)' => Alone(d)
  <2>1. pushes'[c] = pushes[c] + 1 /\ pushes[c] \in Nat /\ \A d \in Change \ {c} : pushes'[d] = pushes[d]
    BY <1>1, <1>4, Zenon
  <2>2. pushes'[c] # 0
    BY <2>1
  <2> QED BY <1>4, <2>1, <2>2, Zenon DEF Untouched, Alone
<1> QED BY <1>2, <1>3, <1>4, DeviceStep, Zenon

(***************************************************************************)
(* The invariant is kept                                                   *)
(***************************************************************************)

\* While nobody writes to the firewall, reading it gives the same answer.
LEMMA NextQuiet ==
    ASSUME HInv, [Next]_vars, RowStep, \A w \in Worker : SlotStep(w)
    PROVE  QuietInv'
<1> SUFFICES ASSUME Untouched'
             PROVE  /\ latest' \in {config', None}
                    /\ \A c \in Change : row'[c].baseline \in {config', None}
                    /\ \A w \in Worker : wk'[w].xml \in {config', None}
  BY Zenon DEF QuietInv
<1>1. Untouched /\ config' = config
  BY Quieter, Zenon DEF device
<1>2. /\ latest \in {config, None}
      /\ \A c \in Change : row[c].baseline \in {config, None}
      /\ \A w \in Worker : wk[w].xml \in {config, None}
  BY <1>1, Zenon DEF HInv, QuietInv
<1>3. latest' \in {config, None}
  BY <1>2, NextLatest, Zenon
<1>4. \A c \in Change : row'[c].baseline \in {config, None}
  BY <1>2, Zenon DEF RowStep, KeptRow, NewRow
<1>5. \A w \in Worker : wk'[w].xml \in {config, None}
  BY <1>2, Zenon DEF SlotStep
<1> QED BY <1>1, <1>3, <1>4, <1>5, Zenon

\* A row not yet created has no writes.
LEMMA NextFree ==
    ASSUME HInv, [Next]_vars, RowStep
    PROVE  FreeInv'
<1> SUFFICES ASSUME NEW c \in Change, row'[c].status = "none"
             PROVE  pushes'[c] = 0
  BY Zenon DEF FreeInv
<1>1. row[c].status = "none"
  BY Zenon DEF RowStep, KeptRow, NewRow
<1>2. pushes[c] = 0 /\ pushes \in [Change -> Nat]
  BY <1>1, Zenon DEF HInv, FreeInv, IInv, TypeOK
<1> QED BY <1>1, <1>2, DeviceStep, Zenon DEF device

\* An inverse that needs no snapshot is the one built with it.
LEMMA InverseNeedsLess ==
    ASSUME NEW p \in Proposal, NEW before
    PROVE  Inverse(p, {}) \subseteq Inverse(p, {before})
<1>1. InvertAlias(p, {}) \subseteq InvertAlias(p, {before})
  BY Zenon DEF InvertAlias
<1>2. InvertFirewallRule(p, {}) \subseteq InvertFirewallRule(p, {before})
  BY Zenon DEF InvertFirewallRule
<1>3. CASE p.kind = "alias"
  BY <1>1, <1>3, Zenon DEF Inverse
<1>4. CASE p.kind = "firewall_rule"
  BY <1>2, <1>4, Zenon DEF Inverse
<1>5. CASE p.kind = "unregistered"
  BY <1>5, Zenon DEF Inverse
<1> QED BY <1>3, <1>4, <1>5, Zenon DEF Proposal, Kind

\* The inverse of a change stays the inverse of that change.
LEMMA NextRevert ==
    ASSUME HInv, IInv', RowStep
    PROVE  RevertInv'
<1> SUFFICES ASSUME NEW d \in Change, row'[d].reverts # None
             PROVE  LET c == row'[d].reverts
                    IN  /\ row'[c].status # "none"
                        /\ row'[c].baseline # None => row'[d].prop \in Inverse(row'[c].prop, {row'[c].baseline})
  BY Zenon DEF RevertInv
<1> DEFINE c == row'[d].reverts
<1>1. ASSUME c \in Change, row[c].status # "none"
      PROVE  /\ row'[c].status # "none" /\ row'[c].prop = row[c].prop
             /\ row'[c].baseline = row[c].baseline
  BY <1>1, Zenon DEF RowStep, KeptRow, NewRow
<1>2. \A e \in Change : row[e].prop \in Proposal /\ row'[e].reverts \in Change \cup {None}
  BY Zenon DEF HInv, IInv, TypeOK, Row
<1>3. CASE KeptRow(d)
  <2>1. c = row[d].reverts /\ c \in Change /\ row'[d].prop = row[d].prop
    BY <1>2, <1>3, Zenon DEF KeptRow
  <2>2. /\ row[c].status # "none"
        /\ row[c].baseline # None => row[d].prop \in Inverse(row[c].prop, {row[c].baseline})
    BY <2>1, Zenon DEF HInv, RevertInv
  <2> HIDE DEF c
  <2>3. row'[c].status # "none" /\ row'[c].prop = row[c].prop /\ row'[c].baseline = row[c].baseline
    BY <1>1, <2>1, <2>2, Zenon
  <2> QED BY <2>1, <2>2, <2>3, Zenon DEF c
<1>4. CASE NewRow(d)
  <2>0. c \in Change
    BY <1>2, Zenon
  <2>1. row[c].status # "none" /\ row'[d].prop \in Inverse(row[c].prop, {row[c].snap} \ {None})
    BY <1>4, Zenon DEF NewRow
  <2>2. row[c].snap # None => row[c].baseline \in {row[c].snap, None}
    BY <2>0, Zenon DEF HInv, RowsInv, RowGood
  <2> HIDE DEF c
  <2>3. ASSUME row[c].baseline # None
        PROVE  row'[d].prop \in Inverse(row[c].prop, {row[c].baseline})
    <3>1. CASE row[c].snap = None
      <4>1. {row[c].snap} \ {None} = {}
        BY <3>1, Zenon
      <4> QED BY <1>2, <2>0, <2>1, <4>1, InverseNeedsLess, Zenon
    <3>2. CASE row[c].snap # None
      <4>1. {row[c].snap} \ {None} = {row[c].baseline}
        BY <2>2, <2>3, <3>2, Zenon
      <4> QED BY <2>1, <4>1, Zenon
    <3> QED BY <3>1, <3>2, Zenon
  <2> QED BY <1>1, <2>0, <2>1, <2>3, Zenon DEF c
<1> QED BY <1>3, <1>4, Zenon DEF RowStep

\* A member that has been pushed is behind its job: no job is still to push it.
LEMMA PushedOnce ==
    ASSUME HInv, IInv', NEW w \in Worker, PushMember(w), SlotStep(w), NEW u \in Worker, wk'[u].pc = "push",
           NEW i \in 1..Len(wk'[u].batch), wk'[u].batch[i] = Current(w)
    PROVE  i <= Len(wk'[u].out)
<1>1. IInv /\ wk[w].pc = "push" /\ UNCHANGED lock
  BY Zenon DEF HInv, PushMember
<1>2. u = w
  <2>1. lock = w
    BY <1>1, Zenon DEF IInv, LockInv, Holding
  <2>2. lock' = u
    BY Zenon DEF IInv, LockInv, Holding
  <2> QED BY <1>1, <2>1, <2>2, Zenon
<1>3. wk'[w].batch = wk[w].batch
  BY <1>1, <1>2, Zenon DEF SlotStep, ReadFresh
<1>4. /\ wk[w].batch \in Seq(Change) /\ wk[w].out \in Seq(Status)
      /\ Len(wk[w].out) < Len(wk[w].batch)
  BY <1>1, SlotFacts, Zenon DEF SlotShape
<1>5. i = Len(wk[w].out) + 1
  <2>1. \A m, n \in 1..Len(wk[w].batch) : wk[w].batch[m] = wk[w].batch[n] => m = n
    BY Zenon DEF HInv, SlotsInv, BatchShape
  <2>2. Len(wk[w].out) + 1 \in 1..Len(wk[w].batch)
    BY <1>4
  <2> QED BY <1>2, <1>3, <2>1, <2>2, Zenon DEF Current
<1>6. Len(wk'[w].out) = Len(wk[w].out) + 1
  <2>1. PICK st, pc : wk' = [wk EXCEPT ![w] = [wk[w] EXCEPT !.out = Append(wk[w].out, st), !.pc = pc]]
    <3>1. PICK o \in Outcomes(row[Current(w)].prop, config, wk[w].live) :
            LET out == Append(wk[w].out, IF o.ok THEN "applied" ELSE "failed")
            IN  wk' = [wk EXCEPT ![w] =
                         [@ EXCEPT !.out = out,
                                   !.pc = IF Len(out) = Len(wk[w].batch) THEN "commit" ELSE "push"]]
      BY Zenon DEF PushMember, PushOne
    <3> QED BY <3>1, Zenon
  <2>2. wk'[w] = [wk[w] EXCEPT !.out = Append(wk[w].out, st), !.pc = pc] /\ wk[w] \in Slot
    BY <1>1, <2>1, Zenon DEF IInv, TypeOK
  <2>3. wk'[w].out = Append(wk[w].out, st)
    BY <2>2, Zenon DEF Slot
  <2>4. wk'[w].out \in Seq(Status)
    BY SlotFacts, Zenon DEF IInv, TypeOK, Slot
  <2> QED BY <1>4, <2>3, <2>4
<1> QED BY <1>2, <1>5, <1>6

\* A change that is the only writer is written once.
LEMMA NextOnce ==
    ASSUME HInv, IInv', FreeInv', [Next]_vars, RowStep, \A w \in Worker : SlotStep(w)
    PROVE  OnceInv'
<1> SUFFICES ASSUME NEW c \in Change, Alone(c)', Changes(c)', pushes'[c] # 0
             PROVE  /\ pushes'[c] = 1
                    /\ config' = Effect(row'[c].prop, row'[c].baseline)
                    /\ \A w \in Worker : wk'[w].pc = "push" =>
                          \A i \in 1..Len(wk'[w].batch) : wk'[w].batch[i] = c => i <= Len(wk'[w].out)
  BY Zenon DEF OnceInv
<1>1. Alone(c) /\ pushes \in [Change -> Nat] /\ wk \in [Worker -> Slot] /\ IInv
  BY Quieter, Zenon DEF HInv, IInv, TypeOK
<1>2. ASSUME row[c].status # "none"
      PROVE  Changes(c) /\ row'[c].prop = row[c].prop /\ row'[c].baseline = row[c].baseline
  BY <1>2, Zenon DEF RowStep, KeptRow, NewRow, Changes
<1>3. CASE UNCHANGED device
  <2>1. pushes[c] # 0 /\ pushes' = pushes /\ config' = config
    BY <1>3, Zenon DEF device
  <2>2. row[c].status # "none"
    BY <2>1, Zenon DEF HInv, FreeInv
  <2>3. /\ pushes[c] = 1
        /\ config = Effect(row[c].prop, row[c].baseline)
        /\ \A w \in Worker : wk[w].pc = "push" =>
              \A i \in 1..Len(wk[w].batch) : wk[w].batch[i] = c => i <= Len(wk[w].out)
    BY <1>1, <1>2, <2>1, <2>2, Zenon DEF HInv, OnceInv
  <2>4. ASSUME NEW w \in Worker, wk'[w].pc = "push", NEW i \in 1..Len(wk'[w].batch), wk'[w].batch[i] = c
        PROVE  i <= Len(wk'[w].out)
    <3>1. CASE wk[w].pc = "push" /\ wk'[w].batch = wk[w].batch /\ Len(wk[w].out) <= Len(wk'[w].out)
      <4>1. i <= Len(wk[w].out)
        BY <2>3, <2>4, <3>1, Zenon
      <4>2. wk[w].out \in Seq(Status) /\ wk'[w].out \in Seq(Status) /\ wk[w].batch \in Seq(Change)
        BY Zenon DEF HInv, IInv, TypeOK, Slot
      <4> QED BY <3>1, <4>1, <4>2
    <3>2. CASE ReadFresh(w)
      <4>1. Fresh(w) /\ wk[w].pc = "locked"
        BY <3>2, Zenon DEF ReadFresh
      <4>2. wk'[w].batch = wk[w].batch
        <5>1. /\ wk'[w] = [wk[w] EXCEPT !.pc = "push", !.xml = config, !.live = livePush, !.edits = edits]
              /\ wk[w] \in Slot
          BY <1>1, <3>2, Zenon DEF ReadFresh
        <5> QED BY <5>1, Zenon DEF Slot
      <4>3. wk[w].batch \in Seq(Change) /\ wk[w].batch # <<>>
        BY <1>1, <4>1, SlotFacts, Zenon DEF SlotShape, Holding
      <4>4. 1 \in 1..Len(wk[w].batch)
        BY <4>3
      <4>5. row[c].baseline = row[wk[w].batch[1]].baseline
        BY <2>4, <4>2, <4>4 DEF HInv, SlotsInv, BatchShape
      <4>6. row[c].baseline = config
        BY <1>2, <2>2, <4>1, <4>5, Zenon DEF Fresh, Changes
      <4> QED BY <1>2, <2>2, <2>3, <4>6, Zenon DEF Changes
    <3> QED BY <2>4, <3>1, <3>2, Zenon DEF SlotStep
  <2> QED BY <1>2, <2>1, <2>2, <2>3, <2>4, Zenon
<1>4. CASE edits' # 0
  BY <1>4, Zenon DEF Alone
<1>5. ASSUME NEW w \in Worker, PushMember(w),
             Current(w) \in Change, row[Current(w)].status # "none",
             edits' = edits, config' = Effect(row[Current(w)].prop, config),
             pushes' = [pushes EXCEPT ![Current(w)] = @ + 1]
      PROVE  /\ pushes'[c] = 1
             /\ config' = Effect(row'[c].prop, row'[c].baseline)
             /\ \A u \in Worker : wk'[u].pc = "push" =>
                   \A i \in 1..Len(wk'[u].batch) : wk'[u].batch[i] = c => i <= Len(wk'[u].out)
  <2>1. Current(w) = c
    <3>1. pushes'[Current(w)] = pushes[Current(w)] + 1 /\ pushes[Current(w)] \in Nat
      BY <1>1, <1>5, Zenon
    <3>2. pushes'[Current(w)] # 0
      BY <3>1
    <3> QED BY <1>5, <3>2, Zenon DEF Alone
  <2>2. Changes(c) /\ row'[c].prop = row[c].prop /\ row'[c].baseline = row[c].baseline
    BY <1>2, <1>5, <2>1, Zenon
  <2>3. wk[w].pc = "push"
    BY <1>5, Zenon DEF PushMember
  <2>4. /\ wk[w].batch \in Seq(Change) /\ wk[w].out \in Seq(Status)
        /\ Len(wk[w].out) < Len(wk[w].batch)
    BY <1>1, <2>3, SlotFacts, Zenon DEF SlotShape
  <2>5. Len(wk[w].out) + 1 \in 1..Len(wk[w].batch) /\ Len(wk[w].out) \in Nat
    BY <2>4
  <2>6. pushes[c] = 0
    <3>1. SUFFICES ASSUME pushes[c] # 0 PROVE FALSE
      BY Zenon
    <3>2. Len(wk[w].out) + 1 <= Len(wk[w].out)
      BY <1>1, <2>1, <2>2, <2>3, <2>5, <3>1, Zenon DEF HInv, OnceInv, Current
    <3> QED BY <2>5, <3>2
  <2>7. Untouched
    BY <1>1, <2>6, Zenon DEF Untouched, Alone
  <2>8. row[c].baseline = config
    <3>1. wk[w].xml = config
      BY <2>3, <2>7, Zenon DEF HInv, QuietInv, SlotsInv, ReadShape
    <3>2. row[c].baseline \in {wk[w].xml, None}
      <4>1. wk[w].xml # None /\ \A i \in 1..Len(wk[w].batch) : row[wk[w].batch[i]].baseline \in {wk[w].xml, None}
        BY <2>3, Zenon DEF HInv, SlotsInv, ReadShape
      <4> QED BY <2>1, <2>5, <4>1, Zenon DEF Current
    <3> QED BY <2>2, <3>1, <3>2, Zenon DEF Changes
  <2>9. pushes'[c] = 1
    BY <1>1, <1>5, <2>1, <2>6
  <2>10. ASSUME NEW u \in Worker, wk'[u].pc = "push", NEW i \in 1..Len(wk'[u].batch), wk'[u].batch[i] = c
         PROVE  i <= Len(wk'[u].out)
    BY <1>5, <2>1, <2>10, PushedOnce, Zenon
  <2> QED BY <1>5, <2>1, <2>2, <2>8, <2>9, <2>10, Zenon
<1> QED BY <1>3, <1>4, <1>5, DeviceStep, Zenon

\* A write counts for the member pushed alone.
LEMMA OneMoreWrite ==
    ASSUME HInv, NEW e \in Change, pushes' = [pushes EXCEPT ![e] = @ + 1]
    PROVE  pushes'[e] # 0 /\ \A c \in Change \ {e} : pushes'[c] = pushes[c]
<1>1. pushes \in [Change -> Nat]
  BY Zenon DEF HInv, IInv, TypeOK
<1>2. pushes'[e] = pushes[e] + 1 /\ pushes[e] \in Nat /\ \A c \in Change \ {e} : pushes'[c] = pushes[c]
  BY <1>1, Zenon
<1> QED BY <1>2

\* The only writer's effect stays on the firewall: writing it again changes nothing more.
LEMMA NextLeft ==
    ASSUME HInv, FreeInv', [Next]_vars, RowStep
    PROVE  LeftInv'
<1> SUFFICES ASSUME NEW c \in Change, Alone(c)', row'[c].baseline # None, pushes'[c] # 0
             PROVE  /\ Accepts(row'[c].prop, row'[c].baseline)
                    /\ config' = Effect(row'[c].prop, row'[c].baseline)
  BY Zenon DEF LeftInv
<1>1. Alone(c) /\ row \in [Change -> Row]
  BY Quieter, Zenon DEF HInv, IInv, TypeOK
<1>2. ASSUME row[c].status # "none"
      PROVE  row'[c].prop = row[c].prop /\ row'[c].baseline = row[c].baseline
  BY <1>2, Zenon DEF RowStep, KeptRow, NewRow
<1>3. ASSUME pushes[c] # 0
      PROVE  /\ row'[c].prop = row[c].prop /\ row'[c].baseline = row[c].baseline
             /\ Accepts(row[c].prop, row[c].baseline)
             /\ config = Effect(row[c].prop, row[c].baseline)
  <2>1. row'[c].prop = row[c].prop /\ row'[c].baseline = row[c].baseline
    BY <1>2, <1>3, Zenon DEF HInv, FreeInv
  <2> QED BY <1>1, <1>3, <2>1, Zenon DEF HInv, LeftInv
<1>4. CASE UNCHANGED device
  <2>1. pushes[c] # 0 /\ config' = config
    BY <1>4, Zenon DEF device
  <2> QED BY <1>3, <2>1, Zenon
<1>5. CASE edits' # 0
  BY <1>5, Zenon DEF Alone
<1>6. ASSUME NEW w \in Worker,
             Current(w) \in Change, row[Current(w)].status # "none",
             Accepts(row[Current(w)].prop, config),
             config' = Effect(row[Current(w)].prop, config),
             pushes' = [pushes EXCEPT ![Current(w)] = @ + 1]
      PROVE  /\ Accepts(row'[c].prop, row'[c].baseline)
             /\ config' = Effect(row'[c].prop, row'[c].baseline)
  <2>1. Current(w) = c
    BY <1>6, OneMoreWrite, Zenon DEF Alone
  <2>2. CASE pushes[c] = 0
    <3>1. Untouched
      BY <1>1, <2>2, Zenon DEF Untouched, Alone
    <3>2. row'[c].prop = row[c].prop /\ row[c].baseline = config /\ row'[c].baseline = config
      BY <1>2, <1>6, <2>1, <3>1, Zenon DEF HInv, QuietInv
    <3> QED BY <1>6, <2>1, <3>2, Zenon
  <2>3. CASE pushes[c] # 0
    <3>1. row[c].prop \in Proposal /\ row[c].baseline \in Config
      BY <1>1, <1>3, <2>3, Zenon DEF Row
    <3>2. Effect(row[c].prop, Effect(row[c].prop, row[c].baseline)) = Effect(row[c].prop, row[c].baseline)
      BY <3>1, Zenon DEF Effect, Config, Proposal
    <3> QED BY <1>3, <1>6, <2>1, <2>3, <3>2, Zenon
  <2> QED BY <2>2, <2>3, Zenon
<1> QED BY <1>4, <1>5, <1>6, DeviceStep, Zenon

\* A job that adds an object has no other member, so what it pushes against is what it has read.
LEMMA AddPushesAlone ==
    ASSUME HInv, NEW w \in Worker, PushMember(w), edits = 0, row[Current(w)].prop.op = "add"
    PROVE  row[Current(w)].baseline \in {config, None}
<1> DEFINE k == wk[w]
<1>1. IInv /\ k.pc = "push"
  BY Zenon DEF HInv, PushMember
<1>2. /\ k.batch \in Seq(Change) /\ k.out \in Seq(Status)
      /\ Len(k.out) < Len(k.batch)
      /\ k.edits \in Nat /\ k.edits <= edits
  BY <1>1, SlotFacts, Zenon DEF SlotShape
<1>3. k.edits = edits
  BY <1>2
<1>4. k.out = <<>>
  <2>1. SUFFICES ASSUME k.out # <<>> PROVE FALSE
    BY Zenon
  <2>2. Len(k.out) + 1 \in 1..Len(k.batch) /\ 1 \in 1..Len(k.batch) /\ Len(k.out) + 1 # 1
    BY <1>2, <2>1
  <2>3. row[k.batch[Len(k.out) + 1]].prop.op = "set"
    BY <2>2, Zenon DEF HInv, SlotsInv, BatchShape
  <2> QED BY <2>3, Zenon DEF Current
<1> QED BY <1>1, <1>3, <1>4, Zenon DEF IInv, NoClobber

\* An alias is added only where the operator saw none.
LEMMA NextAdd ==
    ASSUME HInv, FreeInv', [Next]_vars, RowStep
    PROVE  AddInv'
<1> SUFFICES ASSUME NEW c \in Change, edits' = 0, pushes'[c] # 0, row'[c].baseline # None,
                    row'[c].prop.kind = "alias", row'[c].prop.op = "add"
             PROVE  row'[c].baseline[row'[c].prop.target] = Absent
  BY Zenon DEF AddInv
<1>1. row'[c].status # "none"
  BY Zenon DEF FreeInv
<1>2. ASSUME row[c].status # "none"
      PROVE  row'[c].prop = row[c].prop /\ row'[c].baseline = row[c].baseline
  BY <1>2, Zenon DEF RowStep, KeptRow, NewRow
<1>3. ASSUME pushes[c] # 0, edits = 0
      PROVE  row'[c].baseline[row'[c].prop.target] = Absent
  <2>1. row'[c].prop = row[c].prop /\ row'[c].baseline = row[c].baseline
    BY <1>2, <1>3, Zenon DEF HInv, FreeInv
  <2> QED BY <1>3, <2>1, Zenon DEF HInv, AddInv
<1>4. CASE UNCHANGED device
  BY <1>3, <1>4, Zenon DEF device
<1>5. CASE edits' # 0
  BY <1>5, Zenon
<1>6. ASSUME NEW w \in Worker, PushMember(w),
             Current(w) \in Change, row[Current(w)].status # "none", edits' = edits,
             Accepts(row[Current(w)].prop, config),
             pushes' = [pushes EXCEPT ![Current(w)] = @ + 1]
      PROVE  row'[c].baseline[row'[c].prop.target] = Absent
  <2>1. CASE Current(w) # c
    BY <1>3, <1>6, <2>1, OneMoreWrite, Zenon
  <2>2. CASE Current(w) = c
    <3>1. row'[c].prop = row[c].prop /\ row'[c].baseline = row[c].baseline
      BY <1>2, <1>6, <2>2, Zenon
    <3>2. row[c].baseline = config
      BY <1>6, <2>2, <3>1, AddPushesAlone, Zenon
    <3>3. config[row[c].prop.target] = Absent
      BY <1>6, <2>2, <3>1, Zenon DEF Accepts
    <3> QED BY <3>1, <3>2, <3>3, Zenon
  <2> QED BY <2>1, <2>2, Zenon
<1> QED BY <1>4, <1>5, <1>6, DeviceStep, Zenon

\* Empty tables, an idle worker and an untouched firewall satisfy the invariant.
LEMMA HInit == Init => HInv
<1> SUFFICES ASSUME Init PROVE HInv
  BY Zenon
<1>1. IInv
  BY InitInv, Zenon
<1>2. \A w \in Worker : wk[w].job = BackupJob /\ wk[w].batch = <<>> /\ wk[w].pc = "idle" /\ wk[w].xml = None
  BY Zenon DEF Init, IdleSlot
<1>3. \A c \in Change : /\ row[c].status = "none" /\ row[c].baseline = None /\ row[c].reverts = None
                        /\ row[c].attempts = 0 /\ row[c].snap = None /\ row[c].result = "none"
  BY Zenon DEF Init, NoRow
<1>4. \A c \in Change : pushes[c] = 0
  BY Zenon DEF Init
<1>5. JobsInv
  <2> SUFFICES ASSUME NEW s \in Profiles, NEW b \in BOOLEAN
               PROVE  ~Alive(ProfileJob(s, b))
    BY Zenon DEF JobsInv
  <2>1. queue[ProfileJob(s, b)] = 0
    BY JobTypes, Zenon DEF Init
  <2>2. \A r \in Request : req[r].job = BackupJob
    BY Zenon DEF Init, IdleHandler
  <2> QED BY <1>2, <2>1, <2>2, ProfileJobs DEF Alive
<1>6. SlotsInv
  BY <1>2 DEF SlotsInv, BatchShape, ReadShape
<1>7. RowsInv
  BY <1>3, BoundsAssumption DEF RowsInv, RowGood
<1>8. RevertInv /\ FreeInv /\ OnceInv /\ LeftInv /\ AddInv
  BY <1>3, <1>4, Zenon DEF RevertInv, FreeInv, OnceInv, LeftInv, AddInv
<1>9. QuietInv
  BY <1>2, <1>3, Zenon DEF QuietInv, Init
<1> QED BY <1>1, <1>5, <1>6, <1>7, <1>8, <1>9, Zenon DEF HInv

\* Every handler, job step, crash and edit keeps it.
LEMMA HNext == HInv /\ [Next]_vars => HInv'
<1> SUFFICES ASSUME HInv, [Next]_vars PROVE HInv'
  BY Zenon
<1>1. IInv'
  BY NextInv, Zenon DEF HInv
<1>2. RowStep /\ \A w \in Worker : SlotStep(w)
  BY NextRows, NextSlots, Zenon
<1>3. SlotsInv' /\ RowsInv'
  BY <1>2, Zenon DEF SlotsInv, RowsInv, SlotStep, RowStep
<1>4. FreeInv'
  BY <1>2, NextFree, Zenon
<1> QED BY <1>1, <1>2, <1>3, <1>4, NextJobs, NextRevert, NextQuiet, NextOnce, NextLeft, NextAdd,
           Zenon DEF HInv

(***************************************************************************)
(* Theorems                                                                *)
(***************************************************************************)

\* Duplicate jobs of one change (a second schedule, the sweeper, ARQ's re-run of a killed job)
\* do not write it twice: whatever the interleaving, the staleness guard under the device lock stops
\* every apply after the first write of a change with a baseline.
THEOREM AppliedAtMostOnce == Spec => []AppliedOnce
<1>1. HInv => AppliedOnce
  <2> SUFFICES ASSUME HInv, NEW c \in Change, Alone(c), Changes(c)
               PROVE  pushes[c] <= 1
    BY Zenon DEF AppliedOnce, Alone, Changes
  <2>1. pushes[c] \in Nat
    BY Zenon DEF HInv, IInv, TypeOK
  <2>2. CASE pushes[c] = 0
    BY <2>2
  <2>3. CASE pushes[c] # 0
    BY <2>3 DEF HInv, OnceInv
  <2> QED BY <2>2, <2>3, Zenon
<1> QED BY <1>1, HInit, HNext, PTL DEF Spec

\* decide_orphan bounds the sweeper: no row is re-enqueued more than MaxAttempts times.
THEOREM AttemptsStayBounded == Spec => []AttemptsBounded
<1>1. HInv => AttemptsBounded
  BY Zenon DEF HInv, RowsInv, RowGood, AttemptsBounded
<1> QED BY <1>1, HInit, HNext, PTL DEF Spec

\* A change written live has a rollback point, and it is the configuration the operator proposed
\* the change against: the pre-apply snapshot a revert works from is never another one.
THEOREM RollbackPointKept == Spec => []RollbackPoint
<1>1. HInv => RollbackPoint
  BY Zenon DEF HInv, RowsInv, RowGood, RollbackPoint
<1> QED BY <1>1, HInit, HNext, PTL DEF Spec

\* revert_config_change: the inverse built from the pre-apply snapshot undoes the change it
\* reverts, whatever happened to either row since.
THEOREM RevertRestores == Spec => []RevertUndoes
<1>1. HInv => RevertUndoes
  <2> SUFFICES ASSUME HInv, NEW d \in Change, NEW c \in {row[d].reverts} \ {None},
                      row[c].result = "live", row[c].baseline # None,
                      Accepts(row[c].prop, row[c].snap),
                      row[c].prop.kind = "firewall_rule" => row[c].prop.op # "add"
               PROVE  Undoes(row[d].prop, row[c].prop, row[c].snap)
    BY Zenon DEF RevertUndoes
  <2>1. row \in [Change -> Row]
    BY Zenon DEF HInv, IInv, TypeOK
  <2>2. c \in Change
    BY <2>1, Zenon DEF Row
  <2>3. row[c].prop \in Proposal /\ row[c].snap \in Config \cup {None}
    BY <2>1, <2>2, Zenon DEF Row
  <2>4. row[c].snap # None /\ row[c].baseline = row[c].snap
    BY <2>2, Zenon DEF HInv, RowsInv, RowGood
  <2>5. row[d].prop \in Inverse(row[c].prop, {row[c].snap})
    BY <2>4, Zenon DEF HInv, RevertInv
  <2> QED BY <2>3, <2>4, <2>5, InverseUndoes, Zenon
<1> QED BY <1>1, HInit, HNext, PTL DEF Spec

\* What a revert does to the firewall as it is now, after a change was pushed: it puts back the
\* object the change addressed and no other, and when the change is the only writer the firewall
\* accepts the revert and is again what the operator proposed the change against.
THEOREM RevertsTakeBack == Spec => []RevertTakesBack
<1>1. HInv => RevertTakesBack
  <2> SUFFICES ASSUME HInv, NEW c \in Change, NEW d \in Change, row[d].reverts = c,
                      pushes[c] # 0, row[c].baseline # None, edits = 0,
                      row[c].prop.kind = "firewall_rule" => row[c].prop.op # "add"
               PROVE  LET target == row[c].prop.target
                      IN  /\ Effect(row[d].prop, config) =
                                [config EXCEPT ![target] = row[c].baseline[target]]
                          /\ (\A e \in Change \ {c} : pushes[e] = 0) =>
                                /\ Accepts(row[d].prop, config)
                                /\ Effect(row[d].prop, config) = row[c].baseline
    BY Zenon DEF RevertTakesBack
  <2> DEFINE p == row[c].prop
             q == row[d].prop
             before == row[c].baseline
  <2>1. row \in [Change -> Row] /\ config \in Config
    BY Zenon DEF HInv, IInv, TypeOK
  <2>2. p \in Proposal /\ before \in Config
    BY <2>1, Zenon DEF Row
  <2>3. q \in Inverse(p, {before})
    BY NoneAssumption, Zenon DEF HInv, RevertInv
  <2>4. p.kind = "alias" /\ p.op = "add" => before[p.target] = Absent
    BY Zenon DEF HInv, AddInv
  <2>5. q.target = p.target /\ (IF q.op = "delete" THEN Absent ELSE q.value) = before[p.target]
    BY <2>2, <2>3, <2>4, InverseRestores, Zenon
  <2>6. Effect(q, config) = [config EXCEPT ![p.target] = before[p.target]]
    BY <2>5, Zenon DEF Effect
  <2>7. ASSUME \A e \in Change \ {c} : pushes[e] = 0
        PROVE  Accepts(q, config) /\ Effect(q, config) = before
    <3>1. Accepts(p, before) /\ config = Effect(p, before)
      BY <2>7, Zenon DEF HInv, LeftInv, Alone
    <3> QED BY <2>2, <2>3, <3>1, InverseUndoes, Zenon DEF Undoes
  <2> QED BY <2>6, <2>7, Zenon
<1> QED BY <1>1, HInit, HNext, PTL DEF Spec

==============================================================================
