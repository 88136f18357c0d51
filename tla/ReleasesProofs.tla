--------------------------- MODULE ReleasesProofs ---------------------------
(***************************************************************************)
(* Theorems about Releases for every set of releases and jobs, every list  *)
(* of store files and every limit.                                         *)
(*                                                                         *)
(* The store loses and resurrects versions of itself, so what is carried   *)
(* from step to step is not about the present version but about all of     *)
(* them: HistoryHappened.  Paid adds the credit that makes RunsArePaid     *)
(* inductive: an approval in memory not yet used, and a process that is    *)
(* down, each leave room for one more job.                                 *)
(***************************************************************************)
EXTENDS Releases, TLAPS

Spendable(r) == Known(r) /\ Rel(r).status = "approved"

Paid ==
    \A r \in Release :
        /\ runs[r] <= given[r] + epoch
        /\ ~up \/ Spendable(r) => runs[r] + 1 <= given[r] + epoch

IInv == TypeOK /\ HistoryHappened /\ BlockedNeverRuns /\ Paid

Contents == [File -> Store \union {None}]

-----------------------------------------------------------------------------
(* The store *)

LEMMA PrimaryIsFile == Primary \in File
  BY CandidateAssumption DEF Primary, File, Range

LEMMA FreshTyped ==
    /\ Fresh \in Store
    /\ \A r \in Release : Fresh.releases[r] = None
  BY DEF Fresh, Store

LEMMA FreshTruth ==
    ASSUME NEW gave, NEW ran
    PROVE  TellsTheTruth(Fresh, gave, ran)
  BY FreshTyped DEF TellsTheTruth

LEMMA MarkedTyped ==
    ASSUME NEW d \in Store, NEW r \in Release, d.releases[r] # None,
           NEW status \in {"approved", "executing"}
    PROVE  /\ Marked(d, r, status) \in Store
           /\ \A q \in Release : q # r =>
                 Marked(d, r, status).releases[q] = d.releases[q]
           /\ Marked(d, r, status).releases[r] \in ReleaseRecord
           /\ Marked(d, r, status).releases[r].status = status
           /\ Blocked(Marked(d, r, status).releases[r]) = Blocked(d.releases[r])
<1>1. d.releases \in [Release -> ReleaseRecord \union {None}]
  BY DEF Store
<1>2. d.releases[r] \in ReleaseRecord
  BY <1>1
<1> DEFINE rec == [d.releases[r] EXCEPT !.status = status]
<1>3. rec \in ReleaseRecord /\ rec.status = status
  BY <1>2 DEF ReleaseRecord
<1>4. Marked(d, r, status) = [d EXCEPT !.releases = [d.releases EXCEPT ![r] = rec]]
  BY DEF Marked
<1>5. Blocked(rec) = Blocked(d.releases[r])
  BY <1>2 DEF ReleaseRecord, Blocked
<1> HIDE DEF rec
<1>6. [d.releases EXCEPT ![r] = rec] \in [Release -> ReleaseRecord \union {None}]
  BY <1>1, <1>3
<1>7. /\ Marked(d, r, status) \in Store
      /\ Marked(d, r, status).releases = [d.releases EXCEPT ![r] = rec]
  BY <1>4, <1>6 DEF Store
<1> QED
  BY <1>1, <1>3, <1>5, <1>7

LEMMA SaveEffect ==
    ASSUME TypeOK, NEW d \in Store, Save(d)
    PROVE  /\ data' = d
           /\ file' \in Contents
           /\ \A f \in File : file'[f] = file[f] \/ file'[f] = d
           /\ path' \in File /\ acked' \in BOOLEAN
<1>1. file \in Contents /\ path \in File
  BY DEF TypeOK, Contents
<1>2. CASE \E i \in DOMAIN Candidate :
             /\ file' = [file EXCEPT ![Candidate[i]] = d]
             /\ path' = Candidate[i] /\ acked' = TRUE
  <2>1. PICK f \in File : file' = [file EXCEPT ![f] = d] /\ path' = f
    BY <1>2 DEF File, Range
  <2> QED
    BY <1>1, <1>2, <2>1 DEF Save, Contents
<1>3. CASE acked' = FALSE /\ UNCHANGED <<file, path>>
  BY <1>1, <1>3 DEF Save
<1> QED
  BY <1>2, <1>3 DEF Save

LEMMA LoadsSome ==
    ASSUME NEW files \in Contents, NEW readable, NEW d, Loads(readable, files, d)
    PROVE  \/ d = Fresh
           \/ \E f \in File : files[f] # None /\ d = files[f]
<1>1. CASE \E i \in Present(readable, files) : d = files[Candidate[i]]
  BY <1>1 DEF Present, File, Range
<1>2. CASE d = Fresh
  BY <1>2
<1> QED
  BY <1>1, <1>2 DEF Loads

-----------------------------------------------------------------------------
(* History only grows *)

Grows ==
    /\ given' \in [Release -> Nat] /\ runs' \in [Release -> Nat]
    /\ \A r \in Release : given[r] <= given'[r] /\ runs[r] <= runs'[r]

LEMMA TruthGrows ==
    ASSUME TypeOK, Grows, NEW d, TellsTheTruth(d, given, runs)
    PROVE  TellsTheTruth(d, given', runs')
<1> SUFFICES ASSUME NEW r \in Release, d.releases[r] # None
             PROVE  /\ given[r] > 0 => given'[r] > 0
                    /\ runs[r] > 0 => runs'[r] > 0
  BY DEF TellsTheTruth
<1>1. given[r] \in Nat /\ given'[r] \in Nat /\ runs[r] \in Nat /\ runs'[r] \in Nat
  BY DEF TypeOK, Grows
<1> QED
  BY <1>1 DEF Grows

LEMMA HistorySaved ==
    ASSUME TypeOK, HistoryHappened, Grows,
           NEW d \in Store, Save(d), TellsTheTruth(d, given', runs')
    PROVE  HistoryHappened'
<1>1. \A f \in File : file[f] # None => TellsTheTruth(file[f], given', runs')
  BY TruthGrows DEF HistoryHappened
<1> QED
  BY <1>1, SaveEffect DEF HistoryHappened

LEMMA HistoryRests ==
    ASSUME TypeOK, HistoryHappened, Grows,
           data' = data \/ data' = Fresh,
           \A f \in File : file'[f] = file[f] \/ file'[f] = None
    PROVE  HistoryHappened'
<1>1. TellsTheTruth(data', given', runs')
  BY TruthGrows, FreshTruth DEF HistoryHappened
<1>2. \A f \in File : file[f] # None => TellsTheTruth(file[f], given', runs')
  BY TruthGrows DEF HistoryHappened
<1> QED
  BY <1>1, <1>2 DEF HistoryHappened

LEMMA SameHistory ==
    ASSUME TypeOK, UNCHANGED <<given, runs>>
    PROVE  Grows
  BY DEF TypeOK, Grows

-----------------------------------------------------------------------------
(* The handlers *)

LEMMA UpsertStep ==
    ASSUME IInv, UpsertObjective
    PROVE  IInv'
<1>1. PICK b \in BOOLEAN : Save([data EXCEPT !.exhausted = b])
  BY DEF UpsertObjective
<1>2. UNCHANGED <<writable, up, job, unused, given, runs, epoch>> /\ TypeOK
  BY DEF UpsertObjective, IInv
<1> DEFINE d == [data EXCEPT !.exhausted = b]
<1>3. d \in Store /\ d.releases = data.releases
  BY <1>2 DEF TypeOK, Store
<1>4. TellsTheTruth(d, given', runs')
  BY <1>2, <1>3 DEF IInv, HistoryHappened, TellsTheTruth
<1>5. HistoryHappened'
  BY <1>1, <1>2, <1>3, <1>4, SameHistory, HistorySaved DEF IInv
<1>6. data' = d /\ TypeOK'
  BY <1>1, <1>2, <1>3, SaveEffect DEF TypeOK, Contents
<1>7. Paid'
  BY <1>2, <1>3, <1>6 DEF IInv, Paid, Spendable, Known, Rel
<1> QED
  BY <1>2, <1>5, <1>6, <1>7 DEF IInv, BlockedNeverRuns

LEMMA CreateStep ==
    ASSUME IInv, NEW r \in Release, CreateRelease(r)
    PROVE  IInv'
<1> DEFINE all == Append(data.order, r)
           kept == IF Len(all) <= StoreLimit THEN all
                   ELSE SubSeq(all, Len(all) - StoreLimit + 1, Len(all))
<1>1. UNCHANGED <<writable, up, job, given, runs, epoch>> /\ TypeOK
      /\ unused' = unused \ {r}
  BY DEF CreateRelease, IInv
<1>2. data.order \in Seq(Release)
      /\ data.releases \in [Release -> ReleaseRecord \union {None}]
  BY <1>1 DEF TypeOK, Store
<1>3. all \in Seq(Release)
  BY <1>2
<1>4. kept \in Seq(Release)
  <2> HIDE DEF all
  <2> QED
    BY <1>3, LimitAssumption
<1> HIDE DEF kept
<1>5. PICK emergency \in BOOLEAN, risky \in BOOLEAN,
           status \in {"blocked", "awaiting_approval"} :
        Save([data EXCEPT
                !.order = kept,
                !.releases = [q \in Release |->
                    IF q = r
                    THEN [emergency |-> emergency, frozen |-> data.exhausted,
                          risky |-> risky, status |-> status]
                    ELSE IF q \in Range(kept) THEN data.releases[q] ELSE None]])
  BY DEF CreateRelease, kept
<1> DEFINE rec == [emergency |-> emergency, frozen |-> data.exhausted,
                   risky |-> risky, status |-> status]
           rels == [q \in Release |->
                      IF q = r THEN rec
                      ELSE IF q \in Range(kept) THEN data.releases[q] ELSE None]
           d == [data EXCEPT !.order = kept, !.releases = rels]
<1>6. rec \in ReleaseRecord /\ rec.status \notin {"approved", "executing"}
  BY <1>1 DEF TypeOK, Store, ReleaseRecord
<1> HIDE DEF rec
<1>7. rels \in [Release -> ReleaseRecord \union {None}]
  BY <1>2, <1>6
<1>8. \A q \in Release : rels[q] \in {rec, data.releases[q], None}
  OBVIOUS
<1> HIDE DEF rels
<1>9. d \in Store /\ d.releases = rels
  BY <1>1, <1>4, <1>7 DEF TypeOK, Store
<1>10. Save(d)
  BY <1>5 DEF rec, rels
<1> HIDE DEF d
<1>11. TellsTheTruth(d, given', runs')
  BY <1>1, <1>6, <1>8, <1>9 DEF IInv, HistoryHappened, TellsTheTruth
<1>12. HistoryHappened'
  BY <1>1, <1>9, <1>10, <1>11, SameHistory, HistorySaved DEF IInv
<1>13. data' = d /\ TypeOK'
  BY <1>1, <1>9, <1>10, SaveEffect DEF TypeOK, Contents
<1>14. \A q \in Release : Spendable(q)' => Spendable(q)
  BY <1>6, <1>8, <1>9, <1>13 DEF Spendable, Known, Rel
<1>15. Paid'
  BY <1>1, <1>14 DEF IInv, Paid
<1> QED
  BY <1>1, <1>12, <1>13, <1>15 DEF IInv, BlockedNeverRuns

LEMMA ApproveStep ==
    ASSUME IInv, NEW r \in Release, ApproveRelease(r)
    PROVE  IInv'
<1> DEFINE d == Marked(data, r, "approved")
<1>1. /\ up /\ Save(d) /\ data.releases[r] # None /\ ~Blocked(data.releases[r])
      /\ given' = [given EXCEPT ![r] = @ + 1]
      /\ UNCHANGED <<writable, up, job, unused, runs, epoch>> /\ TypeOK
  BY DEF ApproveRelease, Approvable, Known, Rel, IInv
<1>2. /\ d \in Store
      /\ \A q \in Release : q # r => d.releases[q] = data.releases[q]
      /\ d.releases[r] \in ReleaseRecord /\ d.releases[r].status = "approved"
      /\ ~Blocked(d.releases[r])
  BY <1>1, MarkedTyped DEF TypeOK
<1> HIDE DEF d
<1>3. /\ given \in [Release -> Nat] /\ runs \in [Release -> Nat] /\ epoch \in Nat
  BY <1>1 DEF TypeOK
<1>4. Grows /\ given'[r] = given[r] + 1 /\ given'[r] > 0
  BY <1>1, <1>3 DEF Grows
<1>5. TellsTheTruth(data, given', runs')
  BY <1>1, <1>4, TruthGrows DEF IInv, HistoryHappened
<1>6. TellsTheTruth(d, given', runs')
  BY <1>2, <1>4, <1>5 DEF TellsTheTruth
<1>7. HistoryHappened'
  BY <1>1, <1>2, <1>4, <1>6, HistorySaved DEF IInv
<1>8. data' = d /\ TypeOK'
  BY <1>1, <1>2, <1>4, SaveEffect DEF TypeOK, Contents, Grows
<1>9. Paid'
  <2> SUFFICES ASSUME NEW q \in Release
               PROVE  /\ runs'[q] <= given'[q] + epoch'
                      /\ ~up' \/ Spendable(q)' => runs'[q] + 1 <= given'[q] + epoch'
    BY DEF Paid
  <2>1. /\ runs[q] <= given[q] + epoch
        /\ Spendable(q) => runs[q] + 1 <= given[q] + epoch
    BY DEF IInv, Paid
  <2>2. CASE q = r
    BY <1>1, <1>3, <1>4, <2>1, <2>2
  <2>3. CASE q # r
    <3>1. Spendable(q)' => Spendable(q)
      BY <1>2, <1>8, <2>3 DEF Spendable, Known, Rel
    <3>2. given'[q] = given[q]
      BY <1>1, <1>3, <2>3
    <3> QED
      BY <1>1, <2>1, <3>1, <3>2
  <2> QED
    BY <2>2, <2>3
<1> QED
  BY <1>1, <1>7, <1>8, <1>9 DEF IInv, BlockedNeverRuns

\* A submission: one more job, whose terms were never blocked.
LEMMA SubmitEffect ==
    ASSUME IInv, NEW r \in Release, Executable(r), Submit(r)
    PROVE  /\ job' \in [Job -> JobView \union {None}]
           /\ BlockedNeverRuns'
           /\ runs' \in [Release -> Nat]
           /\ \A q \in Release : runs'[q] = IF q = r THEN runs[q] + 1 ELSE runs[q]
           /\ data.releases[r] # None
<1>1. /\ TypeOK /\ data.releases[r] # None /\ data.releases[r].status = "approved"
      /\ Rel(r) = data.releases[r]
  BY DEF IInv, Executable, Known, Rel
<1>2. Rel(r) \in ReleaseRecord /\ ~Blocked(Rel(r))
  BY <1>1 DEF TypeOK, Store, IInv, HistoryHappened, TellsTheTruth
<1> DEFINE view == [release |-> r, terms |-> Rel(r), stage |-> "ready"]
<1>3. view \in JobView /\ view.terms = Rel(r)
  BY <1>2 DEF JobView
<1>4. PICK k \in Job : job' = [job EXCEPT ![k] = view]
  BY DEF Submit
<1> HIDE DEF view
<1>5. job' \in [Job -> JobView \union {None}]
  BY <1>1, <1>3, <1>4 DEF TypeOK
<1>6. \A l \in Job : job'[l] = view \/ job'[l] = job[l]
  BY <1>1, <1>4 DEF TypeOK
<1>7. \A l \in Job : job'[l] # None => ~Blocked(job'[l].terms)
  BY <1>2, <1>3, <1>6 DEF IInv, BlockedNeverRuns
<1>8. BlockedNeverRuns'
  BY <1>7 DEF BlockedNeverRuns, Blocked
<1> QED
  BY <1>1, <1>5, <1>8 DEF Submit, TypeOK

LEMMA ExecuteStep ==
    ASSUME IInv, NEW r \in Release, ExecuteRelease(r)
    PROVE  IInv'
<1> DEFINE d == Marked(data, r, "executing")
<1>1. /\ up /\ Executable(r) /\ Submit(r) /\ Save(d)
      /\ UNCHANGED <<writable, up, unused, given, epoch>> /\ TypeOK
  BY DEF ExecuteRelease, IInv
<1>2. /\ job' \in [Job -> JobView \union {None}]
      /\ BlockedNeverRuns'
      /\ runs' \in [Release -> Nat]
      /\ \A q \in Release : runs'[q] = IF q = r THEN runs[q] + 1 ELSE runs[q]
      /\ data.releases[r] # None
  BY <1>1, SubmitEffect
<1>3. /\ d \in Store
      /\ \A q \in Release : q # r => d.releases[q] = data.releases[q]
      /\ d.releases[r].status = "executing"
      /\ Blocked(d.releases[r]) = Blocked(data.releases[r])
  BY <1>1, <1>2, MarkedTyped DEF TypeOK
<1> HIDE DEF d
<1>4. given \in [Release -> Nat] /\ runs \in [Release -> Nat] /\ epoch \in Nat
  BY <1>1 DEF TypeOK
<1>5. Grows /\ runs'[r] > 0
  BY <1>1, <1>2, <1>4 DEF Grows
<1>6. TellsTheTruth(data, given', runs')
  BY <1>1, <1>5, TruthGrows DEF IInv, HistoryHappened
<1>7. Spendable(r)
  BY <1>1 DEF Executable, Spendable
<1>8. given'[r] > 0 /\ ~Blocked(data.releases[r])
  BY <1>6, <1>7 DEF TellsTheTruth, Spendable, Known, Rel
<1>9. TellsTheTruth(d, given', runs')
  BY <1>3, <1>5, <1>6, <1>8 DEF TellsTheTruth
<1>10. HistoryHappened'
  BY <1>1, <1>3, <1>5, <1>9, HistorySaved DEF IInv
<1>11. data' = d /\ TypeOK'
  BY <1>1, <1>2, <1>3, SaveEffect DEF TypeOK, Contents
<1>12. Paid'
  <2> SUFFICES ASSUME NEW q \in Release
               PROVE  /\ runs'[q] <= given'[q] + epoch'
                      /\ ~up' \/ Spendable(q)' => runs'[q] + 1 <= given'[q] + epoch'
    BY DEF Paid
  <2>1. /\ runs[q] <= given[q] + epoch
        /\ Spendable(q) => runs[q] + 1 <= given[q] + epoch
    BY DEF IInv, Paid
  <2>2. CASE q = r
    <3>1. ~Spendable(q)'
      BY <1>3, <1>11, <2>2 DEF Spendable, Known, Rel
    <3> QED
      BY <1>1, <1>2, <1>7, <2>1, <2>2, <3>1
  <2>3. CASE q # r
    <3>1. Spendable(q)' => Spendable(q)
      BY <1>3, <1>11, <2>3 DEF Spendable, Known, Rel
    <3> QED
      BY <1>1, <1>2, <2>1, <2>3, <3>1
  <2> QED
    BY <2>2, <2>3
<1> QED
  BY <1>2, <1>10, <1>11, <1>12 DEF IInv

-----------------------------------------------------------------------------
(* The engine's view, the world *)

LEMMA StageStep ==
    ASSUME IInv, NEW k \in Job, NEW from,
           NEW to \in {"ready", "waiting", "changing", "resting", "ended"},
           StageOf(k, from, to), UNCHANGED Engine
    PROVE  IInv'
<1>1. /\ TypeOK /\ job[k] # None /\ job' = [job EXCEPT ![k].stage = to]
      /\ UNCHANGED <<data, file, path, writable, up, acked, unused, given, runs, epoch>>
  BY DEF StageOf, IInv, Engine
<1> DEFINE view == [job[k] EXCEPT !.stage = to]
<1>2. job \in [Job -> JobView \union {None}] /\ job[k] \in JobView
  BY <1>1 DEF TypeOK
<1>3. view \in JobView /\ view.terms = job[k].terms
  BY <1>2 DEF JobView
<1>4. job' = [job EXCEPT ![k] = view]
  BY <1>1
<1> HIDE DEF view
<1>5. job' \in [Job -> JobView \union {None}]
  BY <1>2, <1>3, <1>4
<1>6. \A l \in Job : job'[l] # None => job[l] # None /\ job'[l].terms = job[l].terms
  BY <1>1, <1>2, <1>3, <1>4
<1>7. BlockedNeverRuns'
  BY <1>6 DEF IInv, BlockedNeverRuns
<1>8. TypeOK'
  BY <1>1, <1>5 DEF TypeOK
<1>9. HistoryHappened' /\ Paid'
  BY <1>1 DEF IInv, HistoryHappened, Paid, Spendable, Known, Rel
<1> QED
  BY <1>7, <1>8, <1>9 DEF IInv

LEMMA JobStep ==
    ASSUME IInv, NEW k \in Job,
           GateJob(k) \/ ConfirmChange(k) \/ ChangeReturned(k) \/ RecheckJob(k) \/ EndJob(k)
    PROVE  IInv'
<1>1. UNCHANGED Engine
  BY DEF GateJob, ConfirmChange, ChangeReturned, RecheckJob, EndJob
<1>2. PICK from \in {"ready", "waiting", "changing", "resting", "ended"},
           to \in {"ready", "waiting", "changing", "resting", "ended"} :
           StageOf(k, from, to)
  BY DEF GateJob, ConfirmChange, ChangeReturned, RecheckJob, EndJob
<1> QED
  BY <1>1, <1>2, StageStep

LEMMA DiskStep ==
    ASSUME IInv, DiskChanges
    PROVE  IInv'
<1>1. /\ TypeOK /\ writable' \subseteq File
      /\ UNCHANGED <<data, file, path, up, job, acked, unused, given, runs, epoch>>
  BY DEF IInv, DiskChanges
<1>2. TypeOK'
  BY <1>1 DEF TypeOK
<1> QED
  BY <1>1, <1>2 DEF IInv, HistoryHappened, BlockedNeverRuns, Paid, Spendable, Known, Rel

LEMMA DieEffect ==
    ASSUME TypeOK, HistoryHappened, Grows, Die
    PROVE  /\ HistoryHappened'
           /\ data' \in Store /\ file' \in Contents /\ path' \in File
           /\ epoch' = epoch + 1 /\ up /\ ~up'
           /\ UNCHANGED <<writable, acked, unused, given>>
<1>1. PICK lost \in SUBSET (File \ {Primary}) :
        file' = [f \in File |-> IF f \in lost THEN None ELSE file[f]]
  BY DEF Die
<1>2. file \in Contents
  BY DEF TypeOK, Contents
<1>3. file' \in Contents /\ \A f \in File : file'[f] = file[f] \/ file'[f] = None
  BY <1>1, <1>2 DEF Contents
<1>4. data' = Fresh
  BY DEF Die
<1>5. HistoryHappened'
  BY <1>3, <1>4, HistoryRests
<1> QED
  BY <1>3, <1>4, <1>5, FreshTyped, PrimaryIsFile DEF Die

LEMMA CrashStep ==
    ASSUME IInv, Crash
    PROVE  IInv'
<1>1. TypeOK /\ Die /\ UNCHANGED <<job, runs>> /\ given' = given
  BY DEF IInv, Crash, Die
<1>2. Grows
  BY <1>1, SameHistory
<1>3. /\ HistoryHappened' /\ data' \in Store /\ file' \in Contents /\ path' \in File
      /\ epoch' = epoch + 1 /\ up /\ ~up' /\ UNCHANGED <<writable, acked, unused, given>>
  BY <1>1, <1>2, DieEffect DEF IInv
<1>4. up' \in BOOLEAN
  BY DEF Crash, Die
<1>5. TypeOK'
  BY <1>1, <1>3, <1>4 DEF TypeOK, Contents
<1>6. Paid'
  <2> SUFFICES ASSUME NEW q \in Release
               PROVE  runs[q] + 1 <= given[q] + (epoch + 1) /\ runs[q] <= given[q] + (epoch + 1)
    BY <1>1, <1>3 DEF Paid
  <2>1. runs[q] \in Nat /\ given[q] \in Nat /\ epoch \in Nat
    BY <1>1 DEF TypeOK
  <2> QED
    BY <2>1 DEF IInv, Paid
<1> QED
  BY <1>1, <1>3, <1>5, <1>6 DEF IInv, BlockedNeverRuns

LEMMA CrashInExecuteStep ==
    ASSUME IInv, NEW r \in Release, CrashInExecute(r)
    PROVE  IInv'
<1>1. TypeOK /\ Die /\ Executable(r) /\ Submit(r) /\ given' = given
  BY DEF IInv, CrashInExecute, Die
<1>2. /\ job' \in [Job -> JobView \union {None}]
      /\ BlockedNeverRuns'
      /\ runs' \in [Release -> Nat]
      /\ \A q \in Release : runs'[q] = IF q = r THEN runs[q] + 1 ELSE runs[q]
  BY <1>1, SubmitEffect
<1>3. given \in [Release -> Nat] /\ runs \in [Release -> Nat] /\ epoch \in Nat
  BY <1>1 DEF TypeOK
<1>4. Grows
  BY <1>1, <1>2, <1>3 DEF Grows
<1>5. /\ HistoryHappened' /\ data' \in Store /\ file' \in Contents /\ path' \in File
      /\ epoch' = epoch + 1 /\ up /\ ~up' /\ UNCHANGED <<writable, acked, unused, given>>
  BY <1>1, <1>4, DieEffect DEF IInv
<1>6. up' \in BOOLEAN
  BY <1>1 DEF Die
<1>7. TypeOK'
  BY <1>1, <1>2, <1>3, <1>5, <1>6 DEF TypeOK, Contents
<1>8. Paid'
  <2> SUFFICES ASSUME NEW q \in Release
               PROVE  runs'[q] + 1 <= given[q] + (epoch + 1)
                      /\ runs'[q] <= given[q] + (epoch + 1)
    BY <1>1, <1>5 DEF Paid
  <2>1. /\ runs[q] <= given[q] + epoch
        /\ Spendable(q) => runs[q] + 1 <= given[q] + epoch
    BY DEF IInv, Paid
  <2>2. Spendable(r)
    BY <1>1 DEF Executable, Spendable
  <2>3. runs[q] \in Nat /\ given[q] \in Nat
    BY <1>3
  <2> QED
    BY <1>2, <1>3, <2>1, <2>2, <2>3
<1> QED
  BY <1>2, <1>5, <1>7, <1>8 DEF IInv

LEMMA RestartStep ==
    ASSUME IInv, Restart
    PROVE  IInv'
<1>1. /\ TypeOK /\ ~up /\ up' = TRUE /\ path' = Primary /\ acked' = TRUE
      /\ UNCHANGED <<file, writable, unused, given, runs, epoch>>
      /\ file \in Contents
  BY DEF IInv, Restart, TypeOK, Contents
<1>2. data' = Fresh \/ \E f \in File : file[f] # None /\ data' = file[f]
  BY <1>1, LoadsSome DEF Restart
<1>3. data' \in Store
  BY <1>1, <1>2, FreshTyped DEF Contents
<1>4. TellsTheTruth(data', given, runs)
  BY <1>2, FreshTruth DEF IInv, HistoryHappened
<1>5. HistoryHappened'
  BY <1>1, <1>4 DEF IInv, HistoryHappened
<1>6. job \in [Job -> JobView \union {None}]
  BY <1>1 DEF TypeOK
<1>7. job' = [k \in Job |-> IF job[k] # None /\ job[k].stage # "ended"
                            THEN [job[k] EXCEPT !.stage = "ready"] ELSE job[k]]
  BY DEF Restart
<1>8. \A k \in Job : /\ job'[k] \in JobView \union {None}
                     /\ job'[k] # None => job[k] # None /\ job'[k].terms = job[k].terms
  <2> SUFFICES ASSUME NEW k \in Job
               PROVE  /\ job'[k] \in JobView \union {None}
                      /\ job'[k] # None => job[k] # None /\ job'[k].terms = job[k].terms
    OBVIOUS
  <2>1. CASE job[k] = None
    BY <1>7, <2>1
  <2>2. CASE job[k] # None
    <3>1. job[k] \in JobView
      BY <1>6, <2>2
    <3>2. [job[k] EXCEPT !.stage = "ready"] \in JobView
          /\ [job[k] EXCEPT !.stage = "ready"].terms = job[k].terms
      BY <3>1 DEF JobView
    <3> QED
      BY <1>7, <2>2, <3>1, <3>2
  <2> QED
    BY <2>1, <2>2
<1>9. job' \in [Job -> JobView \union {None}]
  BY <1>7, <1>8
<1>10. BlockedNeverRuns'
  BY <1>8 DEF IInv, BlockedNeverRuns
<1>11. TypeOK'
  BY <1>1, <1>3, <1>9, PrimaryIsFile DEF TypeOK
<1>12. Paid'
  BY <1>1 DEF IInv, Paid
<1> QED
  BY <1>5, <1>10, <1>11, <1>12 DEF IInv

-----------------------------------------------------------------------------
(* The invariant and the theorems *)

LEMMA InitialInvariant == Init => IInv
<1> SUFFICES ASSUME Init PROVE IInv
  OBVIOUS
<1>1. TypeOK
  BY FreshTyped, PrimaryIsFile DEF Init, TypeOK
<1>2. \A r \in Release : ~Spendable(r) /\ runs[r] = 0 /\ given[r] = 0
  BY FreshTyped DEF Init, Spendable, Known, Rel
<1>3. Paid
  BY <1>2 DEF Init, Paid
<1>4. HistoryHappened
  BY FreshTruth DEF Init, HistoryHappened
<1>5. BlockedNeverRuns
  BY DEF Init, BlockedNeverRuns
<1> QED
  BY <1>1, <1>3, <1>4, <1>5 DEF IInv

LEMMA EveryStep ==
    ASSUME IInv, [Next]_vars
    PROVE  IInv'
<1>1. CASE UNCHANGED vars
  BY <1>1 DEF vars, IInv, TypeOK, HistoryHappened, BlockedNeverRuns, Paid,
              Spendable, Known, Rel
<1>2. CASE UpsertObjective \/ DiskChanges \/ Crash \/ Restart
  BY <1>2, UpsertStep, DiskStep, CrashStep, RestartStep
<1>3. ASSUME NEW r \in Release,
             \/ CreateRelease(r) \/ ApproveRelease(r)
             \/ ExecuteRelease(r) \/ CrashInExecute(r)
      PROVE  IInv'
  BY <1>3, CreateStep, ApproveStep, ExecuteStep, CrashInExecuteStep
<1>4. ASSUME NEW k \in Job,
             \/ GateJob(k) \/ ConfirmChange(k) \/ ChangeReturned(k)
             \/ RecheckJob(k) \/ EndJob(k)
      PROVE  IInv'
  BY <1>4, JobStep
<1> QED
  BY <1>1, <1>2, <1>3, <1>4 DEF Next

LEMMA Invariance == Spec => []IInv
<1>1. Init => IInv
  BY InitialInvariant
<1>2. IInv /\ [Next]_vars => IInv'
  BY EveryStep
<1> QED
  BY <1>1, <1>2, PTL DEF Spec

\* Type correctness of the store, of every file it may be reloaded from and of
\* the jobs it submitted.
THEOREM ReleaseTypes == Spec => []TypeOK
<1>1. IInv => TypeOK
  BY DEF IInv
<1> QED
  BY <1>1, Invariance, PTL

\* No version of the store, however stale, shows an approval nobody gave or an
\* execution that was never submitted.
THEOREM StoreNeverInvents == Spec => []HistoryHappened
<1>1. IInv => HistoryHappened
  BY DEF IInv
<1> QED
  BY <1>1, Invariance, PTL

\* A release the gate blocked never becomes a job, through any order of
\* approvals, failed saves, stale files and restarts.
THEOREM GateIsFinal == Spec => []BlockedNeverRuns
<1>1. IInv => BlockedNeverRuns
  BY DEF IInv
<1> QED
  BY <1>1, Invariance, PTL

\* A release is submitted at most once per approval and per death of the process.
THEOREM EveryRunIsPaid == Spec => []RunsArePaid
<1>1. IInv => RunsArePaid
  BY DEF IInv, Paid, RunsArePaid
<1> QED
  BY <1>1, Invariance, PTL
=============================================================================
