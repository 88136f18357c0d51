----------------------- MODULE ChangeExecutionProofs -----------------------
(***************************************************************************)
(* Which credential a change is made with and where it lands, for every    *)
(* set of clusters, servers, tokens and plans and any number of            *)
(* overlapping calls.                                                      *)
(*                                                                         *)
(* What a row, a registry call about to save and an execution under way    *)
(* hold was each accepted in a probe before; from there on credentials     *)
(* are only copied.  CallsProven and ExecInv carry that between the reads  *)
(* and the writes.                                                         *)
(***************************************************************************)
EXTENDS ChangeExecution, TLAPS

\* A call is about to save only what its probe has proven.
CallsProven == \A c \in Calls : call[c].pc = "save" => call[c].cred \in proven

RInv == RegistryTypeOK /\ CallsProven /\ StoredWasProven

-----------------------------------------------------------------------------
(* The registry *)

LEMMA RegistryStarts == RegistryInit => RInv
<1> SUFFICES ASSUME RegistryInit PROVE RInv
    OBVIOUS
<1>1. rows \in [Ids -> Row \cup {NoRow}]
  <2>1. \A k \in Credential : [cred |-> k, status |-> "connected", facts |-> k.server] \in Row
        BY DEF Row, Statuses, Credential
  <2> DEFINE S == {[cred |-> k, status |-> "connected", facts |-> k.server] : k \in Credential}
  <2>2. S \subseteq Row
        BY <2>1, Zenon
  <2>3. rows \in [Ids -> {NoRow} \cup S]
        BY DEF RegistryInit
  <2> HIDE DEF S
  <2> QED BY <2>2, <2>3
<1>2. call \in [Calls -> CallRecord]
  <2>1. (CHOOSE id \in Ids : TRUE) \in Ids
        BY RegistryAssumption
  <2>2. \A s \in Servers, t \in Tokens : [server |-> s, token |-> t] \in Credential
        BY DEF Credential
  <2>3. (CHOOSE k \in Credential : TRUE) \in Credential
        BY <2>2, RegistryAssumption
  <2> QED BY <2>1, <2>3 DEF RegistryInit, CallRecord, CallPCs
<1>3. accepts \in [Servers -> SUBSET Tokens]
      BY DEF RegistryInit
<1>4. proven \subseteq Credential
  <2> SUFFICES ASSUME NEW id \in Ids, rows[id] # NoRow PROVE rows[id].cred \in Credential
      BY DEF RegistryInit
  <2> QED BY <1>1 DEF Row
<1>5. StoredWasProven
      BY DEF RegistryInit, StoredWasProven, Known, RowOf
<1>6. CallsProven
      BY DEF RegistryInit, CallsProven
<1> QED BY <1>1, <1>2, <1>3, <1>4, <1>5, <1>6 DEF RInv, RegistryTypeOK, RegistryInit

\* A call that goes on without touching a row, what was proven, or its own
\* right to save.
LEMMA QuietCall ==
    ASSUME RInv, NEW c \in Calls, NEW r \in CallRecord,
           call' = [call EXCEPT ![c] = r], r.pc = "save" => r.cred \in proven,
           UNCHANGED <<rows, accepts, proven, dead>>
    PROVE  RInv'
<1>1. RegistryTypeOK'
      BY DEF RInv, RegistryTypeOK
<1>2. CallsProven'
      BY DEF RInv, RegistryTypeOK, CallsProven
<1>3. StoredWasProven'
      BY DEF RInv, StoredWasProven, Known, RowOf
<1> QED BY <1>1, <1>2, <1>3 DEF RInv

LEMMA CallBeginsKeeps ==
    ASSUME RInv, NEW c \in Calls, CallBegins(c)
    PROVE  RInv' /\ proven' = proven
<1> USE DEF RInv
<1>0. call[c] \in CallRecord
      BY DEF RegistryTypeOK
<1>1. CASE Upsert(c)
  <2>1. PICK id \in Ids, k \in Credential :
          call' = [call EXCEPT ![c].op = "upsert", ![c].id = id, ![c].cred = k, ![c].pc = "probe"]
        BY <1>1 DEF Upsert
  <2>2. [call[c] EXCEPT !.op = "upsert", !.id = id, !.cred = k, !.pc = "probe"] \in CallRecord
        BY <1>0 DEF CallRecord, CallPCs
  <2>3. [call[c] EXCEPT !.op = "upsert", !.id = id, !.cred = k, !.pc = "probe"].pc = "probe"
        BY <1>0 DEF CallRecord
  <2>4. call' = [call EXCEPT ![c] = [call[c] EXCEPT !.op = "upsert", !.id = id, !.cred = k, !.pc = "probe"]]
        BY <2>1
  <2> QED BY <1>1, <2>2, <2>3, <2>4, QuietCall DEF Upsert
<1>2. ASSUME NEW op \in {"upsert", "refresh", "probe"}, NEW id \in Ids,
             NEW pc \in {"rejected", "configure"}, Begins(c, op, id, pc)
      PROVE  RInv' /\ proven' = proven
  <2>1. [call[c] EXCEPT !.op = op, !.id = id, !.pc = pc] \in CallRecord
        BY <1>0, <1>2 DEF CallRecord, CallPCs
  <2>2. [call[c] EXCEPT !.op = op, !.id = id, !.pc = pc].pc # "save"
        BY <1>0, <1>2 DEF CallRecord
  <2>3. call' = [call EXCEPT ![c] = [@ EXCEPT !.op = op, !.id = id, !.pc = pc]]
        BY <1>2 DEF Begins
  <2> QED BY <1>2, <2>1, <2>2, <2>3, QuietCall DEF Begins
<1>3. CASE UpsertRejected(c)
      BY <1>2, <1>3 DEF UpsertRejected
<1>4. CASE VerifyCluster(c)
      BY <1>2, <1>4 DEF VerifyCluster
<1>5. CASE RefreshToken(c)
  <2>1. PICK id \in Ids, t \in Tokens :
          call' = [call EXCEPT ![c].op = "refresh", ![c].id = id, ![c].cred.token = t, ![c].pc = "read"]
        BY <1>5 DEF RefreshToken
  <2> DEFINE r == [call[c] EXCEPT !.op = "refresh", !.id = id, !.cred.token = t, !.pc = "read"]
  <2>2. [call[c].cred EXCEPT !.token = t] \in Credential
        BY <1>0 DEF CallRecord, Credential
  <2>3. r \in CallRecord /\ r.pc = "read"
        BY <1>0, <2>2 DEF CallRecord, CallPCs
  <2>4. call' = [call EXCEPT ![c] = r]
        BY <2>1
  <2> QED BY <1>5, <2>3, <2>4, QuietCall DEF RefreshToken
<1>6. CASE DeleteCluster(c)
  <2>1. PICK id \in Ids :
          /\ rows' = [rows EXCEPT ![id] = NoRow]
          /\ call' = [call EXCEPT ![c].op = "delete", ![c].id = id,
                                  ![c].pc = IF Known(id) THEN "answer" ELSE "missing"]
        BY <1>6 DEF DeleteCluster
  <2> DEFINE r == [call[c] EXCEPT !.op = "delete", !.id = id, !.pc = IF Known(id) THEN "answer" ELSE "missing"]
  <2>2. r \in CallRecord /\ r.pc # "save"
        BY <1>0 DEF CallRecord, CallPCs
  <2>3. UNCHANGED <<accepts, proven, dead>>
        BY <1>6 DEF DeleteCluster
  <2>4. call' = [call EXCEPT ![c] = r]
        BY <2>1
  <2> HIDE DEF r
  <2>5. RegistryTypeOK'
        BY <2>1, <2>2, <2>3, <2>4 DEF RegistryTypeOK
  <2>6. CallsProven'
        BY <2>2, <2>3, <2>4 DEF RegistryTypeOK, CallsProven
  <2>7. StoredWasProven'
        BY <2>1, <2>3 DEF RegistryTypeOK, StoredWasProven, Known, RowOf
  <2> QED BY <2>3, <2>5, <2>6, <2>7
<1> QED BY <1>1, <1>3, <1>4, <1>5, <1>6 DEF CallBegins

LEMMA CallStepKeeps ==
    ASSUME RInv, NEW c \in Calls, CallStep(c)
    PROVE  RInv' /\ proven \subseteq proven'
<1> USE DEF RInv
<1>0. call[c] \in CallRecord
      BY DEF RegistryTypeOK
\* Steps that only move the call on.
<1>1. ASSUME NEW pc \in CallPCs \ {"save"}, CallGoes(c, pc), UNCHANGED <<rows, accepts, proven, dead>>
      PROVE  RInv'
  <2>1. [call[c] EXCEPT !.pc = pc] \in CallRecord /\ [call[c] EXCEPT !.pc = pc].pc # "save"
        BY <1>0, <1>1 DEF CallRecord
  <2>2. call' = [call EXCEPT ![c] = [call[c] EXCEPT !.pc = pc]]
        BY <1>1 DEF CallGoes
  <2> QED BY <1>1, <2>1, <2>2, QuietCall
\* Steps that write a row with the credential it had, or a proven one.
<1>2. ASSUME NEW id \in Ids, NEW row \in Row \cup {NoRow}, rows' = [rows EXCEPT ![id] = row],
             row # NoRow => row.cred \in proven,
             NEW pc \in CallPCs \ {"save"}, CallGoes(c, pc), UNCHANGED <<accepts, proven, dead>>
      PROVE  RInv'
  <2>1. [call[c] EXCEPT !.pc = pc] \in CallRecord /\ [call[c] EXCEPT !.pc = pc].pc # "save"
        BY <1>0, <1>2 DEF CallRecord
  <2>2. call' = [call EXCEPT ![c] = [call[c] EXCEPT !.pc = pc]]
        BY <1>2 DEF CallGoes
  <2>3. RegistryTypeOK'
        BY <1>2, <2>1, <2>2 DEF RegistryTypeOK
  <2>4. CallsProven'
        BY <1>2, <2>1, <2>2 DEF RegistryTypeOK, CallsProven
  <2>5. StoredWasProven'
        BY <1>2 DEF RegistryTypeOK, StoredWasProven, Known, RowOf
  <2> QED BY <2>3, <2>4, <2>5
\* Probes: the servers accept the credential, or nothing is learned.
<1>3. ASSUME NEW r \in CallRecord, call' = [call EXCEPT ![c] = r], r.cred = call[c].cred,
             proven' = proven \cup {call[c].cred}, UNCHANGED <<rows, accepts, dead>>
      PROVE  RInv'
  <2>1. call[c].cred \in Credential
        BY <1>0 DEF CallRecord
  <2>2. RegistryTypeOK'
        BY <1>3, <2>1 DEF RegistryTypeOK
  <2>3. CallsProven'
        BY <1>3 DEF RegistryTypeOK, CallsProven
  <2>4. StoredWasProven'
        BY <1>3 DEF StoredWasProven, Known, RowOf
  <2> QED BY <2>2, <2>3, <2>4
<1>4. call[c].id \in Ids
      BY <1>0 DEF CallRecord
<1>5. CASE RefreshReads(c)
  <2>1. CASE Known(call[c].id)
    <3> DEFINE r == [call[c] EXCEPT !.cred.server = RowOf(call[c].id).cred.server, !.pc = "probe"]
    <3>1. RowOf(call[c].id) \in Row
          BY <1>4, <2>1 DEF RegistryTypeOK, Known, RowOf
    <3>2. [call[c].cred EXCEPT !.server = RowOf(call[c].id).cred.server] \in Credential
          BY <1>0, <3>1 DEF CallRecord, Credential, Row
    <3>3. r \in CallRecord /\ r.pc = "probe"
          BY <1>0, <3>2 DEF CallRecord, CallPCs
    <3>4. call' = [call EXCEPT ![c] = r]
          BY <1>5, <2>1 DEF RefreshReads
    <3> QED BY <1>5, <3>3, <3>4, QuietCall DEF RefreshReads
  <2>2. CASE ~Known(call[c].id)
        BY <1>1, <1>5, <2>2 DEF RefreshReads, CallPCs
  <2> QED BY <2>1, <2>2
<1>6. CASE ProbeContent(c)
  <2>1. CASE CallGoes(c, "unverified") /\ UNCHANGED proven
        BY <1>1, <1>6, <2>1 DEF ProbeContent, CallPCs
  <2>2. CASE proven' = proven \cup {call[c].cred} /\ CallGoes(c, "save")
    <3> DEFINE r == [call[c] EXCEPT !.pc = "save"]
    <3>1. r \in CallRecord /\ r.cred = call[c].cred
          BY <1>0 DEF CallRecord, CallPCs
    <3>2. call' = [call EXCEPT ![c] = r]
          BY <2>2 DEF CallGoes
    <3> HIDE DEF r
    <3> QED BY <1>3, <1>6, <2>2, <3>1, <3>2 DEF ProbeContent
  <2> QED BY <1>6, <2>1, <2>2 DEF ProbeContent
<1>7. CASE Save(c)
  <2> DEFINE id == call[c].id
             row == [cred |-> call[c].cred, status |-> "pending",
                     facts |-> IF Known(id) THEN RowOf(id).facts ELSE "none"]
  <2>1. Known(id) => RowOf(id) \in Row
        BY <1>4 DEF RegistryTypeOK, Known, RowOf
  <2>2. row \in Row
        BY <1>0, <2>1 DEF CallRecord, Row, Statuses
  <2>3. row.cred \in proven
        BY <1>7 DEF Save, CallsProven
  <2>4. rows' = [rows EXCEPT ![id] = row]
        BY <1>7 DEF Save
  <2> HIDE DEF row
  <2> QED BY <1>2, <1>4, <1>7, <2>2, <2>3, <2>4 DEF Save, CallPCs
<1>8. CASE Fetch(c)
      BY <1>1, <1>8 DEF Fetch, CallPCs
\* Marking and probing keep the credential of the row.
<1>9. ASSUME NEW id \in Ids, NEW status \in Statuses, NEW facts \in Servers \cup {"none"}, Known(id)
      PROVE  /\ [rows[id] EXCEPT !.status = status, !.facts = facts] \in Row
             /\ [rows[id] EXCEPT !.status = status, !.facts = facts].cred \in proven
  <2>1. rows[id] \in Row /\ rows[id].cred \in proven
        BY <1>9 DEF RegistryTypeOK, StoredWasProven, Known, RowOf
  <2> QED BY <2>1, <1>9 DEF Row
<1>10. call[c].cred.server \in Servers
       BY <1>0 DEF CallRecord, Credential
<1>11. CASE MarkConnected(c)
  <2> DEFINE id == call[c].id
             row == IF Known(id) THEN [rows[id] EXCEPT !.status = "connected", !.facts = call[c].cred.server] ELSE NoRow
  <2>1. rows' = [rows EXCEPT ![id] = row]
        BY <1>4, <1>11 DEF MarkConnected, RegistryTypeOK
  <2>2. row \in Row \cup {NoRow} /\ (row # NoRow => row.cred \in proven)
        BY <1>4, <1>9, <1>10 DEF Statuses
  <2> HIDE DEF row
  <2> QED BY <1>2, <1>4, <1>11, <2>1, <2>2 DEF MarkConnected, CallPCs
<1>12. CASE Configure(c)
  <2>1. CASE Known(call[c].id)
    <3> DEFINE r == [call[c] EXCEPT !.cred = RowOf(call[c].id).cred, !.pc = "measure"]
    <3>1. RowOf(call[c].id) \in Row
          BY <1>4, <2>1 DEF RegistryTypeOK, Known, RowOf
    <3>2. r \in CallRecord /\ r.pc = "measure"
          BY <1>0, <3>1 DEF CallRecord, CallPCs, Row
    <3>3. call' = [call EXCEPT ![c] = r]
          BY <1>12, <2>1 DEF Configure
    <3> QED BY <1>12, <3>2, <3>3, QuietCall DEF Configure
  <2>2. CASE ~Known(call[c].id)
        BY <1>1, <1>12, <2>2 DEF Configure, CallPCs
  <2> QED BY <2>1, <2>2
<1>13. CASE Measure(c)
  <2>1. CASE CallGoes(c, "write") /\ UNCHANGED proven
        BY <1>1, <1>13, <2>1 DEF Measure, CallPCs
  <2>2. CASE call' = [call EXCEPT ![c].good = TRUE, ![c].pc = "write"] /\ proven' = proven \cup {call[c].cred}
    <3> DEFINE r == [call[c] EXCEPT !.good = TRUE, !.pc = "write"]
    <3>1. r \in CallRecord /\ r.cred = call[c].cred
          BY <1>0 DEF CallRecord, CallPCs
    <3>2. call' = [call EXCEPT ![c] = r]
          BY <2>2
    <3> HIDE DEF r
    <3> QED BY <1>3, <1>13, <2>2, <3>1, <3>2 DEF Measure
  <2> QED BY <1>13, <2>1, <2>2 DEF Measure
<1>14. CASE WriteProbe(c)
  <2> DEFINE id == call[c].id
             row == IF ~Known(id) THEN NoRow
                    ELSE IF call[c].good THEN [rows[id] EXCEPT !.status = "connected", !.facts = call[c].cred.server]
                    ELSE [rows[id] EXCEPT !.status = "unreachable", !.facts = "none"]
  <2>1. rows' = [rows EXCEPT ![id] = row]
        BY <1>4, <1>14 DEF WriteProbe, RegistryTypeOK
  <2>2. row \in Row \cup {NoRow} /\ (row # NoRow => row.cred \in proven)
        BY <1>4, <1>9, <1>10 DEF Statuses
  <2> HIDE DEF row
  <2> QED BY <1>2, <1>4, <1>14, <2>1, <2>2 DEF WriteProbe, CallPCs
<1>15. CASE Answer(c)
       BY <1>1, <1>15 DEF Answer, CallPCs
<1>16. proven \subseteq proven'
       BY DEF CallStep, RefreshReads, ProbeContent, Save, Fetch, MarkConnected,
              Configure, Measure, WriteProbe, Answer
<1> QED BY <1>5, <1>6, <1>7, <1>8, <1>11, <1>12, <1>13, <1>14, <1>15, <1>16 DEF CallStep

LEMMA RegistryKeeps ==
    ASSUME RInv, RegistryNext
    PROVE  RInv' /\ proven \subseteq proven'
<1>1. CASE Rotate
  <2>1. RegistryTypeOK'
        BY <1>1 DEF Rotate, RInv, RegistryTypeOK
  <2>2. CallsProven' /\ StoredWasProven' /\ proven' = proven
        BY <1>1 DEF Rotate, RInv, CallsProven, StoredWasProven, Known, RowOf
  <2> QED BY <2>1, <2>2 DEF RInv
<1> QED BY <1>1, CallStepKeeps, CallBeginsKeeps DEF RegistryNext

\* What an execution does leaves the registry alone.
LEMMA RegistryRests == RInv /\ UNCHANGED <<rows, call, accepts, proven>> /\ dead' \in BOOLEAN => RInv'
  BY DEF RInv, RegistryTypeOK, CallsProven, StoredWasProven, Known, RowOf

-----------------------------------------------------------------------------
(* Executions *)

Calling == {"call", "post", "read", "delete", "wait", "create", "spawn", "run", "reap"}
Remote(p) ==
    p.source = "rancher" /\ p.cluster \notin Ids \cup {Local} /\ p.type \notin InfraTypes \cup {"run_shell"}

\* The channel was chosen for the plan, and the credential was read from a row.
ExecInv ==
    \A e \in Execs : LET x == ex[e] IN
        /\ x.pc \in Calling /\ x.channel = "kubeconfig" => x.cred \in proven
        /\ x.pc \notin {"new", "done"} /\ Remote(x.plan) => x.channel = "rancher"
        /\ x.pc \notin {"new", "done"} /\ x.channel = "kubeconfig" => x.plan.cluster \in Ids

\* Nothing lands before the call has its channel and its credential, and
\* neither changes afterwards.
LandedInv ==
    \A r \in landed : LET x == ex[r.exec] IN
        /\ r.exec \in Execs /\ x.pc \notin {"new", "queued", "borrow"}
        /\ x.channel = "kubeconfig" => x.cred \in proven
        /\ Remote(x.plan) => r.place = x.plan.cluster

XInv == ex \in [Execs -> ExecRecord] /\ ExecInv /\ LandedInv

\* A step of one call that is past its dispatch.
Kept(e) ==
    \E x \in ExecRecord :
        /\ ex' = [ex EXCEPT ![e] = x] /\ x.pc \in Calling \cup {"stopped", "done"}
        /\ x.plan = ex[e].plan /\ x.channel = ex[e].channel /\ x.cred = ex[e].cred

LEMMA GoesKept ==
    ASSUME XInv, NEW e \in Execs, NEW pc \in Calling, Goes(e, pc)
    PROVE  Kept(e)
<1> DEFINE x == [ex[e] EXCEPT !.pc = IF ex[e].left /\ ~Threaded(ex[e]) THEN "stopped" ELSE pc]
<1>1. ex[e] \in ExecRecord
      BY DEF XInv
<1>2. /\ x \in ExecRecord /\ x.pc \in Calling \cup {"stopped"}
      /\ x.plan = ex[e].plan /\ x.channel = ex[e].channel /\ x.cred = ex[e].cred
      BY <1>1 DEF ExecRecord, ExecPCs, Calling
<1>3. ex' = [ex EXCEPT ![e] = x]
      BY DEF Goes
<1> QED BY <1>2, <1>3, Zenon DEF Kept

LEMMA ReturnsKept ==
    ASSUME XInv, NEW e \in Execs, NEW r \in {"completed", "failed"}, Returns(e, r)
    PROVE  Kept(e)
<1> DEFINE x == [ex[e] EXCEPT !.pc = "done", !.result = IF ex[e].left THEN "none" ELSE r]
<1>1. ex[e] \in ExecRecord
      BY DEF XInv
<1>2. /\ x \in ExecRecord /\ x.pc = "done"
      /\ x.plan = ex[e].plan /\ x.channel = ex[e].channel /\ x.cred = ex[e].cred
      BY <1>1 DEF ExecRecord, ExecPCs
<1>3. ex' = [ex EXCEPT ![e] = x]
      BY DEF Returns
<1> QED BY <1>2, <1>3, Zenon DEF Kept

\* Where a calling execution lands.
LEMMA KeptKeeps ==
    ASSUME XInv, NEW e \in Execs, ex[e].pc \in Calling, Kept(e), proven' = proven,
           landed' = landed \/ \E part \in {"change", "delete"} : Applied(e, part)
    PROVE  XInv'
<1>1. PICK x \in ExecRecord :
        /\ ex' = [ex EXCEPT ![e] = x] /\ x.pc \in Calling \cup {"stopped", "done"}
        /\ x.plan = ex[e].plan /\ x.channel = ex[e].channel /\ x.cred = ex[e].cred
      BY DEF Kept
<1>2. ex' \in [Execs -> ExecRecord] /\ ex'[e] = x /\ \A f \in Execs \ {e} : ex'[f] = ex[f]
      BY <1>1 DEF XInv
<1>3. ex[e].pc \notin {"new", "queued", "borrow", "done"}
      BY DEF Calling
<1>4. ExecInv'
  <2> SUFFICES ASSUME NEW f \in Execs
               PROVE  /\ ex'[f].pc \in Calling /\ ex'[f].channel = "kubeconfig" => ex'[f].cred \in proven
                      /\ ex'[f].pc \notin {"new", "done"} /\ Remote(ex'[f].plan) => ex'[f].channel = "rancher"
                      /\ ex'[f].pc \notin {"new", "done"} /\ ex'[f].channel = "kubeconfig" => ex'[f].plan.cluster \in Ids
      BY DEF ExecInv, Remote
  <2>1. CASE f = e
        BY <1>1, <1>2, <1>3, <2>1 DEF XInv, ExecInv
  <2>2. CASE f # e
        BY <1>2, <2>2 DEF XInv, ExecInv
  <2> QED BY <2>1, <2>2
<1>5. \A r \in landed : /\ r.exec \in Execs /\ ex'[r.exec].pc \notin {"new", "queued", "borrow"}
                        /\ ex'[r.exec].channel = "kubeconfig" => ex'[r.exec].cred \in proven
                        /\ Remote(ex'[r.exec].plan) => r.place = ex'[r.exec].plan.cluster
  <2> TAKE r \in landed
  <2>1. r.exec \in Execs
        BY DEF XInv, LandedInv
  <2>2. CASE r.exec = e
        BY <1>1, <1>2, <2>2 DEF XInv, LandedInv, Calling
  <2>3. CASE r.exec # e
        BY <1>2, <2>1, <2>3 DEF XInv, LandedInv
  <2> QED BY <2>1, <2>2, <2>3
<1>6. LandedInv'
  <2>1. CASE landed' = landed
        BY <1>5, <2>1 DEF LandedInv, Remote
  <2>2. ASSUME NEW part \in {"change", "delete"}, Applied(e, part)
        PROVE  LandedInv'
    <3> DEFINE new == [exec |-> e, part |-> part, place |-> PlaceOf(ex[e]), content |-> Sent(ex[e].plan, ex[e].channel)]
    <3>1. landed' = landed \cup {new}
          BY <2>2 DEF Applied
    <3>2. new.exec = e /\ new.place = PlaceOf(ex[e])
          OBVIOUS
    <3>3. Remote(ex[e].plan) => PlaceOf(ex[e]) = ex[e].plan.cluster
          BY <1>3 DEF XInv, ExecInv, PlaceOf
    <3>4. ex[e].channel = "kubeconfig" => ex[e].cred \in proven
          BY DEF XInv, ExecInv
    <3>5. ex'[e].pc \notin {"new", "queued", "borrow"}
          BY <1>1, <1>2 DEF Calling
    <3> HIDE DEF new
    <3> QED BY <1>1, <1>2, <1>5, <3>1, <3>2, <3>3, <3>4, <3>5 DEF LandedInv, Remote
  <2> QED BY <2>1, <2>2
<1> QED BY <1>2, <1>4, <1>6 DEF XInv

\* Steps of a call that has not landed anything yet.
LEMMA EarlyKeeps ==
    ASSUME XInv, NEW e \in Execs, ex[e].pc \in {"new", "queued", "borrow"}, NEW x \in ExecRecord,
           ex' = [ex EXCEPT ![e] = x], UNCHANGED <<proven, landed>>,
           x.pc \in Calling /\ x.channel = "kubeconfig" => x.cred \in proven,
           x.pc \notin {"new", "done"} /\ Remote(x.plan) => x.channel = "rancher",
           x.pc \notin {"new", "done"} /\ x.channel = "kubeconfig" => x.plan.cluster \in Ids
    PROVE  XInv'
<1>1. ex' \in [Execs -> ExecRecord] /\ ex'[e] = x /\ \A f \in Execs \ {e} : ex'[f] = ex[f]
      BY DEF XInv
<1>2. ExecInv'
  <2> SUFFICES ASSUME NEW f \in Execs
               PROVE  /\ ex'[f].pc \in Calling /\ ex'[f].channel = "kubeconfig" => ex'[f].cred \in proven
                      /\ ex'[f].pc \notin {"new", "done"} /\ Remote(ex'[f].plan) => ex'[f].channel = "rancher"
                      /\ ex'[f].pc \notin {"new", "done"} /\ ex'[f].channel = "kubeconfig" => ex'[f].plan.cluster \in Ids
      BY DEF ExecInv, Remote
  <2>1. CASE f = e
        BY <1>1, <2>1
  <2>2. CASE f # e
        BY <1>1, <2>2 DEF XInv, ExecInv
  <2> QED BY <2>1, <2>2
<1>3. \A r \in landed : r.exec \in Execs \ {e}
      BY DEF XInv, LandedInv
<1>4. LandedInv'
      BY <1>1, <1>3 DEF XInv, LandedInv, Remote
<1> QED BY <1>1, <1>2, <1>4 DEF XInv

-----------------------------------------------------------------------------
(* The steps *)

LEMMA DispatchKeeps ==
    ASSUME XInv, NEW e \in Execs, Dispatch(e)
    PROVE  XInv'
<1>1. PICK p \in PlansOf[e] :
        LET ch == Channel(p)
            Ends(r) == ex' = [ex EXCEPT ![e].plan = p, ![e].pc = "done", ![e].result = r] IN
        \/ Ends("failed")
        \/ p.type \notin MediumRisk /\ ~p.confirmed /\ Ends("blocked")
        \/ /\ p.type \in MediumRisk \/ p.confirmed
           /\ IF ch = "none" \/ ~AppChecks(p, ch) THEN Ends("failed")
              ELSE ex' = [ex EXCEPT ![e].plan = p, ![e].channel = ch, ![e].pc = Begin(p, ch)]
      BY Zenon DEF Dispatch
<1>2. ex[e] \in ExecRecord /\ ex[e].pc = "new" /\ UNCHANGED <<proven, landed>>
      BY DEF XInv, Dispatch, At, Quiet, registryVars
<1>3. p \in UNION {PlansOf[f] : f \in Execs}
      OBVIOUS
<1>4. ASSUME NEW r \in {"failed", "blocked"},
             ex' = [ex EXCEPT ![e].plan = p, ![e].pc = "done", ![e].result = r]
      PROVE  XInv'
  <2> DEFINE x == [ex[e] EXCEPT !.plan = p, !.pc = "done", !.result = r]
  <2>1. x \in ExecRecord /\ x.pc = "done"
        BY <1>2, <1>3 DEF ExecRecord, ExecPCs
  <2>2. ex' = [ex EXCEPT ![e] = x]
        BY <1>4
  <2> HIDE DEF x
  <2> QED BY <1>2, <2>1, <2>2, EarlyKeeps DEF Calling
<1>5. ASSUME Channel(p) # "none",
             ex' = [ex EXCEPT ![e].plan = p, ![e].channel = Channel(p), ![e].pc = Begin(p, Channel(p))]
      PROVE  XInv'
  <2> DEFINE x == [ex[e] EXCEPT !.plan = p, !.channel = Channel(p), !.pc = Begin(p, Channel(p))]
  <2>1. Channel(p) \in {"shell", "webhook", "kubeconfig", "rancher", "mcp"}
        BY <1>5 DEF Channel
  <2>2. Begin(p, Channel(p)) \in {"queued", "borrow", "call", "read", "spawn"}
        BY <2>1 DEF Begin, FirstCall
  <2>3. Channel(p) = "kubeconfig" => Begin(p, Channel(p)) = "queued"
        BY DEF Begin
  <2>4. x \in ExecRecord /\ x.pc = Begin(p, Channel(p)) /\ x.channel = Channel(p) /\ x.plan = p
        BY <1>2, <1>3, <2>1, <2>2 DEF ExecRecord, ExecPCs
  <2>5. Remote(p) => Channel(p) = "rancher"
        BY DEF Remote, Channel, InManagedBranch, Managed, InRancherBranch, UseRancher
  <2>6. ex' = [ex EXCEPT ![e] = x]
        BY <1>5
  <2>7. Channel(p) = "kubeconfig" => p.cluster \in Ids
        BY DEF Channel, InManagedBranch, Managed
  <2> HIDE DEF x
  <2> QED BY <1>2, <2>3, <2>4, <2>5, <2>6, <2>7, EarlyKeeps DEF Calling
<1> QED BY <1>1, <1>4, <1>5, Zenon

LEMMA BorrowKeeps ==
    ASSUME XInv, NEW e \in Execs, Borrow(e)
    PROVE  XInv'
<1>1. ex[e] \in ExecRecord /\ ex[e].pc = "borrow" /\ UNCHANGED <<proven, landed>>
      BY DEF XInv, Borrow, At, Quiet, registryVars
<1>2. PICK pc \in {"stopped", "queued", "done"}, r \in {"none", "completed", "failed", "blocked"} :
        ex' = [ex EXCEPT ![e].pc = pc, ![e].result = r]
  <2>1. CASE ex' = [ex EXCEPT ![e].pc = IF ex[e].left THEN "stopped" ELSE "queued"]
    <3>1. ex[e].result \in {"none", "completed", "failed", "blocked"}
          BY <1>1 DEF ExecRecord
    <3>2. ex' = [ex EXCEPT ![e].pc = IF ex[e].left THEN "stopped" ELSE "queued", ![e].result = ex[e].result]
          BY <1>1, <2>1 DEF XInv, ExecRecord
    <3> QED BY <3>1, <3>2
  <2>2. CASE Returns(e, "failed")
        BY <2>2 DEF Returns
  <2> QED BY <2>1, <2>2 DEF Borrow
<1> DEFINE x == [ex[e] EXCEPT !.pc = pc, !.result = r]
<1>3. x \in ExecRecord /\ x.pc = pc /\ x.plan = ex[e].plan /\ x.channel = ex[e].channel
      BY <1>1 DEF ExecRecord, ExecPCs
<1>4. ex' = [ex EXCEPT ![e] = x]
      BY <1>2
<1>5. /\ Remote(ex[e].plan) => ex[e].channel = "rancher"
      /\ ex[e].channel = "kubeconfig" => ex[e].plan.cluster \in Ids
      BY <1>1 DEF XInv, ExecInv
<1> HIDE DEF x
<1> QED BY <1>1, <1>3, <1>4, <1>5, EarlyKeeps DEF Calling

\* The credential is read from a row, where it was proven.
LEMMA ThreadBeginsKeeps ==
    ASSUME RInv, XInv, NEW e \in Execs, ThreadBegins(e)
    PROVE  XInv'
<1>1. ex[e] \in ExecRecord /\ ex[e].pc = "queued" /\ UNCHANGED <<proven, landed>>
      BY DEF XInv, ThreadBegins, At, Quiet, registryVars
<1>2. FirstCall(ex[e].plan) \in {"call", "read", "spawn"}
      BY DEF FirstCall
<1>3. /\ Remote(ex[e].plan) => ex[e].channel = "rancher"
      /\ ex[e].channel = "kubeconfig" => ex[e].plan.cluster \in Ids
      BY <1>1 DEF XInv, ExecInv
<1>4. CASE /\ ex[e].channel = "kubeconfig" /\ Known(ex[e].plan.cluster)
           /\ ex' = [ex EXCEPT ![e].cred = RowOf(ex[e].plan.cluster).cred, ![e].pc = FirstCall(ex[e].plan)]
  <2> DEFINE cred == RowOf(ex[e].plan.cluster).cred
             x == [ex[e] EXCEPT !.cred = cred, !.pc = FirstCall(ex[e].plan)]
  <2>1. ~Remote(ex[e].plan)
        BY <1>3, <1>4
  <2>2. ex[e].plan.cluster \in Ids
        BY <1>3, <1>4
  <2>3. cred \in proven
        BY <1>4, <2>2 DEF RInv, StoredWasProven
  <2>4. cred \in Credential
        BY <2>3 DEF RInv, RegistryTypeOK
  <2> HIDE DEF cred
  <2>5. x \in ExecRecord /\ x.cred = cred /\ x.plan = ex[e].plan
        BY <1>1, <1>2, <2>4 DEF ExecRecord, ExecPCs
  <2>6. ex' = [ex EXCEPT ![e] = x]
        BY <1>4 DEF cred
  <2> HIDE DEF x
  <2> QED BY <1>1, <2>1, <2>2, <2>3, <2>5, <2>6, EarlyKeeps
<1>5. CASE Returns(e, "failed")
  <2>1. Kept(e)
        BY <1>5, ReturnsKept
  <2>2. PICK x \in ExecRecord :
          /\ ex' = [ex EXCEPT ![e] = x] /\ x.pc = "done"
          /\ x.plan = ex[e].plan /\ x.channel = ex[e].channel
    <3> DEFINE x == [ex[e] EXCEPT !.pc = "done", !.result = IF ex[e].left THEN "none" ELSE "failed"]
    <3>1. x \in ExecRecord /\ x.pc = "done" /\ x.plan = ex[e].plan /\ x.channel = ex[e].channel
          BY <1>1 DEF ExecRecord, ExecPCs
    <3>2. ex' = [ex EXCEPT ![e] = x]
          BY <1>5 DEF Returns
    <3> QED BY <3>1, <3>2
  <2> QED BY <1>1, <2>2, EarlyKeeps DEF Calling
<1>6. CASE ex[e].channel # "kubeconfig" /\ Goes(e, FirstCall(ex[e].plan))
  <2> DEFINE pc == IF ex[e].left /\ ~Threaded(ex[e]) THEN "stopped" ELSE FirstCall(ex[e].plan)
             x == [ex[e] EXCEPT !.pc = pc]
  <2>1. /\ x \in ExecRecord /\ x.plan = ex[e].plan /\ x.channel = ex[e].channel
        BY <1>1, <1>2 DEF ExecRecord, ExecPCs
  <2>2. ex' = [ex EXCEPT ![e] = x]
        BY <1>6 DEF Goes
  <2> HIDE DEF x
  <2> QED BY <1>1, <1>3, <1>6, <2>1, <2>2, EarlyKeeps
<1> QED BY <1>4, <1>5, <1>6 DEF ThreadBegins

LEMMA CallKeeps ==
    ASSUME XInv, NEW e \in Execs,
           CallApplied(e) \/ WebhookRefuses(e) \/ CallFails(e) \/ ApplyNotFound(e) \/ Create(e)
    PROVE  XInv'
<1>1. ex[e].pc \in Calling /\ proven' = proven
      BY DEF CallApplied, WebhookRefuses, CallFails, ApplyNotFound, Create, At, Calling, Quiet, registryVars
<1>2. landed' = landed \/ Applied(e, "change")
      BY DEF CallApplied, WebhookRefuses, CallFails, ApplyNotFound, Create
<1>3. Goes(e, "post") \/ \E r \in {"completed", "failed"} : Returns(e, r)
      BY DEF CallApplied, WebhookRefuses, CallFails, ApplyNotFound, Create
<1>4. Kept(e)
      BY <1>3, GoesKept, ReturnsKept DEF Calling
<1> QED BY <1>1, <1>2, <1>4, KeptKeeps

LEMMA ReplaceKeeps ==
    ASSUME XInv, NEW e \in Execs,
           FallbackReplace(e) \/ ReadLive(e) \/ DeleteLive(e) \/ WaitForDeletion(e)
    PROVE  XInv'
<1>1. ex[e].pc \in Calling /\ proven' = proven
      BY DEF FallbackReplace, ReadLive, DeleteLive, WaitForDeletion, At, Calling, Quiet, registryVars
<1>2. landed' = landed \/ Applied(e, "delete")
      BY DEF FallbackReplace, ReadLive, DeleteLive, WaitForDeletion
<1>3. (\E pc \in Calling : Goes(e, pc)) \/ Returns(e, "failed")
      BY DEF FallbackReplace, ReadLive, DeleteLive, WaitForDeletion, Calling
<1>4. Kept(e)
      BY <1>3, GoesKept, ReturnsKept
<1> QED BY <1>1, <1>2, <1>4, KeptKeeps

LEMMA NodeKeeps ==
    ASSUME XInv, NEW e \in Execs, Spawn(e) \/ RunOnNode(e) \/ Reap(e)
    PROVE  XInv'
<1>1. ex[e].pc \in Calling /\ proven' = proven
      BY DEF Spawn, RunOnNode, Reap, At, Calling, Quiet, registryVars
<1>2. landed' = landed \/ Applied(e, "change")
      BY DEF Spawn, RunOnNode, Reap
<1>3. CASE \E good \in BOOLEAN : ex' = [ex EXCEPT ![e].good = good, ![e].pc = "reap"]
  <2>1. PICK good \in BOOLEAN : ex' = [ex EXCEPT ![e].good = good, ![e].pc = "reap"]
        BY <1>3
  <2> DEFINE x == [ex[e] EXCEPT !.good = good, !.pc = "reap"]
  <2>2. ex[e] \in ExecRecord
        BY DEF XInv
  <2>3. /\ x \in ExecRecord /\ x.pc = "reap"
        /\ x.plan = ex[e].plan /\ x.channel = ex[e].channel /\ x.cred = ex[e].cred
        BY <2>2 DEF ExecRecord, ExecPCs
  <2>4. ex' = [ex EXCEPT ![e] = x]
        BY <2>1
  <2>5. Kept(e)
        BY <2>3, <2>4, Zenon DEF Kept, Calling
  <2> QED BY <1>1, <1>2, <2>5, KeptKeeps
<1>4. CASE (\E pc \in Calling : Goes(e, pc)) \/ \E r \in {"completed", "failed"} : Returns(e, r)
  <2>1. Kept(e)
        BY <1>4, GoesKept, ReturnsKept
  <2> QED BY <1>1, <1>2, <2>1, KeptKeeps
<1>5. Spawn(e) => (\E pc \in Calling : Goes(e, pc)) \/ \E r \in {"completed", "failed"} : Returns(e, r)
      BY DEF Spawn, Calling
<1>6. Reap(e) => \E r \in {"completed", "failed"} : Returns(e, r)
      BY DEF Reap
<1>7. RunOnNode(e) => \/ \E good \in BOOLEAN : ex' = [ex EXCEPT ![e].good = good, ![e].pc = "reap"]
                      \/ \E pc \in Calling : Goes(e, pc)
      BY DEF RunOnNode, Calling
<1> QED BY <1>3, <1>4, <1>5, <1>6, <1>7

\* A stage gives up: a queued call is dropped, the others keep what they have.
LEMMA StageLeavesKeeps ==
    ASSUME XInv, NEW e \in Execs, StageLeaves(e)
    PROVE  XInv'
<1> DEFINE x == [ex[e] EXCEPT !.left = TRUE, !.pc = IF @ = "queued" THEN "stopped" ELSE @]
<1>1. ex[e] \in ExecRecord /\ ex[e].pc \notin {"new", "stopped", "done"} /\ UNCHANGED <<proven, landed>>
      BY DEF XInv, StageLeaves, Quiet, registryVars
<1>2. /\ x \in ExecRecord /\ x.pc = (IF ex[e].pc = "queued" THEN "stopped" ELSE ex[e].pc)
      /\ x.plan = ex[e].plan /\ x.channel = ex[e].channel /\ x.cred = ex[e].cred
      BY <1>1 DEF ExecRecord, ExecPCs
<1>3. ex' = [ex EXCEPT ![e] = x]
      BY DEF StageLeaves
<1> HIDE DEF x
<1>4. CASE ex[e].pc \in Calling
  <2>1. Kept(e)
        BY <1>2, <1>3, <1>4, Zenon DEF Kept, Calling
  <2> QED BY <1>1, <1>4, <2>1, KeptKeeps
<1>5. CASE ex[e].pc \in {"queued", "borrow"}
  <2>1. /\ Remote(ex[e].plan) => ex[e].channel = "rancher"
        /\ ex[e].channel = "kubeconfig" => ex[e].plan.cluster \in Ids
        BY <1>1 DEF XInv, ExecInv
  <2> QED BY <1>1, <1>2, <1>3, <1>5, <2>1, EarlyKeeps DEF Calling
<1>6. ex[e].pc \in Calling \cup {"queued", "borrow"}
      BY <1>1 DEF ExecRecord, ExecPCs, Calling
<1> QED BY <1>4, <1>5, <1>6

LEMMA ProvenGrows ==
    ASSUME XInv, UNCHANGED <<ex, landed>>, proven \subseteq proven'
    PROVE  XInv'
  BY DEF XInv, ExecInv, LandedInv, Remote

LEMMA Starts == Init => RInv /\ XInv
<1> SUFFICES ASSUME Init PROVE RInv /\ XInv
    OBVIOUS
<1>1. RInv
      BY RegistryStarts DEF Init
<1>2. \A e \in Execs : (CHOOSE p \in PlansOf[e] : TRUE) \in PlansOf[e]
      BY PlanAssumption
<1>3. ex \in [Execs -> ExecRecord]
  <2> SUFFICES ASSUME NEW e \in Execs
               PROVE  [pc |-> "new", plan |-> CHOOSE p \in PlansOf[e] : TRUE, channel |-> "none",
                       cred |-> NoCred, left |-> FALSE, good |-> FALSE, result |-> "none"] \in ExecRecord
      BY DEF Init, ExecInit
  <2>1. (CHOOSE p \in PlansOf[e] : TRUE) \in UNION {PlansOf[f] : f \in Execs}
        BY <1>2
  <2> QED BY <2>1 DEF ExecRecord, ExecPCs
<1>4. \A e \in Execs : ex[e].pc = "new"
      BY DEF Init, ExecInit
<1>5. XInv
      BY <1>3, <1>4 DEF XInv, ExecInv, LandedInv, Calling, Init, ExecInit
<1> QED BY <1>1, <1>5

LEMMA NextKeeps ==
    ASSUME RInv, XInv, [Next]_vars
    PROVE  RInv' /\ XInv'
<1>1. CASE RegistryNext /\ UNCHANGED execVars
  <2>1. RInv' /\ proven \subseteq proven'
        BY <1>1, RegistryKeeps
  <2> QED BY <1>1, <2>1, ProvenGrows DEF execVars
<1>2. ASSUME NEW e \in Execs, ExecStep(e) \/ StageLeaves(e)
      PROVE  RInv' /\ XInv'
  <2>1. UNCHANGED registryVars
        BY <1>2 DEF ExecStep, StageLeaves, Dispatch, Borrow, ThreadBegins, CallApplied, WebhookRefuses, CallFails,
           ApplyNotFound, Create, FallbackReplace, ReadLive, DeleteLive, WaitForDeletion, Spawn, RunOnNode, Reap, Quiet
  <2>2. RInv'
        BY <2>1, RegistryRests DEF registryVars, RInv, RegistryTypeOK
  <2>3. XInv'
        BY <1>2, DispatchKeeps, BorrowKeeps, ThreadBeginsKeeps, CallKeeps, ReplaceKeeps, NodeKeeps, StageLeavesKeeps
           DEF ExecStep
  <2> QED BY <2>2, <2>3
<1>3. CASE Vanishes
  <2>1. RInv'
        BY <1>3, RegistryRests DEF Vanishes, registryVars, RInv, RegistryTypeOK
  <2> QED BY <1>3, <2>1, ProvenGrows DEF Vanishes, registryVars
<1>4. CASE Dies
  <2>1. RInv'
        BY <1>4, RegistryRests DEF Dies
  <2> QED BY <1>4, <2>1, ProvenGrows DEF Dies, execVars
<1>5. CASE UNCHANGED vars
  <2>1. RInv'
        BY <1>5, RegistryRests DEF vars, registryVars, RInv, RegistryTypeOK
  <2> QED BY <1>5, <2>1, ProvenGrows DEF vars, registryVars, execVars
<1> QED BY <1>1, <1>2, <1>3, <1>4, <1>5 DEF Next

LEMMA Invariant == Spec => [](RInv /\ XInv)
<1>1. Init => RInv /\ XInv
      BY Starts
<1>2. (RInv /\ XInv) /\ [Next]_vars => (RInv /\ XInv)'
      BY NextKeeps
<1> QED BY <1>1, <1>2, PTL DEF Spec

-----------------------------------------------------------------------------
(* What an execution says of what it did *)

Channels == {"kubeconfig", "rancher", "mcp", "shell", "webhook"}
Changed(e) == \E r \in landed : r.exec = e /\ r.part = "change"
Admitted(p, channel) ==
    /\ p.type \in MediumRisk \/ p.confirmed
    /\ AppChecks(p, channel)

\* AppliedWithinPolicy, of content that lands at a place.
Policy(p, place, content) ==
    /\ p.type \in MediumRisk \/ p.confirmed
    /\ p.type \in WorkloadTypes =>
         /\ content \cap {"hostPath", "initScript", "initWild", "alien"} = {}
         /\ "overCap" \in content =>
              p.type = "scale_out" /\ p.deployment /\ place = Local /\ "overTool" \notin content
         /\ "volume" \in content => p.type = "patch_workload_volume"
         /\ "init" \in content => p.confirmed
    /\ p.type \in AppManifests => content = {"manifest"}

\* What a tool of the MCP server sends by itself is within that tool's limit.
Fits(e) ==
    ByOwnTool(ex[e].plan, ex[e].channel) => "overTool" \notin Sent(ex[e].plan, ex[e].channel)

LandedRecord == [exec : Execs, part : {"change", "delete"}, place : Places, content : SUBSET Contents]

\* A result ends the call; what goes on was admitted; a change of a workload is
\* one call; only node commands have a helper, and one that runs got its helper
\* from a known place.
CourseOk(e) == LET x == ex[e] IN
    /\ x.result # "none" => x.pc = "done"
    /\ x.pc \notin {"new", "done"} => Admitted(x.plan, x.channel) /\ x.channel \in Channels
    /\ x.pc \in Calling \ {"call"} => x.plan.type \notin WorkloadTypes
    /\ x.pc \in {"spawn", "run", "reap"} => x.plan.type = "exec_node"
    /\ x.pc = "run" => PlaceOf(x) \in Places

\* A command that ended well and a call that says "completed" have landed, and
\* what landed is within the policy.
EffectOk(e) == LET x == ex[e] IN
    /\ x.good => Changed(e)
    /\ x.result = "completed" /\ x.channel # "webhook" => Changed(e)
    /\ \A r \in landed : r.exec = e => Policy(x.plan, r.place, r.content)

\* A deletion and a helper are accounted for.
DebtOk(e) == LET x == ex[e] IN
    /\ \A r \in landed : r.exec = e /\ r.part = "delete" =>
         \/ dead \/ x.left \/ x.pc \in {"wait", "create"} \/ x.result = "failed"
         \/ Changed(e)
    /\ e \in helper => dead \/ e \in unreaped \/ x.pc \in {"run", "reap"}

DataOk ==
    /\ live \in [Places -> Objects] /\ landed \subseteq LandedRecord
    /\ helper \subseteq Execs /\ unreaped \subseteq Execs

DeedInv == DataOk /\ \A e \in Execs : CourseOk(e) /\ EffectOk(e) /\ DebtOk(e)

\* A step of execution e touches nothing of the others.
OnlyOf(e) ==
    /\ \A f \in Execs \ {e} : /\ ex'[f] = ex[f]
                              /\ f \in helper' <=> f \in helper
                              /\ f \in unreaped' <=> f \in unreaped
    /\ landed' = landed \/ \E part \in {"change", "delete"} : Applied(e, part)
    /\ dead' = dead

LEMMA OthersKeep ==
    ASSUME DeedInv, NEW e \in Execs, OnlyOf(e), NEW f \in Execs \ {e}
    PROVE  CourseOk(f)' /\ EffectOk(f)' /\ DebtOk(f)'
<1>1. \A r : r.exec = f => (r \in landed' <=> r \in landed)
  <2>1. CASE landed' = landed
        BY <2>1
  <2>2. ASSUME NEW part \in {"change", "delete"}, Applied(e, part)
        PROVE  \A r : r.exec = f => (r \in landed' <=> r \in landed)
    <3> DEFINE new == [exec |-> e, part |-> part, place |-> PlaceOf(ex[e]), content |-> Sent(ex[e].plan, ex[e].channel)]
    <3>1. landed' = landed \cup {new} /\ new.exec = e
          BY <2>2 DEF Applied
    <3> HIDE DEF new
    <3> QED BY <3>1
  <2> QED BY <2>1, <2>2 DEF OnlyOf
<1>2. ex'[f] = ex[f] /\ (f \in helper' <=> f \in helper) /\ (f \in unreaped' <=> f \in unreaped) /\ dead' = dead
      BY DEF OnlyOf
<1>3. CourseOk(f) /\ EffectOk(f) /\ DebtOk(f)
      BY DEF DeedInv
<1>4. Changed(f)' <=> Changed(f)
      BY <1>1 DEF Changed
<1>5. CourseOk(f)'
      BY <1>2, <1>3 DEF CourseOk, PlaceOf
<1>6. EffectOk(f)'
      BY <1>1, <1>2, <1>3, <1>4 DEF EffectOk
<1>7. DebtOk(f)'
      BY <1>1, <1>2, <1>3, <1>4 DEF DebtOk
<1> QED BY <1>5, <1>6, <1>7

\* What Goes, Returns and the other moves make of the record of the call.
SameCall(e) ==
    /\ ex' \in [Execs -> ExecRecord]
    /\ \A f \in Execs \ {e} : ex'[f] = ex[f]
    /\ ex'[e].plan = ex[e].plan /\ ex'[e].channel = ex[e].channel /\ ex'[e].cred = ex[e].cred

LEMMA GoesEffect ==
    ASSUME XInv, NEW e \in Execs, NEW pc \in Calling, Goes(e, pc)
    PROVE  /\ SameCall(e)
           /\ ex'[e].pc = IF ex[e].left /\ ~Threaded(ex[e]) THEN "stopped" ELSE pc
           /\ ex'[e].left = ex[e].left /\ ex'[e].good = ex[e].good /\ ex'[e].result = ex[e].result
<1> DEFINE goal == IF ex[e].left /\ ~Threaded(ex[e]) THEN "stopped" ELSE pc
           x == [ex[e] EXCEPT !.pc = goal]
<1>1. ex[e] \in ExecRecord /\ ex \in [Execs -> ExecRecord]
      BY DEF XInv
<1>2. goal \in ExecPCs
      BY DEF ExecPCs, Calling
<1>3. ex' = [ex EXCEPT ![e] = x]
      BY DEF Goes
<1> HIDE DEF goal
<1>4. /\ x \in ExecRecord /\ x.pc = goal
      /\ x.plan = ex[e].plan /\ x.channel = ex[e].channel /\ x.cred = ex[e].cred
      /\ x.left = ex[e].left /\ x.good = ex[e].good /\ x.result = ex[e].result
      BY <1>1, <1>2 DEF ExecRecord
<1> HIDE DEF x
<1>5. ex'[e] = x /\ (\A f \in Execs \ {e} : ex'[f] = ex[f]) /\ ex' \in [Execs -> ExecRecord]
      BY <1>1, <1>3, <1>4
<1> QED BY <1>4, <1>5 DEF SameCall, goal

LEMMA ReturnsEffect ==
    ASSUME XInv, NEW e \in Execs, NEW r \in {"completed", "failed"}, Returns(e, r)
    PROVE  /\ SameCall(e) /\ ex'[e].pc = "done"
           /\ ex'[e].left = ex[e].left /\ ex'[e].good = ex[e].good
           /\ ex'[e].result = IF ex[e].left THEN "none" ELSE r
<1> DEFINE result == IF ex[e].left THEN "none" ELSE r
           x == [ex[e] EXCEPT !.pc = "done", !.result = result]
<1>1. ex[e] \in ExecRecord /\ ex \in [Execs -> ExecRecord]
      BY DEF XInv
<1>2. result \in {"none", "completed", "failed", "blocked"}
      OBVIOUS
<1>3. ex' = [ex EXCEPT ![e] = x]
      BY DEF Returns
<1> HIDE DEF result
<1>4. /\ x \in ExecRecord /\ x.pc = "done"
      /\ x.plan = ex[e].plan /\ x.channel = ex[e].channel /\ x.cred = ex[e].cred
      /\ x.left = ex[e].left /\ x.good = ex[e].good /\ x.result = result
      BY <1>1, <1>2 DEF ExecRecord, ExecPCs
<1> HIDE DEF x
<1>5. ex'[e] = x /\ (\A f \in Execs \ {e} : ex'[f] = ex[f]) /\ ex' \in [Execs -> ExecRecord]
      BY <1>1, <1>3, <1>4
<1> QED BY <1>4, <1>5 DEF SameCall, result

\* The checks of the coroutine leave nothing to the channels, but for the two
\* tools that make their own patch: what is admitted, and fits those, is within
\* the policy wherever it is sent.
LEMMA AdmittedWithinPolicy ==
    ASSUME NEW x, Admitted(x.plan, x.channel),
           ByOwnTool(x.plan, x.channel) => "overTool" \notin Sent(x.plan, x.channel)
    PROVE  Policy(x.plan, PlaceOf(x), Sent(x.plan, x.channel))
<1> DEFINE p == x.plan
           sent == Sent(x.plan, x.channel)
<1>1. CASE p.type \in WorkloadTypes /\ ~ByOwnTool(p, x.channel)
  <2>1. sent \subseteq
          {"replicas", "overTool", "template"} \cup (IF p.type = "patch_workload_volume" THEN {"volume"} ELSE {})
            \cup (IF p.confirmed THEN {"init"} ELSE {})
        BY <1>1 DEF Admitted, AppChecks, AppAdmits, AppInit
  <2>2. p.type \notin AppManifests
        BY <1>1 DEF WorkloadTypes, AppManifests, StorageTypes
  <2> HIDE DEF sent
  <2>3. /\ sent \cap {"hostPath", "initScript", "initWild", "alien"} = {} /\ "overCap" \notin sent
        /\ "volume" \in sent => p.type = "patch_workload_volume"
        /\ "init" \in sent => p.confirmed
        BY <2>1
  <2> QED BY <2>2, <2>3 DEF Admitted, Policy, sent
<1>2. CASE ByOwnTool(p, x.channel)
  <2>1. p.type \in {"restart", "scale_out"} /\ p.deployment /\ x.channel = "mcp"
        BY <1>2 DEF ByOwnTool
  <2>2. p.type \notin AppManifests
        BY <2>1 DEF AppManifests, StorageTypes
  <2>3. p.type = "restart" => sent = {"template"}
        BY <2>1 DEF Sent
  <2>4. p.type = "scale_out" => sent \subseteq {"replicas", "overCap", "overTool"}
        BY DEF Sent
  <2>5. "overTool" \notin sent
        BY <1>2
  <2>6. PlaceOf(x) = Local
        BY <2>1 DEF PlaceOf
  <2> HIDE DEF sent
  <2> QED BY <2>1, <2>2, <2>3, <2>4, <2>5, <2>6 DEF Admitted, Policy, sent
<1>3. CASE p.type \in AppManifests
  <2>1. p.type \notin WorkloadTypes /\ p.type \notin {"restart", "scale_out", "patch_hpa"}
        BY <1>3 DEF WorkloadTypes, AppManifests, StorageTypes
  <2> QED BY <1>3, <2>1 DEF Admitted, AppChecks, ManifestAdmits, Sent, Policy
<1> QED BY <1>1, <1>2, <1>3 DEF Admitted, Policy

\* A change of a workload has landed when its one call was answered.
LEMMA LaterFits ==
    ASSUME DeedInv, NEW e \in Execs, ex[e].pc \in Calling \ {"call"}
    PROVE  Fits(e) /\ ex[e].plan.type \notin WorkloadTypes
  BY DEF DeedInv, CourseOk, Fits, ByOwnTool, WorkloadTypes

LEMMA PlaceKnown ==
    ASSUME RInv, XInv, DeedInv, NEW e \in Execs, ex[e].pc \in Calling, Reachable(ex[e])
    PROVE  PlaceOf(ex[e]) \in Places
<1>1. ex[e].channel \in Channels
      BY DEF DeedInv, CourseOk, Calling
<1>2. ex[e].channel = "kubeconfig" => ex[e].cred.server \in Servers
      BY DEF XInv, ExecInv, RInv, RegistryTypeOK, Credential
<1> QED BY <1>1, <1>2 DEF PlaceOf, Places, Channels, Reachable

LEMMA LandsTyped ==
    ASSUME XInv, DeedInv, NEW e \in Execs, NEW part \in {"change", "delete"},
           Applied(e, part), PlaceOf(ex[e]) \in Places
    PROVE  landed' \subseteq LandedRecord
<1> DEFINE content == Sent(ex[e].plan, ex[e].channel)
           place == PlaceOf(ex[e])
<1>1. ex[e].plan.content \in SUBSET Contents
  <2>1. ex[e].plan \in UNION {PlansOf[f] : f \in Execs}
        BY DEF XInv, ExecRecord
  <2>2. ex[e].plan \in Plan
        BY <2>1, PlanAssumption
  <2> QED BY <2>2 DEF Plan
<1>2. content \in SUBSET Contents
      BY <1>1 DEF Sent, Contents
<1>3. landed' = landed \cup {[exec |-> e, part |-> part, place |-> place, content |-> content]}
      BY DEF Applied
<1> HIDE DEF content, place
<1>4. [exec |-> e, part |-> part, place |-> place, content |-> content] \in LandedRecord
      BY <1>2 DEF LandedRecord, place
<1> QED BY <1>3, <1>4 DEF DeedInv, DataOk

\* What has landed stays, and what lands is a record of this call with the
\* content its plan was admitted for.
LEMMA LandsWithinPolicy ==
    ASSUME DeedInv, NEW e \in Execs, ex[e].pc \in Calling, ex'[e].plan = ex[e].plan,
           landed' = landed \/ (Fits(e) /\ \E part \in {"change", "delete"} : Applied(e, part))
    PROVE  /\ Changed(e) => Changed(e)'
           /\ Applied(e, "change") => Changed(e)'
           /\ ~Applied(e, "delete") =>
                \A r \in landed' : r.exec = e /\ r.part = "delete" => r \in landed
           /\ \A r \in landed' : r.exec = e => Policy(ex'[e].plan, r.place, r.content)
<1>1. Fits(e) => Policy(ex[e].plan, PlaceOf(ex[e]), Sent(ex[e].plan, ex[e].channel))
      BY AdmittedWithinPolicy DEF DeedInv, CourseOk, Calling, Fits
<1>2. \A r \in landed : r.exec = e => Policy(ex[e].plan, r.place, r.content)
      BY DEF DeedInv, EffectOk
<1>3. ASSUME NEW p, NEW place, NEW content, p = ex[e].plan, Policy(p, place, content)
      PROVE  Policy(ex'[e].plan, place, content)
      BY <1>3
<1>4. CASE landed' = landed
  <2>1. Changed(e) => Changed(e)'
        BY <1>4 DEF Changed
  <2>2. ~Applied(e, "change") \/ Changed(e)'
    <3> DEFINE new == [exec |-> e, part |-> "change", place |-> PlaceOf(ex[e]), content |-> Sent(ex[e].plan, ex[e].channel)]
    <3>1. Applied(e, "change") => new \in landed'
          BY DEF Applied
    <3>2. new.exec = e /\ new.part = "change"
          OBVIOUS
    <3> QED BY <3>1, <3>2 DEF Changed
  <2> QED BY <1>2, <1>3, <1>4, <2>1, <2>2
<1>5. ASSUME NEW part \in {"change", "delete"}, Applied(e, part), Fits(e)
      PROVE  /\ Changed(e) => Changed(e)'
             /\ Applied(e, "change") => Changed(e)'
             /\ ~Applied(e, "delete") =>
                  \A r \in landed' : r.exec = e /\ r.part = "delete" => r \in landed
             /\ \A r \in landed' : r.exec = e => Policy(ex'[e].plan, r.place, r.content)
  <2> DEFINE new == [exec |-> e, part |-> part, place |-> PlaceOf(ex[e]), content |-> Sent(ex[e].plan, ex[e].channel)]
             change == [exec |-> e, part |-> "change", place |-> PlaceOf(ex[e]), content |-> Sent(ex[e].plan, ex[e].channel)]
  <2>1. landed' = landed \cup {new} /\ (Applied(e, "change") => change \in landed')
        BY <1>5 DEF Applied
  <2>2. /\ new.exec = e /\ new.part = part /\ new.content = Sent(ex[e].plan, ex[e].channel)
        /\ new.place = PlaceOf(ex[e])
        /\ change.exec = e /\ change.part = "change"
        OBVIOUS
  <2> HIDE DEF new, change
  <2>3. (Changed(e) => Changed(e)') /\ (Applied(e, "change") => Changed(e)')
        BY <2>1, <2>2 DEF Changed
  <2>4. ~Applied(e, "delete") => part = "change"
        BY <1>5
  <2> QED BY <1>1, <1>2, <1>3, <1>5, <2>1, <2>2, <2>3, <2>4
<1> QED BY <1>4, <1>5

\* All that is left to show of a step of a call in the middle of its course.
LEMMA MidCourse ==
    ASSUME RInv, XInv, DeedInv, NEW e \in Execs, ex[e].pc \in Calling,
           OnlyOf(e), SameCall(e), DataOk', landed' = landed \/ Fits(e),
           ex'[e].pc \in Calling \ {"call"} => ex[e].plan.type \notin WorkloadTypes,
           ex'[e].pc \in Calling \cup {"stopped", "done"},
           ex'[e].result # "none" => ex'[e].pc = "done",
           ex'[e].pc \in {"spawn", "run", "reap"} => ex[e].plan.type = "exec_node",
           ex'[e].pc = "run" => PlaceOf(ex[e]) \in Places,
           ex'[e].good => Changed(e)',
           ex'[e].result = "completed" /\ ex[e].channel # "webhook" => Changed(e)',
           DebtOk(e)'
    PROVE  DeedInv'
<1>1. CourseOk(e)
      BY DEF DeedInv
<1>2. Admitted(ex[e].plan, ex[e].channel) /\ ex[e].channel \in Channels
      BY <1>1 DEF CourseOk, Calling
<1>3. PlaceOf(ex'[e]) = PlaceOf(ex[e])
      BY DEF SameCall, PlaceOf
<1>4. Admitted(ex'[e].plan, ex'[e].channel) /\ ex'[e].channel \in Channels
      BY <1>2 DEF SameCall
<1>5. CourseOk(e)'
      BY <1>3, <1>4 DEF CourseOk, SameCall, PlaceOf, Admitted, AppChecks
<1>6. \A r \in landed' : r.exec = e => Policy(ex'[e].plan, r.place, r.content)
  <2>1. landed' = landed \/ (Fits(e) /\ \E part \in {"change", "delete"} : Applied(e, part))
        BY DEF OnlyOf
  <2> QED BY <2>1, LandsWithinPolicy DEF SameCall
<1>7. EffectOk(e)'
      BY <1>6 DEF EffectOk, SameCall
<1> QED BY <1>5, <1>7, OthersKeep DEF DeedInv

\* Calls of an API other than the three that deal with a helper.
LEMMA PlainStep ==
    ASSUME RInv, XInv, DeedInv, NEW e \in Execs, ~dead, Quiet,
           ex[e].pc \in Calling \ {"spawn", "run", "reap"},
           live' \in [Places -> Objects],
           \/ landed' = landed
           \/ PlaceOf(ex[e]) \in Places /\ Fits(e) /\ \E part \in {"change", "delete"} : Applied(e, part),
           \/ /\ ex[e].pc \notin {"wait", "create"} /\ landed' = landed /\ ex[e].plan.type \notin WorkloadTypes
              /\ \E pc \in {"post", "read", "delete"} : Goes(e, pc)
           \/ ex[e].plan.type \notin WorkloadTypes /\ \E pc \in {"wait", "create"} : Goes(e, pc)
           \/ Returns(e, "failed")
           \/ Returns(e, "completed") /\ Applied(e, "change")
           \/ /\ ex[e].pc = "call" /\ ex[e].channel = "webhook" /\ landed' = landed
              /\ Returns(e, "completed")
    PROVE  DeedInv'
<1>1. UNCHANGED <<rows, call, accepts, proven, dead, helper, unreaped>>
      BY DEF Quiet, registryVars
<1>2. landed' = landed \/ (Fits(e) /\ \E part \in {"change", "delete"} : Applied(e, part))
      OBVIOUS
<1>3. DataOk'
  <2>1. landed' \subseteq LandedRecord
        BY LandsTyped DEF DeedInv, DataOk
  <2> QED BY <1>1, <2>1 DEF DeedInv, DataOk
<1>4. CourseOk(e) /\ EffectOk(e) /\ DebtOk(e)
      BY DEF DeedInv
<1>5. ex[e].result = "none"
  <2>1. ex[e].result \in {"none", "completed", "failed", "blocked"} /\ ex[e].pc # "done"
        BY DEF XInv, ExecRecord, Calling
  <2> QED BY <1>4, <2>1 DEF CourseOk
<1>6. e \in helper => e \in unreaped
      BY <1>4 DEF DebtOk
<1>7. CASE \E pc \in {"post", "read", "delete", "wait", "create"} :
             ex[e].plan.type \notin WorkloadTypes /\ Goes(e, pc) /\ (pc \in {"wait", "create"} \/ (ex[e].pc \notin {"wait", "create"} /\ landed' = landed))
  <2>1. PICK pc \in {"post", "read", "delete", "wait", "create"} :
             ex[e].plan.type \notin WorkloadTypes /\ Goes(e, pc) /\ (pc \in {"wait", "create"} \/ (ex[e].pc \notin {"wait", "create"} /\ landed' = landed))
        BY <1>7
  <2>2. /\ SameCall(e)
        /\ ex'[e].pc = IF ex[e].left /\ ~Threaded(ex[e]) THEN "stopped" ELSE pc
        /\ ex'[e].left = ex[e].left /\ ex'[e].good = ex[e].good /\ ex'[e].result = ex[e].result
        BY <2>1, GoesEffect DEF Calling
  <2>3. OnlyOf(e)
        BY <1>1, <1>2, <2>2 DEF OnlyOf, SameCall
  <2>4. Changed(e) => Changed(e)'
        BY <1>2, <2>2, LandsWithinPolicy DEF SameCall
  <2>5. DebtOk(e)'
        BY <1>1, <1>4, <1>5, <1>6, <2>1, <2>2, <2>4 DEF DebtOk
  <2>6. ex'[e].good => Changed(e)'
        BY <1>4, <2>2, <2>4 DEF EffectOk
  <2> QED BY <1>2, <1>3, <1>5, <2>1, <2>2, <2>3, <2>5, <2>6, MidCourse DEF Calling
<1>8. CASE \E r \in {"completed", "failed"} :
             /\ Returns(e, r)
             /\ r = "completed" => \/ Applied(e, "change")
                                   \/ ex[e].pc = "call" /\ ex[e].channel = "webhook" /\ landed' = landed
  <2>1. PICK r \in {"completed", "failed"} :
             /\ Returns(e, r)
             /\ r = "completed" => \/ Applied(e, "change")
                                   \/ ex[e].pc = "call" /\ ex[e].channel = "webhook" /\ landed' = landed
        BY <1>8
  <2>2. /\ SameCall(e) /\ ex'[e].pc = "done"
        /\ ex'[e].left = ex[e].left /\ ex'[e].good = ex[e].good
        /\ ex'[e].result = IF ex[e].left THEN "none" ELSE r
        BY <2>1, ReturnsEffect
  <2>3. OnlyOf(e)
        BY <1>1, <1>2, <2>2 DEF OnlyOf, SameCall
  <2>4. /\ Changed(e) => Changed(e)'
        /\ Applied(e, "change") => Changed(e)'
        BY <1>2, <2>2, LandsWithinPolicy DEF SameCall
  <2>5. DebtOk(e)'
    <3>1. CASE r = "failed" \/ Applied(e, "change") \/ ex[e].left
          BY <1>1, <1>6, <2>1, <2>2, <2>4, <3>1 DEF DebtOk
    <3>2. CASE ex[e].pc = "call" /\ landed' = landed
          BY <1>1, <1>4, <1>5, <1>6, <2>2, <2>4, <3>2 DEF DebtOk
    <3> QED BY <2>1, <3>1, <3>2
  <2>6. ex'[e].good => Changed(e)'
        BY <1>4, <2>2, <2>4 DEF EffectOk
  <2>7. ex'[e].result = "completed" /\ ex[e].channel # "webhook" => Changed(e)'
        BY <2>1, <2>2, <2>4
  <2> QED BY <1>2, <1>3, <2>2, <2>3, <2>5, <2>6, <2>7, MidCourse DEF Calling
<1> QED BY <1>7, <1>8

LEMMA BecomesTyped ==
    ASSUME DeedInv, NEW e \in Execs, NEW object \in Objects, Becomes(e, object)
    PROVE  live' \in [Places -> Objects]
  BY DEF DeedInv, DataOk, Becomes

LEMMA AfterTyped ==
    ASSUME NEW type, NEW object \in Objects
    PROVE  After(type, object) \in Objects
  BY DEF After, Objects

LEMMA CallDeeds ==
    ASSUME RInv, XInv, DeedInv, NEW e \in Execs,
           CallApplied(e) \/ WebhookRefuses(e) \/ CallFails(e) \/ ApplyNotFound(e) \/ Create(e)
    PROVE  DeedInv'
<1>1. ~dead /\ Quiet /\ ex[e].pc \in Calling \ {"spawn", "run", "reap"}
      BY DEF CallApplied, WebhookRefuses, CallFails, ApplyNotFound, Create, At, Calling
<1>2. live \in [Places -> Objects]
      BY DEF DeedInv, DataOk
<1>3. CASE CallApplied(e)
  <2>1. PlaceOf(ex[e]) \in Places
        BY <1>1, <1>3, PlaceKnown DEF CallApplied
  <2>2. live' \in [Places -> Objects]
    <3>1. After(ex[e].plan.type, live[PlaceOf(ex[e])]) \in Objects
          BY <1>2, <2>1, AfterTyped
    <3> QED BY <1>3, <3>1, BecomesTyped DEF CallApplied
  <2>3. Applied(e, "change") /\ (Returns(e, "completed") \/ Returns(e, "failed"))
        BY <1>3 DEF CallApplied
  <2>4. Fits(e)
        BY <1>3 DEF CallApplied, ToolChecks, Fits, ByOwnTool, WorkloadTypes
  <2> QED BY <1>1, <2>1, <2>2, <2>3, <2>4, PlainStep
<1>4. CASE WebhookRefuses(e)
  <2>1. /\ ex[e].pc = "call" /\ ex[e].channel = "webhook" /\ Returns(e, "completed")
        /\ landed' = landed /\ live' = live
        BY <1>4 DEF WebhookRefuses, At
  <2> QED BY <1>1, <1>2, <2>1, PlainStep
<1>5. CASE CallFails(e)
  <2>1. Returns(e, "failed") /\ landed' = landed /\ live' = live
        BY <1>5 DEF CallFails
  <2> QED BY <1>1, <1>2, <2>1, PlainStep
<1>6. CASE ApplyNotFound(e)
  <2>1. /\ ex[e].pc = "call" /\ Goes(e, "post") /\ landed' = landed /\ live' = live
        /\ ex[e].plan.type \notin WorkloadTypes
        BY <1>6 DEF ApplyNotFound, At, WorkloadTypes
  <2> QED BY <1>1, <1>2, <2>1, PlainStep
<1>7. CASE Create(e)
  <2>1. CASE /\ Reachable(ex[e]) /\ Applied(e, "change") /\ Becomes(e, "plain")
             /\ Returns(e, "completed") \/ Returns(e, "failed")
    <3>1. PlaceOf(ex[e]) \in Places
          BY <1>1, <2>1, PlaceKnown
    <3>2. live' \in [Places -> Objects]
          BY <2>1, BecomesTyped DEF Objects
    <3>3. Fits(e)
          BY <1>1, <1>7, LaterFits DEF Create, At
    <3> QED BY <1>1, <2>1, <3>1, <3>2, <3>3, PlainStep
  <2>2. CASE Returns(e, "failed") /\ UNCHANGED <<live, landed>>
        BY <1>1, <1>2, <2>2, PlainStep
  <2> QED BY <1>7, <2>1, <2>2 DEF Create
<1> QED BY <1>3, <1>4, <1>5, <1>6, <1>7

LEMMA ReplaceDeeds ==
    ASSUME RInv, XInv, DeedInv, NEW e \in Execs,
           FallbackReplace(e) \/ ReadLive(e) \/ DeleteLive(e) \/ WaitForDeletion(e)
    PROVE  DeedInv'
<1>1. ~dead /\ Quiet /\ ex[e].pc \in Calling \ {"spawn", "run", "reap"}
      BY DEF FallbackReplace, ReadLive, DeleteLive, WaitForDeletion, At, Calling
<1>2. live \in [Places -> Objects]
      BY DEF DeedInv, DataOk
<1>3. CASE FallbackReplace(e)
  <2>1. /\ ex[e].pc = "call" /\ Goes(e, "read") /\ landed' = landed /\ live' = live
        /\ ex[e].plan.type \notin WorkloadTypes
        BY <1>3 DEF FallbackReplace, At, OfferedByHttp, Replace, WorkloadTypes
  <2> QED BY <1>1, <1>2, <2>1, PlainStep
<1>4. CASE ReadLive(e)
  <2>1. /\ ex[e].pc = "read" /\ landed' = landed /\ live' = live
        /\ Goes(e, "delete") \/ Returns(e, "failed")
        BY <1>4 DEF ReadLive, At
  <2>2. ex[e].plan.type \notin WorkloadTypes
        BY <1>1, <2>1, LaterFits
  <2> QED BY <1>1, <1>2, <2>1, <2>2, PlainStep
<1>5. CASE DeleteLive(e)
  <2>1. CASE /\ Reachable(ex[e]) /\ Applied(e, "delete") /\ Becomes(e, "going")
             /\ Goes(e, "wait") \/ Returns(e, "failed")
    <3>1. PlaceOf(ex[e]) \in Places
          BY <1>1, <2>1, PlaceKnown
    <3>2. live' \in [Places -> Objects]
          BY <2>1, BecomesTyped DEF Objects
    <3>3. Fits(e) /\ ex[e].plan.type \notin WorkloadTypes
          BY <1>1, <1>5, LaterFits DEF DeleteLive, At
    <3> QED BY <1>1, <2>1, <3>1, <3>2, <3>3, PlainStep
  <2>2. CASE Returns(e, "failed") /\ UNCHANGED <<live, landed>>
        BY <1>1, <1>2, <2>2, PlainStep
  <2> QED BY <1>5, <2>1, <2>2 DEF DeleteLive
<1>6. CASE WaitForDeletion(e)
  <2>1. /\ landed' = landed /\ live' = live
        /\ Goes(e, "create") \/ Returns(e, "failed")
        BY <1>6 DEF WaitForDeletion
  <2>2. ex[e].plan.type \notin WorkloadTypes
        BY <1>1, <1>6, LaterFits DEF WaitForDeletion, At
  <2> QED BY <1>1, <1>2, <2>1, <2>2, PlainStep
<1> QED BY <1>3, <1>4, <1>5, <1>6

\* A helper Pod is remembered while its command runs, and where the API left a
\* call about it unanswered.
LEMMA SpawnDeeds ==
    ASSUME RInv, XInv, DeedInv, NEW e \in Execs, Spawn(e)
    PROVE  DeedInv'
<1>1. /\ ~dead /\ ex[e].pc = "spawn" /\ ex[e].pc \in Calling
      /\ UNCHANGED <<rows, call, accepts, proven, dead, live, landed>>
      BY DEF Spawn, At, Calling, registryVars
<1>2. CourseOk(e) /\ EffectOk(e) /\ DebtOk(e) /\ DataOk
      BY DEF DeedInv
<1>3. ex[e].plan.type = "exec_node" /\ ex[e].plan.type \notin WorkloadTypes /\ Threaded(ex[e])
      BY <1>1, <1>2 DEF CourseOk, Threaded, ExecTypes, WorkloadTypes
<1>4. ex[e].result = "none"
  <2>1. ex[e].result \in {"none", "completed", "failed", "blocked"}
        BY DEF XInv, ExecRecord
  <2> QED BY <1>1, <1>2, <2>1 DEF CourseOk
<1>5. \/ Reachable(ex[e]) /\ helper' = helper \cup {e} /\ Goes(e, "run") /\ unreaped' = unreaped
      \/ helper' = helper \cup {e} /\ Returns(e, "failed") /\ unreaped' = unreaped \cup {e}
      \/ Returns(e, "failed") /\ UNCHANGED <<helper, unreaped>>
      BY DEF Spawn
<1>6. DataOk'
      BY <1>1, <1>2, <1>5 DEF DataOk
<1>7. Changed(e)' <=> Changed(e)
      BY <1>1 DEF Changed
<1>8. CASE Reachable(ex[e]) /\ helper' = helper \cup {e} /\ Goes(e, "run") /\ unreaped' = unreaped
  <2>1. /\ SameCall(e) /\ ex'[e].pc = "run"
        /\ ex'[e].left = ex[e].left /\ ex'[e].good = ex[e].good /\ ex'[e].result = ex[e].result
        BY <1>3, <1>8, GoesEffect DEF Calling
  <2>2. OnlyOf(e)
        BY <1>1, <1>8, <2>1 DEF OnlyOf, SameCall
  <2>3. DebtOk(e)'
        BY <1>1, <1>2, <1>4, <1>7, <2>1 DEF DebtOk
  <2>4. PlaceOf(ex[e]) \in Places
        BY <1>1, <1>8, PlaceKnown
  <2>5. ex'[e].good => Changed(e)'
        BY <1>2, <1>7, <2>1 DEF EffectOk
  <2> QED BY <1>1, <1>3, <1>4, <1>6, <2>1, <2>2, <2>3, <2>4, <2>5, MidCourse DEF Calling
<1>9. CASE Returns(e, "failed") /\ (e \in helper' => e \in unreaped' \/ e \in helper)
  <2>1. /\ SameCall(e) /\ ex'[e].pc = "done"
        /\ ex'[e].left = ex[e].left /\ ex'[e].good = ex[e].good
        /\ ex'[e].result = IF ex[e].left THEN "none" ELSE "failed"
        BY <1>9, ReturnsEffect
  <2>2. OnlyOf(e)
        BY <1>1, <1>5, <2>1 DEF OnlyOf, SameCall
  <2>3. DebtOk(e)'
        BY <1>1, <1>2, <1>4, <1>5, <1>7, <1>9, <2>1 DEF DebtOk
  <2>4. ex'[e].good => Changed(e)'
        BY <1>2, <1>7, <2>1 DEF EffectOk
  <2> QED BY <1>1, <1>6, <2>1, <2>2, <2>3, <2>4, MidCourse DEF Calling
<1> QED BY <1>5, <1>8, <1>9

LEMMA RunDeeds ==
    ASSUME RInv, XInv, DeedInv, NEW e \in Execs, RunOnNode(e)
    PROVE  DeedInv'
<1>1. /\ ~dead /\ ex[e].pc = "run" /\ ex[e].pc \in Calling
      /\ UNCHANGED <<rows, call, accepts, proven, dead, live, helper, unreaped>>
      BY DEF RunOnNode, At, Calling, Quiet, registryVars
<1>2. CourseOk(e) /\ EffectOk(e) /\ DebtOk(e) /\ DataOk
      BY DEF DeedInv
<1>3. /\ ex[e].plan.type = "exec_node" /\ Threaded(ex[e]) /\ PlaceOf(ex[e]) \in Places
      /\ ex[e].plan.type \notin WorkloadTypes /\ Fits(e)
      BY <1>1, <1>2, LaterFits DEF CourseOk, Threaded, ExecTypes, WorkloadTypes
<1>4. ex[e] \in ExecRecord /\ ex[e].result = "none"
  <2>1. ex[e] \in ExecRecord /\ ex[e].result \in {"none", "completed", "failed", "blocked"}
        BY DEF XInv, ExecRecord
  <2> QED BY <1>1, <1>2, <2>1 DEF CourseOk
<1>5. landed' = landed \/ Applied(e, "change")
      BY DEF RunOnNode
<1>6. DataOk'
  <2>1. landed' \subseteq LandedRecord
        BY <1>2, <1>3, <1>5, LandsTyped DEF DataOk
  <2> QED BY <1>1, <1>2, <2>1 DEF DataOk
<1>7. /\ SameCall(e) /\ ex'[e].pc = "reap" /\ ex'[e].left = ex[e].left /\ ex'[e].result = "none"
      /\ ex'[e].good => ex[e].good \/ Applied(e, "change")
  <2>1. CASE Goes(e, "reap")
    <3>1. /\ SameCall(e) /\ ex'[e].pc = "reap"
          /\ ex'[e].left = ex[e].left /\ ex'[e].good = ex[e].good /\ ex'[e].result = ex[e].result
          BY <1>3, <2>1, GoesEffect DEF Calling
    <3> QED BY <1>4, <3>1
  <2>2. ASSUME NEW good \in BOOLEAN, Applied(e, "change"),
               ex' = [ex EXCEPT ![e].good = good, ![e].pc = "reap"]
        PROVE  /\ SameCall(e) /\ ex'[e].pc = "reap" /\ ex'[e].left = ex[e].left /\ ex'[e].result = "none"
               /\ ex'[e].good => ex[e].good \/ Applied(e, "change")
    <3> DEFINE x == [ex[e] EXCEPT !.good = good, !.pc = "reap"]
    <3>1. ex' = [ex EXCEPT ![e] = x]
          BY <2>2
    <3>2. /\ x \in ExecRecord /\ x.pc = "reap"
          /\ x.plan = ex[e].plan /\ x.channel = ex[e].channel /\ x.cred = ex[e].cred
          /\ x.left = ex[e].left /\ x.result = "none"
          BY <1>4 DEF ExecRecord, ExecPCs
    <3> HIDE DEF x
    <3>3. ex \in [Execs -> ExecRecord]
          BY DEF XInv
    <3>4. ex'[e] = x /\ (\A f \in Execs \ {e} : ex'[f] = ex[f]) /\ ex' \in [Execs -> ExecRecord]
          BY <3>1, <3>2, <3>3
    <3> QED BY <2>2, <3>2, <3>4 DEF SameCall
  <2> QED BY <2>1, <2>2 DEF RunOnNode
<1>8. OnlyOf(e)
      BY <1>1, <1>5, <1>7 DEF OnlyOf, SameCall
<1>9. (Changed(e) => Changed(e)') /\ (Applied(e, "change") => Changed(e)')
      BY <1>1, <1>3, <1>5, <1>7, LandsWithinPolicy DEF SameCall
<1>10. ex'[e].good => Changed(e)'
      BY <1>2, <1>7, <1>9 DEF EffectOk
<1>11. DebtOk(e)'
  <2>1. CASE Applied(e, "change")
        BY <1>1, <1>7, <1>9, <2>1 DEF DebtOk
  <2>2. CASE landed' = landed
        BY <1>1, <1>2, <1>4, <1>7, <1>9, <2>2 DEF DebtOk
  <2> QED BY <1>5, <2>1, <2>2
<1> QED BY <1>1, <1>3, <1>6, <1>7, <1>8, <1>10, <1>11, MidCourse DEF Calling

LEMMA ReapDeeds ==
    ASSUME RInv, XInv, DeedInv, NEW e \in Execs, Reap(e)
    PROVE  DeedInv'
<1>1. /\ ~dead /\ ex[e].pc = "reap" /\ ex[e].pc \in Calling
      /\ UNCHANGED <<rows, call, accepts, proven, dead, live, landed>>
      BY DEF Reap, At, Calling, registryVars
<1>2. CourseOk(e) /\ EffectOk(e) /\ DebtOk(e) /\ DataOk
      BY DEF DeedInv
<1> DEFINE r == IF ex[e].good THEN "completed" ELSE "failed"
<1>3. Returns(e, r)
      BY DEF Reap
<1>4. /\ SameCall(e) /\ ex'[e].pc = "done"
      /\ ex'[e].left = ex[e].left /\ ex'[e].good = ex[e].good
      /\ ex'[e].result = IF ex[e].left THEN "none" ELSE r
      BY <1>3, ReturnsEffect
<1>5. \/ helper' = helper \ {e} /\ unreaped' = unreaped
      \/ unreaped' = unreaped \cup {e} /\ helper' = helper
      BY DEF Reap
<1>6. DataOk'
      BY <1>1, <1>2, <1>5 DEF DataOk
<1>7. Changed(e)' <=> Changed(e)
      BY <1>1 DEF Changed
<1>8. OnlyOf(e)
      BY <1>1, <1>4, <1>5 DEF OnlyOf, SameCall
<1>9. (ex[e].good => Changed(e)')
      BY <1>2, <1>7 DEF EffectOk
<1>10. DebtOk(e)'
      BY <1>1, <1>4, <1>5, <1>9 DEF DebtOk
<1> QED BY <1>1, <1>4, <1>6, <1>8, <1>9, <1>10, MidCourse DEF Calling

\* Before a call has its channel and its credential it has done nothing.
LEMMA EarlyStep ==
    ASSUME RInv, XInv, DeedInv, NEW e \in Execs, ~dead, Quiet, UNCHANGED <<live, landed>>,
           ex[e].pc \in {"new", "queued", "borrow"},
           \A f \in Execs \ {e} : ex'[f] = ex[f],
           ex'[e].good = ex[e].good,
           ex'[e].result # "none" => ex'[e].pc = "done" /\ ex'[e].result # "completed",
           ex'[e].pc \notin {"new", "done"} =>
             Admitted(ex'[e].plan, ex'[e].channel) /\ ex'[e].channel \in Channels,
           ex'[e].pc = "spawn" => ex'[e].plan.type = "exec_node",
           ex'[e].pc \in Calling \ {"call"} => ex'[e].plan.type \notin WorkloadTypes,
           ex'[e].pc \notin {"run", "reap"}
    PROVE  DeedInv'
<1>1. UNCHANGED <<dead, helper, unreaped>>
      BY DEF Quiet, registryVars
<1>2. \A r \in landed : r.exec # e
      BY DEF XInv, LandedInv
<1>3. ~Changed(e) /\ ~Changed(e)'
      BY <1>2 DEF Changed
<1>4. ~ex'[e].good
      BY <1>3 DEF DeedInv, EffectOk
<1>5. CourseOk(e)'
      BY DEF CourseOk, Admitted, AppChecks
<1>6. EffectOk(e)'
      BY <1>2, <1>4 DEF EffectOk
<1>7. DebtOk(e)'
  <2>1. e \in helper => e \in unreaped
        BY DEF DeedInv, DebtOk
  <2> QED BY <1>1, <1>2, <2>1 DEF DebtOk
<1>8. OnlyOf(e) /\ DataOk'
      BY <1>1 DEF OnlyOf, DeedInv, DataOk
<1> QED BY <1>5, <1>6, <1>7, <1>8, OthersKeep DEF DeedInv

LEMMA DispatchDeeds ==
    ASSUME RInv, XInv, DeedInv, NEW e \in Execs, Dispatch(e)
    PROVE  DeedInv'
<1>1. PICK p \in PlansOf[e] :
        LET ch == Channel(p)
            Ends(r) == ex' = [ex EXCEPT ![e].plan = p, ![e].pc = "done", ![e].result = r] IN
        \/ Ends("failed")
        \/ p.type \notin MediumRisk /\ ~p.confirmed /\ Ends("blocked")
        \/ /\ p.type \in MediumRisk \/ p.confirmed
           /\ IF ch = "none" \/ ~AppChecks(p, ch) THEN Ends("failed")
              ELSE ex' = [ex EXCEPT ![e].plan = p, ![e].channel = ch, ![e].pc = Begin(p, ch)]
      BY Zenon DEF Dispatch
<1>2. /\ ex[e] \in ExecRecord /\ ex[e].pc = "new" /\ ~dead /\ Quiet /\ UNCHANGED <<live, landed>>
      /\ ex \in [Execs -> ExecRecord]
      BY DEF XInv, Dispatch, At
<1>3. ex[e].result = "none"
  <2>1. ex[e].result \in {"none", "completed", "failed", "blocked"}
        BY <1>2 DEF ExecRecord
  <2> QED BY <1>2, <2>1 DEF DeedInv, CourseOk
<1>4. ASSUME NEW r \in {"failed", "blocked"},
             ex' = [ex EXCEPT ![e].plan = p, ![e].pc = "done", ![e].result = r]
      PROVE  DeedInv'
  <2> DEFINE x == [ex[e] EXCEPT !.plan = p, !.pc = "done", !.result = r]
  <2>1. x.pc = "done" /\ x.good = ex[e].good /\ x.result = r
        BY <1>2 DEF ExecRecord
  <2>2. ex' = [ex EXCEPT ![e] = x]
        BY <1>4
  <2> HIDE DEF x
  <2>3. ex'[e] = x /\ \A f \in Execs \ {e} : ex'[f] = ex[f]
        BY <1>2, <2>2
  <2> QED BY <1>2, <2>1, <2>3, EarlyStep DEF Calling
<1>5. ASSUME p.type \in MediumRisk \/ p.confirmed, Channel(p) # "none", AppChecks(p, Channel(p)),
             ex' = [ex EXCEPT ![e].plan = p, ![e].channel = Channel(p), ![e].pc = Begin(p, Channel(p))]
      PROVE  DeedInv'
  <2> DEFINE x == [ex[e] EXCEPT !.plan = p, !.channel = Channel(p), !.pc = Begin(p, Channel(p))]
  <2>1. Channel(p) \in Channels
        BY <1>5 DEF Channel, Channels
  <2>2. /\ Begin(p, Channel(p)) \in {"queued", "borrow", "call", "read", "spawn"}
        /\ Begin(p, Channel(p)) = "spawn" => p.type = "exec_node"
        /\ Begin(p, Channel(p)) \in {"read", "spawn"} => p.type \notin WorkloadTypes
        BY <2>1 DEF Begin, FirstCall, Channels, Replace, WorkloadTypes
  <2>3. /\ x.pc = Begin(p, Channel(p)) /\ x.channel = Channel(p) /\ x.plan = p
        /\ x.good = ex[e].good /\ x.result = "none"
        BY <1>2, <1>3 DEF ExecRecord
  <2>4. ex' = [ex EXCEPT ![e] = x]
        BY <1>5
  <2> HIDE DEF x
  <2>5. ex'[e] = x /\ \A f \in Execs \ {e} : ex'[f] = ex[f]
        BY <1>2, <2>4
  <2>6. Admitted(x.plan, x.channel)
        BY <1>5, <2>3 DEF Admitted
  <2> QED BY <1>2, <2>1, <2>2, <2>3, <2>5, <2>6, EarlyStep DEF Calling
<1> QED BY <1>1, <1>4, <1>5, Zenon

\* Where a call may begin: with a helper only for commands on nodes, and with
\* the one call there is for a change of a workload.
SafeFirst(pc, p) ==
    /\ pc = "spawn" => p.type = "exec_node"
    /\ pc \in {"read", "spawn"} => p.type \notin WorkloadTypes

LEMMA ThreadDeeds ==
    ASSUME RInv, XInv, DeedInv, NEW e \in Execs, Borrow(e) \/ ThreadBegins(e)
    PROVE  DeedInv'
<1>1. /\ ex[e].pc \in {"borrow", "queued"} /\ ~dead /\ Quiet /\ UNCHANGED <<live, landed>>
      /\ ex[e] \in ExecRecord /\ ex \in [Execs -> ExecRecord]
      BY DEF XInv, Borrow, ThreadBegins, At
<1>2. Admitted(ex[e].plan, ex[e].channel) /\ ex[e].channel \in Channels
      BY <1>1 DEF DeedInv, CourseOk
<1>3. ex[e].result = "none"
  <2>1. ex[e].result \in {"none", "completed", "failed", "blocked"}
        BY <1>1 DEF ExecRecord
  <2> QED BY <1>1, <2>1 DEF DeedInv, CourseOk
<1>4. ASSUME Returns(e, "failed")
      PROVE  DeedInv'
  <2>1. /\ SameCall(e) /\ ex'[e].pc = "done" /\ ex'[e].good = ex[e].good
        /\ ex'[e].result = IF ex[e].left THEN "none" ELSE "failed"
        BY <1>4, ReturnsEffect
  <2> QED BY <1>1, <2>1, EarlyStep DEF SameCall, Calling
<1>5. ASSUME NEW pc \in {"stopped", "queued", "call", "read", "spawn"},
             SafeFirst(pc, ex[e].plan),
             NEW x, ex' = [ex EXCEPT ![e] = x],
             x.pc = pc, x.channel = ex[e].channel, x.plan = ex[e].plan,
             x.good = ex[e].good, x.result = ex[e].result
      PROVE  DeedInv'
  <2>1. ex'[e] = x /\ \A f \in Execs \ {e} : ex'[f] = ex[f]
        BY <1>1, <1>5
  <2>2. /\ Admitted(ex'[e].plan, ex'[e].channel) /\ ex'[e].channel \in Channels
        /\ ex'[e].good = ex[e].good /\ ex'[e].result = "none" /\ ex'[e].pc = pc
        /\ ex'[e].plan = ex[e].plan
        BY <1>2, <1>3, <1>5, <2>1
  <2> QED BY <1>1, <1>5, <2>1, <2>2, EarlyStep DEF SafeFirst, Calling
<1>6. FirstCall(ex[e].plan) \in {"call", "read", "spawn"} /\ SafeFirst(FirstCall(ex[e].plan), ex[e].plan)
      BY DEF FirstCall, SafeFirst, Replace, WorkloadTypes
<1>7. ASSUME NEW pc \in {"stopped", "queued", "call", "read", "spawn"},
             SafeFirst(pc, ex[e].plan), ex' = [ex EXCEPT ![e].pc = pc]
      PROVE  DeedInv'
  <2> DEFINE x == [ex[e] EXCEPT !.pc = pc]
  <2>1. /\ x.pc = pc /\ x.channel = ex[e].channel /\ x.plan = ex[e].plan
        /\ x.good = ex[e].good /\ x.result = ex[e].result
        BY <1>1 DEF ExecRecord
  <2>2. ex' = [ex EXCEPT ![e] = x]
        BY <1>7
  <2> HIDE DEF x
  <2> QED BY <1>5, <1>7, <2>1, <2>2
<1>8. CASE Borrow(e)
  <2>1. CASE ex' = [ex EXCEPT ![e].pc = IF ex[e].left THEN "stopped" ELSE "queued"]
    <3> DEFINE pc == IF ex[e].left THEN "stopped" ELSE "queued"
    <3>1. /\ pc \in {"stopped", "queued"} /\ SafeFirst(pc, ex[e].plan)
          /\ ex' = [ex EXCEPT ![e].pc = pc]
          BY <2>1 DEF SafeFirst
    <3> HIDE DEF pc
    <3> QED BY <1>7, <3>1
  <2> QED BY <1>4, <1>8, <2>1 DEF Borrow
<1>9. CASE ThreadBegins(e)
  <2>1. CASE ex' = [ex EXCEPT ![e].cred = RowOf(ex[e].plan.cluster).cred, ![e].pc = FirstCall(ex[e].plan)]
    <3> DEFINE cred == RowOf(ex[e].plan.cluster).cred
               pc == FirstCall(ex[e].plan)
               x == [ex[e] EXCEPT !.cred = cred, !.pc = pc]
    <3>1. ex' = [ex EXCEPT ![e] = x]
          BY <2>1
    <3>2. pc \in {"stopped", "queued", "call", "read", "spawn"} /\ SafeFirst(pc, ex[e].plan)
          BY <1>6
    <3> HIDE DEF cred, pc
    <3>3. /\ x.pc = pc /\ x.channel = ex[e].channel /\ x.plan = ex[e].plan
          /\ x.good = ex[e].good /\ x.result = ex[e].result
          BY <1>1 DEF ExecRecord
    <3> HIDE DEF x
    <3> QED BY <1>5, <3>1, <3>2, <3>3
  <2>2. CASE Goes(e, FirstCall(ex[e].plan))
    <3> DEFINE pc == IF ex[e].left /\ ~Threaded(ex[e]) THEN "stopped" ELSE FirstCall(ex[e].plan)
    <3>1. /\ ex' = [ex EXCEPT ![e].pc = pc]
          /\ pc \in {"stopped", "queued", "call", "read", "spawn"}
          /\ SafeFirst(pc, ex[e].plan)
          BY <1>6, <2>2 DEF Goes, SafeFirst
    <3> HIDE DEF pc
    <3> QED BY <1>7, <3>1
  <2> QED BY <1>4, <1>9, <2>1, <2>2 DEF ThreadBegins
<1> QED BY <1>8, <1>9

\* A stage that gives up leaves the deeds of its call as they are.
LEMMA StageLeavesDeeds ==
    ASSUME RInv, XInv, DeedInv, NEW e \in Execs, StageLeaves(e)
    PROVE  DeedInv'
<1> DEFINE pc == IF ex[e].pc = "queued" THEN "stopped" ELSE ex[e].pc
           x == [ex[e] EXCEPT !.left = TRUE, !.pc = pc]
<1>1. /\ ex[e] \in ExecRecord /\ ex \in [Execs -> ExecRecord]
      /\ ex[e].pc \notin {"new", "stopped", "done"} /\ ~dead /\ Quiet /\ UNCHANGED <<live, landed>>
      /\ UNCHANGED <<dead, helper, unreaped>>
      BY DEF XInv, StageLeaves, Quiet, registryVars
<1>2. ex' = [ex EXCEPT ![e] = x]
      BY DEF StageLeaves
<1>3. CourseOk(e) /\ EffectOk(e) /\ DebtOk(e) /\ DataOk
      BY DEF DeedInv
<1>4. /\ x.pc = pc /\ x.plan = ex[e].plan /\ x.channel = ex[e].channel /\ x.cred = ex[e].cred
      /\ x.good = ex[e].good /\ x.result = ex[e].result /\ x.left
      BY <1>1 DEF ExecRecord
<1> HIDE DEF x
<1>5. ex'[e] = x /\ \A f \in Execs \ {e} : ex'[f] = ex[f]
      BY <1>1, <1>2
<1>6. OnlyOf(e) /\ DataOk'
      BY <1>1, <1>3, <1>5 DEF OnlyOf, DataOk
<1>7. PlaceOf(x) = PlaceOf(ex[e])
      BY <1>4 DEF PlaceOf
<1>8. CourseOk(e)'
  <2>1. ex[e].result = "none"
    <3>1. ex[e].result \in {"none", "completed", "failed", "blocked"}
          BY <1>1 DEF ExecRecord
    <3> QED BY <1>1, <1>3, <3>1 DEF CourseOk
  <2>2. Admitted(x.plan, x.channel) /\ x.channel \in Channels
        BY <1>1, <1>3, <1>4 DEF CourseOk
  <2>3. PlaceOf(ex'[e]) = PlaceOf(ex[e])
        BY <1>5, <1>7
  <2> QED BY <1>3, <1>4, <1>5, <2>1, <2>2, <2>3 DEF CourseOk, Calling
<1>9. EffectOk(e)'
  <2>1. Changed(e)' <=> Changed(e)
        BY <1>1 DEF Changed
  <2> QED BY <1>1, <1>3, <1>4, <1>5, <2>1 DEF EffectOk
<1>10. DebtOk(e)'
      BY <1>1, <1>3, <1>4, <1>5 DEF DebtOk
<1> QED BY <1>6, <1>8, <1>9, <1>10, OthersKeep DEF DeedInv

\* What happens elsewhere leaves the deeds alone; a death only forgives debts.
LEMMA DeedsRest ==
    ASSUME DeedInv, UNCHANGED <<ex, landed, helper, unreaped>>, dead => dead',
           live' \in [Places -> Objects]
    PROVE  DeedInv'
<1> SUFFICES ASSUME NEW e \in Execs PROVE CourseOk(e)' /\ EffectOk(e)' /\ DebtOk(e)'
      BY DEF DeedInv, DataOk
<1>1. CourseOk(e) /\ EffectOk(e) /\ DebtOk(e)
      BY DEF DeedInv
<1>2. Changed(e)' <=> Changed(e)
      BY DEF Changed
<1>3. CourseOk(e)'
      BY <1>1 DEF CourseOk, PlaceOf
<1> QED BY <1>1, <1>2, <1>3 DEF EffectOk, DebtOk

LEMMA NextDeeds ==
    ASSUME RInv, XInv, DeedInv, [Next]_vars
    PROVE  DeedInv'
<1>1. live \in [Places -> Objects]
      BY DEF DeedInv, DataOk
<1>2. CASE RegistryNext /\ UNCHANGED execVars
  <2>1. dead' = dead
        BY <1>2 DEF RegistryNext, Rotate, CallBegins, Upsert, UpsertRejected, RefreshToken, VerifyCluster, Begins,
           DeleteCluster, CallStep, RefreshReads, ProbeContent, Save, Fetch, MarkConnected, Configure, Measure,
           WriteProbe, Answer
  <2> QED BY <1>1, <1>2, <2>1, DeedsRest DEF execVars
<1>3. ASSUME NEW e \in Execs, ExecStep(e) \/ StageLeaves(e)
      PROVE  DeedInv'
      BY <1>3, DispatchDeeds, ThreadDeeds, CallDeeds, ReplaceDeeds, SpawnDeeds, RunDeeds, ReapDeeds, StageLeavesDeeds
         DEF ExecStep
<1>4. CASE Vanishes
  <2>1. live' \in [Places -> Objects]
        BY <1>1, <1>4 DEF Vanishes, Objects
  <2> QED BY <1>4, <2>1, DeedsRest DEF Vanishes, registryVars
<1>5. CASE Dies
      BY <1>1, <1>5, DeedsRest DEF Dies, execVars
<1>6. CASE UNCHANGED vars
      BY <1>1, <1>6, DeedsRest DEF vars, registryVars, execVars
<1> QED BY <1>2, <1>3, <1>4, <1>5, <1>6 DEF Next

LEMMA DeedsStart == Init => DeedInv
<1> SUFFICES ASSUME Init PROVE DeedInv
    OBVIOUS
<1>1. DataOk
      BY DEF Init, ExecInit, DataOk, Objects
<1>2. ASSUME NEW e \in Execs PROVE CourseOk(e) /\ EffectOk(e) /\ DebtOk(e)
  <2>1. ex[e].pc = "new" /\ ex[e].result = "none" /\ ex[e].good = FALSE /\ landed = {} /\ helper = {}
        BY DEF Init, ExecInit
  <2> QED BY <2>1 DEF CourseOk, EffectOk, DebtOk, Calling
<1> QED BY <1>1, <1>2 DEF DeedInv

LEMMA DeedInvariant == Spec => []DeedInv
<1>1. Init => DeedInv
      BY DeedsStart
<1>2. (RInv /\ XInv) /\ DeedInv /\ [Next]_vars => DeedInv'
      BY NextDeeds
<1> QED BY <1>1, <1>2, Invariant, PTL DEF Spec

-----------------------------------------------------------------------------
(* Theorems *)

\* Every stored kubeconfig was accepted by its API server in a probe, for any
\* number of overlapping registrations, refreshes, probes and deletions.
THEOREM OnlyProvenIsStored == Spec => []StoredWasProven
<1>1. RInv /\ XInv => StoredWasProven
      BY DEF RInv
<1> QED BY <1>1, Invariant, PTL

\* No change reaches a cluster with a credential that was never accepted.
THEOREM OnlyProvenIsUsed == Spec => []UsesProvenCredential
<1>1. RInv /\ XInv => UsesProvenCredential
      BY DEF XInv, LandedInv, UsesProvenCredential
<1> QED BY <1>1, Invariant, PTL

\* A change of any type planned for a Rancher cluster lands there or nowhere.
THEOREM RancherChangesStay == Spec => []RancherStaysRemote
<1>1. RInv /\ XInv => RancherStaysRemote
      BY DEF XInv, LandedInv, RancherStaysRemote, Remote
<1> QED BY <1>1, Invariant, PTL

\* The registry, the calls, the objects and what landed are what their code can
\* put there, and what landed arrived at a known place.
THEOREM TypeCorrect == Spec => []TypeOK
<1>1. (RInv /\ XInv) /\ DeedInv => TypeOK
      BY DEF RInv, XInv, DeedInv, DataOk, TypeOK, LandedRecord
<1> QED BY <1>1, Invariant, DeedInvariant, PTL

\* Through every channel, for plans of any type and content, what is applied is
\* within the policy.
THEOREM AppliedIsWithinPolicy == Spec => []AppliedWithinPolicy
<1>1. DeedInv => AppliedWithinPolicy
  <2> SUFFICES ASSUME DeedInv, NEW r \in landed PROVE Policy(ex[r.exec].plan, r.place, r.content)
      BY Zenon DEF AppliedWithinPolicy, Policy
  <2>1. r.exec \in Execs
        BY DEF DeedInv, DataOk, LandedRecord
  <2> QED BY <2>1 DEF DeedInv, EffectOk
<1> QED BY <1>1, DeedInvariant, PTL

\* Whatever is lost or given up, "completed" is said of what was applied.
THEOREM CompletedIsTrue == Spec => []CompletedWasApplied
<1>1. DeedInv => CompletedWasApplied
      BY DEF DeedInv, EffectOk, Changed, CompletedWasApplied
<1> QED BY <1>1, DeedInvariant, PTL

\* A deletion that was not followed by its creation was reported, or nobody was
\* left to report to, however many calls compete for the object.
THEOREM DeletionsAreAccountedFor == Spec => []ReplacementIsAccountedFor
<1>1. DeedInv => ReplacementIsAccountedFor
  <2> SUFFICES ASSUME DeedInv, NEW r \in landed, r.part = "delete"
               PROVE  LET x == ex[r.exec] IN
                      \/ dead \/ x.left \/ x.pc \in {"wait", "create"} \/ x.result = "failed"
                      \/ \E s \in landed : s.exec = r.exec /\ s.part = "change"
      BY DEF ReplacementIsAccountedFor
  <2>1. r.exec \in Execs
        BY DEF DeedInv, DataOk, LandedRecord
  <2> QED BY <2>1 DEF DeedInv, DebtOk, Changed
<1> QED BY <1>1, DeedInvariant, PTL

\* A helper Pod outlives its command only where the API left a call about it
\* unanswered or refused it, or the process died.
THEOREM HelpersAreReaped == Spec => []NoStrayHelper
<1>1. DeedInv => NoStrayHelper
      BY DEF DeedInv, DataOk, DebtOk, NoStrayHelper
<1> QED BY <1>1, DeedInvariant, PTL
=============================================================================
