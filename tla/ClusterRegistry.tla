-------------------------- MODULE ClusterRegistry --------------------------
(***************************************************************************)
(* ClusterRegistry of backend/app/services/cluster_registry.py and the     *)
(* handlers of application.py that call it.                                *)
(*                                                                         *)
(* Every handler hands its call to a thread, so calls interleave.  A       *)
(* SQLite transaction is one step; what a call has read or measured        *)
(* before it is kept in the call.  A credential is a token for a server,   *)
(* a kubeconfig names one of each, and the servers decide which tokens     *)
(* they accept.                                                            *)
(***************************************************************************)
EXTENDS Naturals, FiniteSets

CONSTANTS
    Ids,        \* cluster ids
    Servers,    \* Kubernetes API servers
    Tokens,     \* bearer tokens
    Calls,      \* registry calls, each made once
    NoRow       \* the id is not in managed_clusters

VARIABLES
    rows,       \* managed_clusters
    call,       \* the calls, with what each has read and measured
    accepts,    \* the tokens each API server accepts
    proven,     \* history: credentials an API server accepted in a probe
    dead        \* history: the process died

registryVars == <<rows, call, accepts, proven, dead>>

Credential == [server : Servers, token : Tokens]
Statuses == {"pending", "connected", "unreachable"}

\* A row: the kubeconfig it holds, its status, and the server the version and
\* the node count were read from.
Row == [cred : Credential, status : Statuses, facts : Servers \cup {"none"}]

ASSUME RegistryAssumption == NoRow \notin Row /\ Ids # {} /\ Servers # {} /\ Tokens # {}

CallPCs == {"new", "read", "probe", "save", "fetch", "mark", "configure",
            "measure", "write", "answer", "ok", "rejected", "missing", "unverified"}
CallRecord == [pc : CallPCs, op : {"none", "upsert", "refresh", "probe", "delete"},
               id : Ids, cred : Credential, good : BOOLEAN]

Over(c) == call[c].pc \in {"ok", "rejected", "missing", "unverified"}
CallGoes(c, pc) == call' = [call EXCEPT ![c].pc = pc]
RowOf(id) == rows[id]
Known(id) == rows[id] # NoRow
Accepted(cred) == cred.token \in accepts[cred.server]

RegistryInit ==
    /\ rows \in [Ids -> {NoRow} \cup
          {[cred |-> k, status |-> "connected", facts |-> k.server] : k \in Credential}]
    /\ call = [c \in Calls |->
                 [pc |-> "new", op |-> "none", id |-> CHOOSE id \in Ids : TRUE,
                  cred |-> CHOOSE k \in Credential : TRUE, good |-> FALSE]]
    /\ accepts \in [Servers -> {S \in SUBSET Tokens : Cardinality(S) = 1}]
    /\ proven = {rows[id].cred : id \in {i \in Ids : rows[i] # NoRow}}
    /\ dead = FALSE

-----------------------------------------------------------------------------
(* Handlers *)

Begins(c, op, id, pc) ==
    /\ ~dead /\ call[c].pc = "new"
    /\ call' = [call EXCEPT ![c].op = op, ![c].id = id, ![c].pc = pc]
    /\ UNCHANGED <<rows, accepts, proven, dead>>

\* Mutant of Upsert: no probe comes before the save.
UpsertUnprobed(c) ==
    \E id \in Ids, k \in Credential :
        /\ ~dead /\ call[c].pc = "new"
        /\ call' = [call EXCEPT ![c].op = "upsert", ![c].id = id, ![c].cred = k, ![c].pc = "save"]
        /\ UNCHANGED <<rows, accepts, proven, dead>>

\* parse: a usable context with an embedded credential, or a token pasted
\* beside the file, which replaces the user's stanza.
Upsert(c) ==
    \E id \in Ids, k \in Credential :
        /\ ~dead /\ call[c].pc = "new"
        /\ call' = [call EXCEPT ![c].op = "upsert", ![c].id = id, ![c].cred = k, ![c].pc = "probe"]
        /\ UNCHANGED <<rows, accepts, proven, dead>>

\* parse raises: no such context, a server missing, an exec or auth-provider
\* stanza, a file of the server.
UpsertRejected(c) == \E id \in Ids : Begins(c, "upsert", id, "rejected")

RefreshToken(c) ==
    \E id \in Ids, t \in Tokens :
        /\ ~dead /\ call[c].pc = "new"
        /\ call' = [call EXCEPT ![c].op = "refresh", ![c].id = id,
                                ![c].cred.token = t, ![c].pc = "read"]
        /\ UNCHANGED <<rows, accepts, proven, dead>>

\* refresh_token reads the row and goes on with the kubeconfig it read.
RefreshReads(c) ==
    /\ call[c].pc = "read"
    /\ IF Known(call[c].id)
       THEN call' = [call EXCEPT ![c].cred.server = RowOf(call[c].id).cred.server,
                                 ![c].pc = "probe"]
       ELSE CallGoes(c, "missing")
    /\ UNCHANGED <<rows, accepts, proven, dead>>

\* probe_content: the API server answers, or nothing is stored.
ProbeContent(c) ==
    /\ call[c].pc = "probe"
    /\ \/ /\ Accepted(call[c].cred)
          /\ proven' = proven \cup {call[c].cred}
          /\ CallGoes(c, "save")
       \/ CallGoes(c, "unverified") /\ UNCHANGED proven
    /\ UNCHANGED <<rows, accepts, dead>>

\* Mutant of Save: the row is replaced, not updated.
SaveReplacingRow(c) ==
    LET id == call[c].id IN
    /\ call[c].pc = "save"
    /\ rows' = [rows EXCEPT ![id] = [cred |-> call[c].cred, status |-> "pending"]]
    /\ CallGoes(c, "fetch")
    /\ UNCHANGED <<accepts, proven, dead>>

\* save: the upsert resets the status; version and node count stay what they were.
Save(c) ==
    LET id == call[c].id IN
    /\ call[c].pc = "save"
    /\ rows' = [rows EXCEPT ![id] =
         [cred |-> call[c].cred, status |-> "pending",
          facts |-> IF Known(id) THEN RowOf(id).facts ELSE "none"]]
    /\ CallGoes(c, "fetch")
    /\ UNCHANGED <<accepts, proven, dead>>

\* save returns self.get(cid), which raises if the row is gone again.
Fetch(c) ==
    /\ call[c].pc = "fetch"
    /\ CallGoes(c, IF Known(call[c].id) THEN "mark" ELSE "rejected")
    /\ UNCHANGED <<rows, accepts, proven, dead>>

\* Mutant of MarkConnected: only a row that was never measured is marked.
MarkNewOnly(c) ==
    LET id == call[c].id IN
    /\ call[c].pc = "mark"
    /\ rows' = [rows EXCEPT ![id] =
         IF Known(id) /\ RowOf(id).facts = "none"
         THEN [@ EXCEPT !.status = "connected", !.facts = call[c].cred.server] ELSE @]
    /\ CallGoes(c, "answer")
    /\ UNCHANGED <<accepts, proven, dead>>

\* save_verified then updates whatever row has the id.
MarkConnected(c) ==
    LET id == call[c].id IN
    /\ call[c].pc = "mark"
    /\ rows' = [rows EXCEPT ![id] =
         IF Known(id) THEN [@ EXCEPT !.status = "connected", !.facts = call[c].cred.server]
         ELSE NoRow]
    /\ CallGoes(c, "answer")
    /\ UNCHANGED <<accepts, proven, dead>>

VerifyCluster(c) == \E id \in Ids : Begins(c, "probe", id, "configure")

\* probe: the configuration is read, the API is asked, the row is updated,
\* each in its own step.  A missing row counts as unreachable.
Configure(c) ==
    LET id == call[c].id IN
    /\ call[c].pc = "configure"
    /\ IF Known(id) THEN call' = [call EXCEPT ![c].cred = RowOf(id).cred, ![c].pc = "measure"]
       ELSE CallGoes(c, "write")
    /\ UNCHANGED <<rows, accepts, proven, dead>>

Measure(c) ==
    /\ call[c].pc = "measure"
    /\ \/ /\ Accepted(call[c].cred)
          /\ call' = [call EXCEPT ![c].good = TRUE, ![c].pc = "write"]
          /\ proven' = proven \cup {call[c].cred}
       \/ CallGoes(c, "write") /\ UNCHANGED proven
    /\ UNCHANGED <<rows, accepts, dead>>

WriteProbe(c) ==
    LET id == call[c].id IN
    /\ call[c].pc = "write"
    /\ rows' = [rows EXCEPT ![id] =
         IF ~Known(id) THEN NoRow
         ELSE IF call[c].good
              THEN [@ EXCEPT !.status = "connected", !.facts = call[c].cred.server]
              ELSE [@ EXCEPT !.status = "unreachable", !.facts = "none"]]
    /\ CallGoes(c, "answer")
    /\ UNCHANGED <<accepts, proven, dead>>

DeleteCluster(c) ==
    \E id \in Ids :
        /\ ~dead /\ call[c].pc = "new"
        /\ rows' = [rows EXCEPT ![id] = NoRow]
        /\ call' = [call EXCEPT ![c].op = "delete", ![c].id = id,
                                ![c].pc = IF Known(id) THEN "answer" ELSE "missing"]
        /\ UNCHANGED <<accepts, proven, dead>>

\* The answer is made from the row as it is by now: gone, or pending for an
\* overlapping call, which is reported as a credential that was not verified.
\* The inventory cache the handlers drop is left out.
Answer(c) ==
    LET id == call[c].id IN
    /\ call[c].pc = "answer"
    /\ CallGoes(c, IF call[c].op = "delete" THEN "ok"
                   ELSE IF ~Known(id) THEN "missing"
                   ELSE IF call[c].op # "probe" /\ RowOf(id).status # "connected" THEN "unverified" ELSE "ok")
    /\ UNCHANGED <<rows, accepts, proven, dead>>

\* An API server stops accepting one token and accepts another.
Rotate ==
    /\ \E s \in Servers : \E t \in Tokens \ accepts[s] : accepts' = [accepts EXCEPT ![s] = {t}]
    /\ UNCHANGED <<rows, call, proven, dead>>

CallStep(c) ==
    \/ RefreshReads(c) \/ ProbeContent(c) \/ Save(c) \/ Fetch(c) \/ MarkConnected(c)
    \/ Configure(c) \/ Measure(c) \/ WriteProbe(c) \/ Answer(c)
CallBegins(c) ==
    \/ Upsert(c) \/ UpsertRejected(c) \/ RefreshToken(c) \/ VerifyCluster(c) \/ DeleteCluster(c)
RegistryNext ==
    \/ \E c \in Calls : ~dead /\ CallStep(c)
    \/ \E c \in Calls : CallBegins(c)
    \/ Rotate

-----------------------------------------------------------------------------
(* Properties *)

RegistryTypeOK ==
    /\ rows \in [Ids -> Row \cup {NoRow}]
    /\ call \in [Calls -> CallRecord]
    /\ accepts \in [Servers -> SUBSET Tokens]
    /\ proven \subseteq Credential /\ dead \in BOOLEAN

\* save_verified probes first, so that a failed update cannot replace good
\* credentials: whatever calls overlap, a stored credential was accepted by its
\* API server in a probe, also when it was put together from the kubeconfig of
\* a row and a new token.
StoredWasProven == \A id \in Ids : Known(id) => RowOf(id).cred \in proven

\* The pending status save writes between its two transactions passes: some call
\* replaces it, or the row goes, unless the process dies first.  It may not stay
\* because two calls overlapped.
PendingSettles ==
    \A id \in Ids :
        (Known(id) /\ RowOf(id).status = "pending")
            ~> (~Known(id) \/ RowOf(id).status # "pending" \/ dead)

=============================================================================
