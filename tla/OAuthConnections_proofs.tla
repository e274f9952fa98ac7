------------------------ MODULE OAuthConnections_proofs ------------------------
(***************************************************************************)
(* What holds of an OAuth connection for any organizations, clients,         *)
(* secrets, tokens and number of requests: its type, that a connection shown *)
(* as completed has its tokens in Key Vault, and that the tokens it keeps    *)
(* are accepted by the provider and are those its row speaks of.             *)
(***************************************************************************)
EXTENDS OAuthConnections, TLAPS

HoldingCopy == {"settingSecret", "inserting", "changingSecret", "writing",
                "keeping", "completing", "marking"}
HoldingConnection == {"fetching", "fetchingResponse", "asking"}
Removing == {"removingSecret", "removingResponse", "removingRow"}

\* What a request that awaits step holds in its local variables, when n tokens
\* have been issued.
JobOK(step, new, n) ==
    /\ new \in Job
    /\ step = "idle" <=> new = NoJob
    /\ step # "idle" => new.scope \in Scopes
    /\ new.copy.expires \in 0..n /\ new.access \in 0..n
    /\ step \in HoldingCopy => new.copy \in Row
    /\ step \in HoldingConnection \/ new.status = "exchanging" => new.connection \in Row
    /\ new.status = "exchanging" => new.kind = "callback" /\ step \in {"reading", "marking"}
    /\ step \in {"reading", "marking"} => new.status \in Statuses
    /\ step \in {"loading", "keeping", "completing"} => new.access # 0
    /\ step = "finding" => new.copy = NoRow
    /\ new.kind = "authorize" => step \in {"reading", "marking"} /\ new.client \in Clients

JobsOK == \A p \in Processes : JobOK(pc[p], job[p], issued)
RowsOK == \A s \in Scopes : rows[s].expires \in 0..issued
TypeInv == OAuthTypeOK /\ RowsOK /\ JobsOK

\* A name the connection of scope s keeps its tokens under, in its row or in a
\* copy that will be written to it; a name some connection keeps a client secret
\* under.
Keeps(s, r) ==
    /\ r # NoRef
    /\ \/ rows[s].responseRef = r
       \/ \E p \in Processes : job[p].scope = s /\ job[p].copy.responseRef = r
IsSecret(r) ==
    /\ r # NoRef
    /\ \/ \E s \in Scopes : rows[s].secretRef = r
       \/ \E p \in Processes : job[p].copy.secretRef = r

\* No two connections share tokens, client secrets are no tokens, and only a
\* deletion takes tokens away.
VaultInv ==
    /\ \A s, t \in Scopes, r \in Refs : Keeps(s, r) /\ Keeps(t, r) => s = t
    /\ \A r \in Refs : IsSecret(r) => vault[r].access = 0
    /\ \A s \in Scopes, r \in Refs : Keeps(s, r) =>
          /\ vault[r] = NoSecret \/ vault[r].access # 0
          /\ s \notin deleted => vault[r].access # 0

\* A completed row, and one that may become completed again from a copy, refers
\* to tokens; a request for tokens has a row to store them in.
RowHolds(row) == configured /\ row.status = "completed" => row.responseRef # NoRef
JobHolds(step, new, row) ==
    /\ step \notin Removing
    /\ RowHolds(new.copy)
    /\ step = "completing" => new.copy.responseRef # NoRef
    /\ configured /\ step \in {"reading", "marking"} /\ new.status = "completed" =>
          row.responseRef # NoRef
    /\ step \in HoldingConnection \cup {"loading"} \/ new.status = "exchanging" => row # NoRow
CompletedInv ==
    \A s \in Scopes \ deleted :
        /\ RowHolds(rows[s])
        /\ \A p \in Processes : job[p].scope = s => JobHolds(pc[p], job[p], rows[s])

IInv == TypeInv /\ VaultInv /\ CompletedInv

-----------------------------------------------------------------------------
(* Any step.                                                                 *)

LEMMA NoJobOK ==
    ASSUME NEW n \in Nat
    PROVE  JobOK("idle", NoJob, n)
<1>1. NoJob \in Job
    BY OAuthAssumption DEF NoJob, Job, Tokens
<1>2. NoJob.copy = NoRow /\ NoJob.copy.expires = 0 /\ NoJob.access = 0
    BY DEF NoJob, NoRow
<1> QED BY <1>1, <1>2 DEF JobOK, NoJob, HoldingCopy, HoldingConnection

LEMMA IssuedIsNat ==
    ASSUME TypeInv
    PROVE  /\ issued \in Nat /\ setting \in Setting /\ setting.tokens \in 0..MaxTokens
           /\ setting.disruptions \in Nat /\ issued \in Tokens /\ 0 \in Tokens
BY OAuthAssumption, SettingAssumption DEF TypeInv, OAuthTypeOK, Setting, Tokens

LEMMA ContinueTypes ==
    ASSUME TypeInv, NEW p \in Processes, NEW step \in Steps, NEW new, JobOK(step, new, issued'),
           issued' \in Nat, issued <= issued',
           pc' = [pc EXCEPT ![p] = step], job' = [job EXCEPT ![p] = new]
    PROVE  pc' \in [Processes -> Steps] /\ job' \in [Processes -> Job] /\ JobsOK'
<1>1. pc' \in [Processes -> Steps] /\ job' \in [Processes -> Job]
    BY DEF TypeInv, OAuthTypeOK, JobOK
<1>2. ASSUME NEW q \in Processes PROVE JobOK(pc'[q], job'[q], issued')
    <2>1. CASE q = p
        BY <2>1 DEF TypeInv, OAuthTypeOK
    <2>2. CASE q # p
        <3>1. JobOK(pc[q], job[q], issued) /\ pc'[q] = pc[q] /\ job'[q] = job[q]
            BY <2>2 DEF TypeInv, OAuthTypeOK, JobsOK
        <3>2. 0..issued \subseteq 0..issued'
            BY IssuedIsNat
        <3> QED BY <3>1, <3>2 DEF JobOK
    <2> QED BY <2>1, <2>2
<1> QED BY <1>1, <1>2 DEF JobsOK, JobOK

\* What a step may change besides rows, secrets and its process's variables,
\* when the provider issues no token.
AsideOK ==
    /\ UNCHANGED <<issued, holder, usable, soon, setting>> /\ codes' \subseteq Clients
    /\ disturbed' \subseteq Scopes /\ lostTokens' \subseteq Scopes
    /\ deleted' \subseteq Scopes /\ deleted \subseteq deleted'
    /\ disruptions' \in 0..setting.disruptions

LEMMA StepTypes ==
    ASSUME TypeInv, NEW p \in Processes, NEW step \in Steps, NEW new, JobOK(step, new, issued),
           Continue(p, step, new), AsideOK,
           rows' \in [Scopes -> Row \cup {NoRow}], RowsOK', vault' \in [Refs -> Secret]
    PROVE  TypeInv'
<1>1. issued' = issued /\ issued' \in Nat /\ issued <= issued' /\ JobOK(step, new, issued')
    BY IssuedIsNat DEF AsideOK
<1>2. pc' \in [Processes -> Steps] /\ job' \in [Processes -> Job] /\ JobsOK'
    BY <1>1, ContinueTypes DEF Continue
<1>3. \A q \in Processes :
          /\ pc'[q] \in {"completing", "marking", "writing"} => job'[q].copy \in Row
          /\ pc'[q] \in {"fetching", "asking"} => job'[q].connection \in Row
    BY <1>2 DEF JobsOK, JobOK, HoldingCopy, HoldingConnection
<1> QED BY <1>2, <1>3 DEF TypeInv, OAuthTypeOK, AsideOK, JobsOK

\* Names are handed from row to copy and back only.
LEMMA Moves ==
    ASSUME TypeInv, NEW p \in Processes, NEW s \in Scopes, NEW row, NEW new,
           rows' = [rows EXCEPT ![s] = row], job' = [job EXCEPT ![p] = new],
           row.responseRef = NoRef \/ Keeps(s, row.responseRef),
           row.secretRef = NoRef \/ IsSecret(row.secretRef),
           new.copy.responseRef = NoRef \/ Keeps(new.scope, new.copy.responseRef),
           new.copy.secretRef = NoRef \/ IsSecret(new.copy.secretRef)
    PROVE  /\ \A t \in Scopes, r \in Refs : Keeps(t, r)' => Keeps(t, r)
           /\ \A r \in Refs : IsSecret(r)' => IsSecret(r)
<1>1. ASSUME NEW t \in Scopes, NEW r \in Refs, Keeps(t, r)' PROVE Keeps(t, r)
    <2>1. CASE rows'[t].responseRef = r
        BY <1>1, <2>1 DEF Keeps, TypeInv, OAuthTypeOK
    <2>2. CASE \E q \in Processes : job'[q].scope = t /\ job'[q].copy.responseRef = r
        <3>1. PICK q \in Processes : job'[q].scope = t /\ job'[q].copy.responseRef = r
            BY <2>2
        <3>2. CASE q = p
            BY <1>1, <3>1, <3>2 DEF Keeps, TypeInv, OAuthTypeOK
        <3>3. CASE q # p
            BY <1>1, <3>1, <3>3 DEF Keeps, TypeInv, OAuthTypeOK
        <3> QED BY <3>2, <3>3
    <2> QED BY <1>1, <2>1, <2>2 DEF Keeps
<1>2. ASSUME NEW r \in Refs, IsSecret(r)' PROVE IsSecret(r)
    <2>1. CASE \E t \in Scopes : rows'[t].secretRef = r
        BY <1>2, <2>1 DEF IsSecret, TypeInv, OAuthTypeOK
    <2>2. CASE \E q \in Processes : job'[q].copy.secretRef = r
        BY <1>2, <2>2 DEF IsSecret, TypeInv, OAuthTypeOK
    <2> QED BY <1>2, <2>1, <2>2 DEF IsSecret
<1> QED BY <1>1, <1>2

LEMMA SameVault ==
    ASSUME VaultInv, vault' = vault, deleted \subseteq deleted',
           \A t \in Scopes, r \in Refs : Keeps(t, r)' => Keeps(t, r),
           \A r \in Refs : IsSecret(r)' => IsSecret(r)
    PROVE  VaultInv'
BY DEF VaultInv

\* A step that leaves every name a connection had in place.
LEMMA StepCompletes ==
    ASSUME TypeInv, CompletedInv, NEW p \in Processes, NEW step, NEW new, NEW s \in Scopes, NEW row,
           pc' = [pc EXCEPT ![p] = step], job' = [job EXCEPT ![p] = new],
           rows' = [rows EXCEPT ![s] = row], deleted \subseteq deleted', setting' = setting,
           s \notin deleted' => /\ RowHolds(row)
                                /\ rows[s].responseRef # NoRef => row.responseRef # NoRef
                                /\ Exists(s) => row # NoRow,
           new.scope \in Scopes \ deleted' => JobHolds(step, new, rows'[new.scope])
    PROVE  CompletedInv'
<1> SUFFICES ASSUME NEW t \in Scopes \ deleted'
             PROVE  /\ RowHolds(rows'[t])
                    /\ \A q \in Processes : job'[q].scope = t => JobHolds(pc'[q], job'[q], rows'[t])
    BY Zenon DEF CompletedInv, RowHolds, JobHolds, configured
<1>1. /\ RowHolds(rows[t])
      /\ \A q \in Processes : job[q].scope = t => JobHolds(pc[q], job[q], rows[t])
    BY DEF CompletedInv
<1>2. /\ rows[t].responseRef # NoRef => rows'[t].responseRef # NoRef
      /\ rows[t] # NoRow => rows'[t] # NoRow
      /\ RowHolds(rows'[t])
    BY <1>1 DEF TypeInv, OAuthTypeOK, Exists
<1>3. ASSUME NEW q \in Processes, job'[q].scope = t PROVE JobHolds(pc'[q], job'[q], rows'[t])
    <2>1. CASE q = p
        BY <1>3, <2>1 DEF TypeInv, OAuthTypeOK
    <2>2. CASE q # p
        <3>1. JobHolds(pc[q], job[q], rows[t]) /\ pc'[q] = pc[q] /\ job'[q] = job[q]
            BY <1>1, <1>3, <2>2 DEF TypeInv, OAuthTypeOK
        <3> QED BY <1>2, <3>1 DEF JobHolds
    <2> QED BY <2>1, <2>2
<1> QED BY <1>2, <1>3

\* Where the copy of a request comes from: its references are new to nobody.
CopyDrawn(p, new) ==
    \/ new.copy.responseRef = NoRef /\ new.copy.secretRef = NoRef
    \/ /\ new.scope \in Scopes
       /\ new.copy.responseRef = rows[new.scope].responseRef
       /\ new.copy.secretRef = rows[new.scope].secretRef
    \/ /\ new.scope = job[p].scope
       /\ new.copy.responseRef = job[p].copy.responseRef
       /\ new.copy.secretRef = job[p].copy.secretRef

LEMMA DrawnIsKept ==
    ASSUME TypeInv, NEW p \in Processes, NEW new, CopyDrawn(p, new)
    PROVE  /\ new.copy.responseRef = NoRef \/ Keeps(new.scope, new.copy.responseRef)
           /\ new.copy.secretRef = NoRef \/ IsSecret(new.copy.secretRef)
BY DEF CopyDrawn, Keeps, IsSecret

\* A step that writes at most a row.
LEMMA WriteStep ==
    ASSUME IInv, NEW p \in Processes, NEW step \in Steps, NEW new, JobOK(step, new, issued),
           Continue(p, step, new), AsideOK, UNCHANGED vault, CopyDrawn(p, new),
           NEW s \in Scopes, NEW row \in Row \cup {NoRow},
           rows' = [rows EXCEPT ![s] = row], row.expires \in 0..issued,
           row.responseRef = NoRef \/ Keeps(s, row.responseRef),
           row.secretRef = NoRef \/ IsSecret(row.secretRef),
           s \notin deleted' => /\ RowHolds(row)
                                /\ rows[s].responseRef # NoRef => row.responseRef # NoRef
                                /\ Exists(s) => row # NoRow,
           new.scope \in Scopes \ deleted' => JobHolds(step, new, rows'[new.scope])
    PROVE  IInv'
<1>1. rows' \in [Scopes -> Row \cup {NoRow}] /\ RowsOK'
    BY DEF IInv, TypeInv, OAuthTypeOK, RowsOK, AsideOK
<1>2. TypeInv'
    BY <1>1, StepTypes DEF IInv, TypeInv, OAuthTypeOK
<1>3. /\ \A t \in Scopes, r \in Refs : Keeps(t, r)' => Keeps(t, r)
      /\ \A r \in Refs : IsSecret(r)' => IsSecret(r)
    BY DrawnIsKept, Moves DEF IInv, Continue
<1>4. VaultInv'
    BY <1>3, SameVault DEF IInv, AsideOK
<1>5. CompletedInv'
    BY StepCompletes DEF IInv, Continue, AsideOK
<1> QED BY <1>2, <1>4, <1>5 DEF IInv

LEMMA SameRows ==
    ASSUME TypeInv, rows' = rows, NEW s \in Scopes
    PROVE  /\ rows' = [rows EXCEPT ![s] = rows[s]]
           /\ rows[s] \in Row \cup {NoRow} /\ rows[s].expires \in 0..issued
           /\ rows[s].responseRef = NoRef \/ Keeps(s, rows[s].responseRef)
           /\ rows[s].secretRef = NoRef \/ IsSecret(rows[s].secretRef)
BY DEF TypeInv, OAuthTypeOK, RowsOK, Keeps, IsSecret

\* A step that writes nothing but its process's own variables.
LEMMA QuietStep ==
    ASSUME IInv, NEW p \in Processes, NEW step \in Steps, NEW new, JobOK(step, new, issued),
           Continue(p, step, new), AsideOK, UNCHANGED <<rows, vault>>, CopyDrawn(p, new),
           new.scope \in Scopes \ deleted' => JobHolds(step, new, rows[new.scope])
    PROVE  IInv'
<1> DEFINE row == rows[Global]
<1>1. Global \in Scopes
    BY OAuthAssumption
<1>2. /\ rows' = [rows EXCEPT ![Global] = row]
      /\ row \in Row \cup {NoRow} /\ row.expires \in 0..issued
      /\ row.responseRef = NoRef \/ Keeps(Global, row.responseRef)
      /\ row.secretRef = NoRef \/ IsSecret(row.secretRef)
    BY <1>1, SameRows DEF IInv
<1>3. Global \notin deleted' => /\ RowHolds(row)
                                /\ rows[Global].responseRef # NoRef => row.responseRef # NoRef
                                /\ Exists(Global) => row # NoRow
    BY <1>1 DEF IInv, CompletedInv, AsideOK, Exists
<1>4. new.scope \in Scopes \ deleted' => JobHolds(step, new, rows'[new.scope])
    OBVIOUS
<1>5. UNCHANGED vault
    OBVIOUS
<1> HIDE DEF row
<1> QED BY <1>1, <1>2, <1>3, <1>4, <1>5, WriteStep

\* A request that holds nothing promises nothing.
LEMMA EndStep ==
    ASSUME IInv, NEW p \in Processes, End(p), AsideOK, UNCHANGED <<rows, vault>>
    PROVE  IInv'
<1>1. JobOK("idle", NoJob, issued)
    BY NoJobOK, IssuedIsNat DEF IInv
<1>2. CopyDrawn(p, NoJob) /\ NoJob.scope \notin Scopes
    BY OAuthAssumption DEF CopyDrawn, NoJob, NoRow
<1> QED BY <1>1, <1>2, QuietStep DEF End, Steps

Announcement(p, status) ==
    [NoJob EXCEPT !.kind = job[p].kind, !.scope = job[p].scope, !.status = status]

LEMMA AnnouncementOK ==
    ASSUME TypeInv, NEW p \in Processes, Working(p), job[p].kind # "authorize",
           NEW status \in {"failed", "completed"}
    PROVE  /\ JobOK("reading", Announcement(p, status), issued)
           /\ CopyDrawn(p, Announcement(p, status))
           /\ Announcement(p, status).scope = job[p].scope /\ job[p].scope \in Scopes
           /\ \A row : /\ status = "failed" => JobHolds("reading", Announcement(p, status), row)
                       /\ row.responseRef # NoRef =>
                             JobHolds("reading", Announcement(p, status), row)
                       /\ ~configured => JobHolds("reading", Announcement(p, status), row)
<1> DEFINE new == Announcement(p, status)
<1>1. JobOK(pc[p], job[p], issued) /\ pc[p] # "idle" /\ issued \in Nat
    BY IssuedIsNat DEF TypeInv, JobsOK, Working
<1>2. NoJob \in Job /\ NoJob.copy = NoRow /\ NoJob.access = 0 /\ NoJob.scope \notin Scopes
      /\ NoRow.expires = 0 /\ NoRow.status = "none"
      /\ NoRow.responseRef = NoRef /\ NoRow.secretRef = NoRef
    BY NoJobOK, <1>1, OAuthAssumption DEF JobOK, NoJob, NoRow
<1>3. /\ new \in Job /\ new.copy = NoRow /\ new.access = 0 /\ new.status = status
      /\ new.scope = job[p].scope /\ new.kind = job[p].kind /\ new.scope \in Scopes
    <2>1. job[p] \in Job /\ job[p].scope \in Scopes /\ status \in Statuses
        BY <1>1 DEF JobOK, Statuses, OAuthStatus
    <2>2. job[p].kind \in Kinds \cup {"none"}
        BY <2>1 DEF Job
    <2> QED BY <1>2, <2>1, <2>2 DEF Announcement, Job
<1> HIDE DEF new
<1>4. JobOK("reading", new, issued)
    BY <1>1, <1>2, <1>3 DEF JobOK, HoldingCopy, HoldingConnection, Statuses, OAuthStatus
<1>5. CopyDrawn(p, new)
    BY <1>2, <1>3 DEF CopyDrawn
<1>6. ASSUME NEW row PROVE /\ status = "failed" => JobHolds("reading", new, row)
                           /\ row.responseRef # NoRef => JobHolds("reading", new, row)
                           /\ ~configured => JobHolds("reading", new, row)
    BY <1>2, <1>3 DEF JobHolds, RowHolds, Removing, HoldingConnection
<1> QED BY <1>3, <1>4, <1>5, <1>6 DEF new

LEMMA SameAside ==
    ASSUME TypeInv, UNCHANGED <<providerVars, soon, setting, history, disruptions>>
    PROVE  AsideOK
BY DEF TypeInv, OAuthTypeOK, AsideOK, providerVars, history

\* What is known of a request at its await.
LEMMA AtAwait ==
    ASSUME IInv, NEW p \in Processes, Working(p)
    PROVE  /\ JobOK(pc[p], job[p], issued) /\ job[p] \in Job /\ job[p] # NoJob
           /\ job[p].scope \in Scopes /\ issued \in Nat /\ pc[p] \in Steps
           /\ rows[job[p].scope] \in Row \cup {NoRow}
           /\ rows[job[p].scope].expires \in 0..issued
           /\ job[p].scope \notin deleted =>
                 /\ RowHolds(rows[job[p].scope])
                 /\ JobHolds(pc[p], job[p], rows[job[p].scope])
<1>1. JobOK(pc[p], job[p], issued) /\ issued \in Nat
    BY IssuedIsNat DEF IInv, TypeInv, JobsOK
<1>2. pc[p] \in Steps /\ job[p] \in Job /\ job[p].scope \in Scopes /\ job[p] # NoJob
    BY <1>1 DEF IInv, TypeInv, OAuthTypeOK, JobOK, Working
<1> QED BY <1>1, <1>2 DEF IInv, CompletedInv, TypeInv, OAuthTypeOK, RowsOK

LEMMA BeginStep ==
    ASSUME IInv, NEW p \in Processes, NEW kind, NEW step \in Steps \ {"idle"}, NEW new,
           JobOK(step, new, issued), Begin(p, kind, step, new), CopyDrawn(p, new),
           UNCHANGED <<rows, vault, providerVars, soon, setting, lostTokens, deleted, disruptions>>,
           new.scope \notin deleted => JobHolds(step, new, rows[new.scope])
    PROVE  IInv'
<1>1. new.scope \in Scopes
    BY DEF JobOK
<1>2. AsideOK
    BY <1>1 DEF IInv, TypeInv, OAuthTypeOK, AsideOK, Begin, Overlapping, providerVars
<1>3. Continue(p, step, new)
    BY DEF Begin, Continue
<1> QED BY <1>1, <1>2, <1>3, QuietStep

LEMMA AnnounceFailure ==
    ASSUME IInv, NEW p \in Processes, Working(p), job[p].kind # "authorize",
           Announce(p, "failed"), AsideOK, UNCHANGED <<rows, vault>>
    PROVE  IInv'
<1> DEFINE new == Announcement(p, "failed")
<1>1. /\ JobOK("reading", new, issued) /\ CopyDrawn(p, new)
      /\ JobHolds("reading", new, rows[new.scope])
    BY AnnouncementOK DEF IInv
<1>2. Continue(p, "reading", new)
    BY DEF Announce, Announcement
<1> HIDE DEF new
<1> QED BY <1>1, <1>2, QuietStep DEF Steps

LEMMA BreakOffStep ==
    ASSUME IInv, NEW p \in Processes, Working(p), BreakOff(p),
           UNCHANGED <<rows, vault, providerVars, soon, setting, deleted>>,
           disruptions' \in 0..setting.disruptions
    PROVE  IInv'
<1>1. AsideOK
    BY AtAwait DEF IInv, TypeInv, OAuthTypeOK, AsideOK, BreakOff, Disturb, providerVars
<1> QED BY <1>1, EndStep DEF BreakOff

LEMMA AbandonStep ==
    ASSUME IInv, NEW p \in Processes, Working(p), Abandon(p),
           UNCHANGED <<rows, vault, providerVars, soon, setting, deleted>>,
           disruptions' \in 0..setting.disruptions
    PROVE  IInv'
<1>1. CASE BreakOff(p)
    BY <1>1, BreakOffStep
<1>2. CASE job[p].kind = "create" /\ Announce(p, "failed") /\ Disturb(p)
    <2>1. AsideOK
        BY <1>2, AtAwait DEF IInv, TypeInv, OAuthTypeOK, AsideOK, Disturb, providerVars
    <2> QED BY <1>2, <2>1, AnnounceFailure
<1> QED BY <1>1, <1>2 DEF Abandon

-----------------------------------------------------------------------------
(* The requests.                                                             *)

\* What get_connection finds is a row.
LEMMA FoundExists ==
    ASSUME NEW s \in Scopes, Found(s) # NoScope
    PROVE  Found(s) \in Scopes /\ Exists(Found(s))
BY OAuthAssumption DEF Found, Readable

\* A request that starts holds no copy.
LEMMA EmptyHanded ==
    ASSUME TypeInv
    PROVE  /\ issued \in Nat /\ NoJob \in Job /\ NoJob.scope \notin Scopes
           /\ NoJob.copy = NoRow /\ NoJob.connection = NoRow /\ NoJob.access = 0
           /\ NoJob.kind = "none" /\ NoJob.status = "none"
           /\ NoRow.expires = 0 /\ NoRow.status = "none"
           /\ NoRow.responseRef = NoRef /\ NoRow.secretRef = NoRef
BY NoJobOK, IssuedIsNat, OAuthAssumption DEF JobOK, NoJob, NoRow

\* Such a request, at a step that needs nothing but the connection's scope.
LEMMA BeginPlain ==
    ASSUME IInv, NEW p \in Processes, NEW kind, NEW step \in {"changing", "deleting", "finding"},
           NEW new \in Job, new.scope \in Scopes, new.copy = NoRow, new.access = 0,
           new.status = "none", new.kind # "authorize",
           Begin(p, kind, step, new),
           UNCHANGED <<rows, vault, providerVars, soon, setting, lostTokens, deleted, disruptions>>
    PROVE  IInv'
<1>1. new # NoJob /\ issued \in Nat /\ NoRow.expires = 0 /\ NoRow.status = "none"
      /\ NoRow.responseRef = NoRef /\ NoRow.secretRef = NoRef
    BY EmptyHanded DEF IInv
<1>2. JobOK(step, new, issued)
    BY <1>1 DEF JobOK, HoldingCopy, HoldingConnection
<1>3. CopyDrawn(p, new) /\ JobHolds(step, new, rows[new.scope])
    BY <1>1 DEF CopyDrawn, JobHolds, RowHolds, Removing, HoldingConnection
<1> QED BY <1>2, <1>3, BeginStep DEF Steps

LEMMA BeginCreateHolds ==
    ASSUME IInv, NEW p \in Processes, NEW flow \in setting.flows,
           NEW client \in setting.clients, BeginCreate(p, setting.scope[p], flow, client)
    PROVE  IInv'
<1> DEFINE s == setting.scope[p]
           row == [NoRow EXCEPT !.status = "not_connected", !.flow = flow, !.client = client]
           new == [NoJob EXCEPT !.kind = "create", !.scope = s, !.copy = row]
           step == IF HasSecret(client) THEN "settingSecret" ELSE "inserting"
<1>1. s \in Scopes /\ flow \in Flows /\ client \in Clients
    BY IssuedIsNat DEF IInv, Setting
<1>2. row \in Row /\ row.expires = 0 /\ row.status = "not_connected"
      /\ row.responseRef = NoRef /\ row.secretRef = NoRef
    BY <1>1, IssuedIsNat DEF IInv, Row, NoRow, Statuses, OAuthStatus
<1>3. new \in Job /\ new.scope = s /\ new.copy = row /\ new.access = 0 /\ new.kind = "create"
      /\ new.status = "none" /\ new # NoJob /\ issued \in Nat
    BY <1>1, <1>2, EmptyHanded DEF IInv, Job, Kinds
<1>4. step \in {"settingSecret", "inserting"}
    OBVIOUS
<1>5. Begin(p, "create", step, new)
    BY DEF BeginCreate
<1> HIDE DEF s, row, new, step
<1>6. JobOK(step, new, issued)
    BY <1>1, <1>2, <1>3, <1>4 DEF JobOK, HoldingCopy, HoldingConnection
<1>7. CopyDrawn(p, new) /\ JobHolds(step, new, rows[new.scope])
    BY <1>2, <1>3, <1>4 DEF CopyDrawn, JobHolds, RowHolds, Removing, HoldingConnection
<1> QED BY <1>4, <1>5, <1>6, <1>7, BeginStep DEF BeginCreate, Steps

LEMMA BeginOthersHold ==
    ASSUME IInv, NEW p \in Processes, NEW s \in Scopes, NEW client \in Clients \cup {NoClient},
           \/ BeginUpdate(p, s, client) \/ BeginDelete(p, s) \/ BeginRefresh(p, s) \/ BeginSweep(p)
    PROVE  IInv'
<1>1. NoJob \in Job /\ NoJob.copy = NoRow /\ NoJob.access = 0 /\ NoJob.status = "none"
      /\ Global \in Scopes
    BY EmptyHanded, OAuthAssumption DEF IInv
<1>2. CASE BeginUpdate(p, s, client)
    <2> DEFINE new == [NoJob EXCEPT !.kind = "update", !.scope = s, !.client = client]
    <2>1. new \in Job /\ new.scope = s /\ new.copy = NoRow /\ new.access = 0 /\ new.status = "none"
          /\ new.kind # "authorize"
        BY <1>1 DEF Job, Kinds
    <2> QED BY <1>2, <2>1, BeginPlain DEF BeginUpdate
<1>3. CASE BeginDelete(p, s)
    <2> DEFINE new == [NoJob EXCEPT !.kind = "delete", !.scope = s]
    <2>1. new \in Job /\ new.scope = s /\ new.copy = NoRow /\ new.access = 0 /\ new.status = "none"
          /\ new.kind # "authorize"
        BY <1>1 DEF Job, Kinds
    <2> QED BY <1>3, <2>1, BeginPlain DEF BeginDelete
<1>4. CASE BeginRefresh(p, s) \/ BeginSweep(p)
    <2>1. PICK t \in Scopes, kind \in Kinds :
             Begin(p, kind, "finding", [NoJob EXCEPT !.kind = "refresh", !.scope = t])
        BY <1>1, <1>4 DEF BeginRefresh, BeginSweep, Kinds
    <2> DEFINE new == [NoJob EXCEPT !.kind = "refresh", !.scope = t]
    <2>2. new \in Job /\ new.scope = t /\ new.copy = NoRow /\ new.access = 0 /\ new.status = "none"
          /\ new.kind # "authorize"
        BY <1>1 DEF Job, Kinds
    <2> QED BY <1>4, <2>1, <2>2, BeginPlain DEF BeginRefresh, BeginSweep
<1> QED BY <1>2, <1>3, <1>4

\* A request whose first act is to write a status.
LEMMA BeginReading ==
    ASSUME IInv, NEW p \in Processes, NEW kind, NEW new \in Job,
           new.scope \in Scopes, new.copy = NoRow, new.access = 0,
           new.status \in Statuses \ {"completed"},
           new.kind = "authorize" => new.client \in Clients,
           new.status = "exchanging" =>
               new.connection \in Row /\ Exists(new.scope) /\ new.kind = "callback",
           Begin(p, kind, "reading", new),
           UNCHANGED <<rows, vault, providerVars, soon, setting, lostTokens, deleted, disruptions>>
    PROVE  IInv'
<1>1. new # NoJob /\ issued \in Nat /\ NoRow.expires = 0 /\ NoRow.status = "none"
      /\ NoRow.responseRef = NoRef /\ NoRow.secretRef = NoRef
    BY EmptyHanded DEF IInv
<1>2. JobOK("reading", new, issued)
    BY <1>1 DEF JobOK, HoldingCopy, HoldingConnection
<1>3. CopyDrawn(p, new) /\ JobHolds("reading", new, rows[new.scope])
    BY <1>1 DEF CopyDrawn, JobHolds, RowHolds, Removing, HoldingConnection, Exists
<1> QED BY <1>2, <1>3, BeginStep DEF Steps

LEMMA BeginStatusHolds ==
    ASSUME IInv, NEW p \in Processes, NEW s \in Scopes, NEW code \in Clients \cup {NoClient},
           BeginAuthorize(p, s) \/ BeginCancel(p, s) \/ BeginCallback(p, code)
    PROVE  IInv'
<1>1. NoJob \in Job /\ NoJob.copy = NoRow /\ NoJob.access = 0 /\ Global \in Scopes
      /\ Global # NoScope
    BY EmptyHanded, OAuthAssumption DEF IInv
<1>2. CASE BeginAuthorize(p, s)
    <2> DEFINE client == rows[Found(s)].client
               new == [NoJob EXCEPT !.kind = "authorize", !.scope = s, !.client = client,
                                    !.status = "waiting_callback"]
    <2>1. client \in Clients
        BY <1>2, FoundExists DEF BeginAuthorize, IInv, TypeInv, OAuthTypeOK, Exists, Row
    <2>2. Begin(p, "authorize", "reading", new)
        BY <1>2 DEF BeginAuthorize
    <2> HIDE DEF client
    <2>3. new \in Job /\ new.scope = s /\ new.copy = NoRow /\ new.access = 0
          /\ new.status = "waiting_callback" /\ new.client = client
        BY <1>1, <2>1 DEF Job, Kinds, Statuses, OAuthStatus
    <2> HIDE DEF new
    <2> QED BY <1>2, <2>1, <2>2, <2>3, BeginReading DEF BeginAuthorize, Statuses, OAuthStatus
<1>3. CASE BeginCancel(p, s)
    <2> DEFINE new == [NoJob EXCEPT !.kind = "cancel", !.scope = s, !.status = "not_connected"]
    <2>1. new \in Job /\ new.scope = s /\ new.copy = NoRow /\ new.access = 0
          /\ new.status = "not_connected" /\ new.kind = "cancel"
        BY <1>1 DEF Job, Kinds, Statuses, OAuthStatus
    <2>2. Begin(p, "cancel", "reading", new)
        BY <1>3 DEF BeginCancel
    <2> HIDE DEF new
    <2> QED BY <1>3, <2>1, <2>2, BeginReading DEF BeginCancel, Statuses, OAuthStatus
<1>4. CASE BeginCallback(p, code)
    <2> DEFINE row == rows[Global]
               new == [NoJob EXCEPT !.kind = "callback", !.scope = Global, !.connection = row,
                                    !.code = code, !.status = "exchanging"]
    <2>1. row \in Row /\ Exists(Global)
        BY <1>1, <1>4, FoundExists DEF BeginCallback, IInv, TypeInv, OAuthTypeOK, Exists
    <2>2. Begin(p, "callback", "reading", new)
        BY <1>4 DEF BeginCallback
    <2> HIDE DEF row
    <2>3. new \in Job /\ new.scope = Global /\ new.copy = NoRow /\ new.access = 0
          /\ new.status = "exchanging" /\ new.kind = "callback" /\ new.connection = row
        BY <1>1, <2>1 DEF Job, Kinds, Statuses, OAuthStatus
    <2> HIDE DEF new
    <2> QED BY <1>1, <1>4, <2>1, <2>2, <2>3, BeginReading DEF BeginCallback, Statuses, OAuthStatus
<1> QED BY <1>2, <1>3, <1>4

-----------------------------------------------------------------------------
(* Secrets.                                                                  *)

LEMMA NoRowIsNone ==
    /\ NoRow \notin Row /\ NoRow.expires = 0 /\ NoRow.status = "none"
    /\ NoRow.responseRef = NoRef /\ NoRow.secretRef = NoRef
BY OAuthAssumption DEF Row, NoRow

\* Setting or deleting a secret that a connection refers to.
LEMMA SetNames ==
    ASSUME VaultInv, vault \in [Refs -> Secret], NEW ref \in Refs, NEW secret,
           vault' = [vault EXCEPT ![ref] = secret], deleted' = deleted,
           \A t \in Scopes, r \in Refs : Keeps(t, r)' => Keeps(t, r),
           \A r \in Refs : IsSecret(r)' => IsSecret(r),
           IsSecret(ref) => secret.access = 0,
           \A t \in Scopes : Keeps(t, ref) =>
               /\ secret = NoSecret \/ secret.access # 0
               /\ t \notin deleted => secret.access # 0
    PROVE  VaultInv'
<1>1. \A r \in Refs : vault'[r] = IF r = ref THEN secret ELSE vault[r]
    OBVIOUS
<1> QED BY <1>1 DEF VaultInv

\* A step by which only new's copy comes to refer to ref.
NamedOnly(ref, new) ==
    /\ \A t \in Scopes : ~Keeps(t, ref)
    /\ ~IsSecret(ref)
    /\ \A t \in Scopes, r \in Refs :
          Keeps(t, r)' => Keeps(t, r) \/ (r = ref /\ t = new.scope /\ new.copy.responseRef = ref)
    /\ \A r \in Refs : IsSecret(r)' => IsSecret(r) \/ (r = ref /\ new.copy.secretRef = ref)

LEMMA FreshMoves ==
    ASSUME TypeInv, NEW p \in Processes, NEW ref \in FreshNames, NEW new,
           job[p].scope \in Scopes, new.scope = job[p].scope,
           rows' = rows, job' = [job EXCEPT ![p] = new],
           new.copy.responseRef = job[p].copy.responseRef \/ new.copy.responseRef = ref,
           new.copy.secretRef = job[p].copy.secretRef \/ new.copy.secretRef = ref
    PROVE  NamedOnly(ref, new)
<1>1. ref \in Refs /\ ref \notin Referred
    BY DEF FreshNames
<1>2. \A t \in Scopes : rows[t].responseRef # ref /\ rows[t].secretRef # ref
    BY <1>1 DEF Referred
<1>3. \A q \in Processes : job[q].copy.responseRef # ref /\ job[q].copy.secretRef # ref
    BY <1>1 DEF Referred
<1>4. (\A t \in Scopes : ~Keeps(t, ref)) /\ ~IsSecret(ref)
    BY <1>2, <1>3 DEF Keeps, IsSecret
<1>5. \A q \in Processes : q # p => job'[q] = job[q]
    BY DEF TypeInv, OAuthTypeOK
<1>6. job'[p] = new
    BY DEF TypeInv, OAuthTypeOK
<1>7. ASSUME NEW t \in Scopes, NEW r \in Refs, Keeps(t, r)'
      PROVE  Keeps(t, r) \/ (r = ref /\ t = new.scope /\ new.copy.responseRef = ref)
    BY <1>5, <1>6, <1>7 DEF Keeps
<1>8. ASSUME NEW r \in Refs, IsSecret(r)'
      PROVE  IsSecret(r) \/ (r = ref /\ new.copy.secretRef = ref)
    BY <1>5, <1>6, <1>8 DEF IsSecret
<1> QED BY <1>4, <1>7, <1>8 DEF NamedOnly

LEMMA FreshClientSecret ==
    ASSUME IInv, NEW p \in Processes, NEW ref \in FreshNames, NEW new, NEW client,
           job[p].scope \in Scopes, new.scope = job[p].scope,
           rows' = rows, job' = [job EXCEPT ![p] = new], deleted' = deleted,
           new.copy.responseRef = job[p].copy.responseRef, new.copy.secretRef = ref,
           vault' = [vault EXCEPT ![ref] = ClientSecret(client)]
    PROVE  VaultInv'
<1>0. /\ TypeInv
      /\ new.copy.responseRef = job[p].copy.responseRef \/ new.copy.responseRef = ref
      /\ new.copy.secretRef = job[p].copy.secretRef \/ new.copy.secretRef = ref
    BY DEF IInv
<1>1. NamedOnly(ref, new)
    BY <1>0, FreshMoves
<1>2. ref \in Refs /\ new.copy.responseRef # ref
    BY DEF FreshNames, Referred
<1>3. \A t \in Scopes, r \in Refs : Keeps(t, r)' => Keeps(t, r) /\ r # ref
    BY <1>1, <1>2 DEF NamedOnly
<1>4. \A r \in Refs : vault'[r] = IF r = ref THEN ClientSecret(client) ELSE vault[r]
    BY <1>2 DEF IInv, TypeInv, OAuthTypeOK
<1>5. ClientSecret(client).access = 0
    BY DEF ClientSecret, NoSecret
<1> QED BY <1>1, <1>3, <1>4, <1>5 DEF IInv, VaultInv, NamedOnly

LEMMA FreshResponse ==
    ASSUME IInv, NEW p \in Processes, NEW ref \in FreshNames, NEW new, NEW response,
           job[p].scope \in Scopes, new.scope = job[p].scope, response.access # 0,
           rows' = rows, job' = [job EXCEPT ![p] = new], deleted' = deleted,
           new.copy.secretRef = job[p].copy.secretRef, new.copy.responseRef = ref,
           vault' = [vault EXCEPT ![ref] = response]
    PROVE  VaultInv'
<1>0. /\ TypeInv
      /\ new.copy.responseRef = job[p].copy.responseRef \/ new.copy.responseRef = ref
      /\ new.copy.secretRef = job[p].copy.secretRef \/ new.copy.secretRef = ref
    BY DEF IInv
<1>1. NamedOnly(ref, new)
    BY <1>0, FreshMoves
<1>2. ref \in Refs /\ new.copy.secretRef # ref
    BY DEF FreshNames, Referred
<1>3. \A r \in Refs : IsSecret(r)' => IsSecret(r) /\ r # ref
    BY <1>1, <1>2 DEF NamedOnly
<1>4. \A r \in Refs : vault'[r] = IF r = ref THEN response ELSE vault[r]
    BY <1>2 DEF IInv, TypeInv, OAuthTypeOK
<1>5. \A s, t \in Scopes, r \in Refs : Keeps(s, r)' /\ Keeps(t, r)' => s = t
    BY <1>1 DEF IInv, VaultInv, NamedOnly
<1>6. ASSUME NEW s \in Scopes, NEW r \in Refs, Keeps(s, r)'
      PROVE  /\ vault'[r] = NoSecret \/ vault'[r].access # 0
             /\ s \notin deleted' => vault'[r].access # 0
    <2>1. CASE r = ref
        BY <1>4, <2>1
    <2>2. CASE r # ref
        BY <1>1, <1>4, <1>6, <2>2 DEF IInv, VaultInv, NamedOnly
    <2> QED BY <2>1, <2>2
<1>7. \A r \in Refs : IsSecret(r)' => vault'[r].access = 0
    BY <1>3, <1>4 DEF IInv, VaultInv
<1> QED BY <1>5, <1>6, <1>7 DEF VaultInv

\* A step that changes secrets and its process's own variables.
LEMMA VaultStep ==
    ASSUME IInv, NEW p \in Processes, NEW step \in Steps, NEW new, JobOK(step, new, issued),
           Continue(p, step, new), AsideOK, rows' = rows,
           vault' \in [Refs -> Secret], VaultInv',
           new.scope \in Scopes \ deleted' => JobHolds(step, new, rows[new.scope])
    PROVE  IInv'
<1>1. Global \in Scopes
    BY OAuthAssumption
<1>2. rows' = [rows EXCEPT ![Global] = rows[Global]]
    BY <1>1, SameRows DEF IInv
<1>3. Global \notin deleted' => RowHolds(rows[Global])
    BY <1>1 DEF IInv, CompletedInv, AsideOK
<1>4. CompletedInv'
    <2> DEFINE row == rows[Global]
    <2>1. /\ pc' = [pc EXCEPT ![p] = step] /\ job' = [job EXCEPT ![p] = new]
          /\ rows' = [rows EXCEPT ![Global] = row]
          /\ deleted \subseteq deleted' /\ setting' = setting
          /\ Global \notin deleted' => /\ RowHolds(row)
                                       /\ rows[Global].responseRef # NoRef => row.responseRef # NoRef
                                       /\ Exists(Global) => row # NoRow
          /\ new.scope \in Scopes \ deleted' => JobHolds(step, new, rows'[new.scope])
        BY <1>2, <1>3 DEF Continue, AsideOK, Exists
    <2>2. TypeInv /\ CompletedInv
        BY DEF IInv
    <2> HIDE DEF row
    <2> QED BY <1>1, <2>1, <2>2, StepCompletes
<1>5. RowsOK'
    BY DEF IInv, TypeInv, RowsOK, AsideOK
<1>6. rows' \in [Scopes -> Row \cup {NoRow}]
    BY DEF IInv, TypeInv, OAuthTypeOK
<1>7. TypeInv'
    BY <1>5, <1>6, StepTypes DEF IInv
<1> QED BY <1>4, <1>7 DEF IInv

\* The names in p's own copy.
LEMMA OwnCopy ==
    ASSUME NEW p \in Processes
    PROVE  /\ CopyDrawn(p, job[p])
           /\ job[p].copy.responseRef = NoRef \/ Keeps(job[p].scope, job[p].copy.responseRef)
           /\ job[p].copy.secretRef = NoRef \/ IsSecret(job[p].copy.secretRef)
BY DEF CopyDrawn, Keeps, IsSecret

LEMMA RefsOfRows ==
    ASSUME NEW row \in Row \cup {NoRow}
    PROVE  row.responseRef \in Refs \cup {NoRef} /\ row.secretRef \in Refs \cup {NoRef}
BY DEF Row, NoRow

LEMMA ClientSecretType ==
    ASSUME TypeInv, NEW client \in Clients
    PROVE  ClientSecret(client) \in Secret /\ ClientSecret(client).access = 0
BY IssuedIsNat DEF ClientSecret, Secret, NoSecret

-----------------------------------------------------------------------------
(* The steps of create, update and delete.                                   *)

LEMMA SetClientSecretHolds ==
    ASSUME IInv, NEW p \in Processes, SetClientSecret(p)
    PROVE  IInv'
<1>1. /\ JobOK("settingSecret", job[p], issued) /\ job[p] \in Job /\ job[p] # NoJob
      /\ job[p].scope \in Scopes
      /\ job[p].scope \notin deleted => JobHolds("settingSecret", job[p], rows[job[p].scope])
    BY AtAwait DEF SetClientSecret, Working
<1>2. AsideOK
    BY SameAside DEF SetClientSecret, IInv
<1>3. CASE ~configured
    <2>1. JobOK("inserting", job[p], issued)
        BY <1>1 DEF JobOK, HoldingCopy, HoldingConnection
    <2>2. job[p].scope \in Scopes \ deleted' => JobHolds("inserting", job[p], rows[job[p].scope])
        BY <1>1, <1>2 DEF JobHolds, Removing, HoldingConnection, AsideOK
    <2>3. Continue(p, "inserting", job[p]) /\ UNCHANGED <<rows, vault>>
        BY <1>3 DEF SetClientSecret, GoTo
    <2> QED BY <1>2, <2>1, <2>2, <2>3, OwnCopy, QuietStep DEF Steps
<1>4. CASE configured
    <2>1. PICK ref \in FreshNames :
             /\ SetSecret(ref, ClientSecret(job[p].copy.client))
             /\ Continue(p, "inserting", [job[p] EXCEPT !.copy.secretRef = ref])
        BY <1>4 DEF SetClientSecret
    <2> DEFINE copy == [job[p].copy EXCEPT !.secretRef = ref]
               new == [job[p] EXCEPT !.copy = copy]
    <2>2. ref \in Refs /\ job[p].copy \in Row /\ job[p].copy.client \in Clients
        BY <1>1 DEF FreshNames, JobOK, HoldingCopy, Row
    <2>3. /\ copy \in Row /\ copy.expires = job[p].copy.expires /\ copy.status = job[p].copy.status
          /\ copy.responseRef = job[p].copy.responseRef /\ copy.secretRef = ref
        BY <2>2 DEF Row
    <2>4. Continue(p, "inserting", new)
        BY <2>1
    <2> HIDE DEF copy
    <2>5. /\ new \in Job /\ new.copy = copy /\ new.scope = job[p].scope /\ new.kind = job[p].kind
          /\ new.status = job[p].status /\ new.access = job[p].access
          /\ new.connection = job[p].connection /\ new.client = job[p].client
        BY <1>1, <2>3 DEF Job
    <2>6. new # NoJob
        BY <1>1, <2>5, OAuthAssumption DEF NoJob
    <2> HIDE DEF new
    <2>7. JobOK("inserting", new, issued)
        BY <1>1, <2>3, <2>5, <2>6 DEF JobOK, HoldingCopy, HoldingConnection
    <2>8. new.scope \in Scopes \ deleted' => JobHolds("inserting", new, rows[new.scope])
        BY <1>1, <1>2, <2>3, <2>5 DEF JobHolds, RowHolds, Removing, HoldingConnection, AsideOK
    <2>9. vault' \in [Refs -> Secret]
        BY <2>1, <2>2, ClientSecretType DEF SetSecret, IInv, TypeInv, OAuthTypeOK
    <2>10. VaultInv'
        <3>1. /\ rows' = rows /\ job' = [job EXCEPT ![p] = new] /\ deleted' = deleted
              /\ vault' = [vault EXCEPT ![ref] = ClientSecret(job[p].copy.client)]
            BY <2>1, <2>4 DEF SetClientSecret, SetSecret, Continue, history
        <3> QED BY <1>1, <2>3, <2>5, <3>1, FreshClientSecret
    <2> QED BY <1>2, <2>4, <2>7, <2>8, <2>9, <2>10, VaultStep DEF SetClientSecret, Steps
<1> QED BY <1>3, <1>4

LEMMA InsertHolds ==
    ASSUME IInv, NEW p \in Processes, Insert(p)
    PROVE  IInv'
<1> DEFINE s == job[p].scope
           row == job[p].copy
<1>1. /\ JobOK("inserting", job[p], issued) /\ job[p] \in Job /\ job[p] # NoJob
      /\ s \in Scopes /\ issued \in Nat /\ Working(p)
      /\ s \notin deleted => JobHolds("inserting", job[p], rows[s])
    BY AtAwait DEF Insert, Working
<1>2. row \in Row /\ row.expires \in 0..issued
    BY <1>1 DEF JobOK, HoldingCopy
<1>3. CASE Exists(s)
    <2>1. BreakOff(p) /\ UNCHANGED <<rows, vault, providerVars, soon, setting, deleted>>
          /\ disruptions' \in 0..setting.disruptions
        BY <1>3 DEF Insert, IInv, TypeInv, OAuthTypeOK
    <2> QED BY <1>1, <2>1, BreakOffStep
<1>4. CASE ~Exists(s)
    <2>1. /\ rows' = [rows EXCEPT ![s] = row] /\ rows'[s] = row /\ vault' = vault
          /\ row.responseRef = NoRef \/ Keeps(s, row.responseRef)
          /\ row.secretRef = NoRef \/ IsSecret(row.secretRef)
        BY <1>1, <1>4, OwnCopy DEF Insert, IInv, TypeInv, OAuthTypeOK
    <2>2. AsideOK
        BY <1>4, SameAside DEF Insert, IInv, history
    <2>3. s \notin deleted' => /\ RowHolds(row)
                               /\ rows[s].responseRef # NoRef => row.responseRef # NoRef
                               /\ Exists(s) => row # NoRow
        BY <1>1, <1>4, <2>2, NoRowIsNone DEF JobHolds, Exists, AsideOK
    <2>4. CASE End(p)
        <3>1. JobOK("idle", NoJob, issued) /\ CopyDrawn(p, NoJob) /\ NoJob.scope \notin Scopes
            BY <1>1, NoJobOK, EmptyHanded DEF CopyDrawn, IInv
        <3> HIDE DEF s, row
        <3> QED BY <1>1, <1>2, <2>1, <2>2, <2>3, <2>4, <3>1, WriteStep DEF End, Steps
    <2>5. CASE Continue(p, "fetching", [job[p] EXCEPT !.connection = row, !.copy = NoRow])
        <3> DEFINE new == [job[p] EXCEPT !.connection = row, !.copy = NoRow]
        <3>1. /\ new \in Job /\ new.copy = NoRow /\ new.scope = s /\ new.kind = job[p].kind
              /\ new.status = job[p].status /\ new.access = job[p].access
              /\ new.connection = row /\ new.client = job[p].client
            BY <1>1, <1>2 DEF Job
        <3>2. new # NoJob
            BY <1>1, <3>1, OAuthAssumption DEF NoJob
        <3> HIDE DEF new, s, row
        <3>3. JobOK("fetching", new, issued)
            BY <1>1, <1>2, <3>1, <3>2, NoRowIsNone DEF JobOK, HoldingCopy, HoldingConnection
        <3>4. CopyDrawn(p, new)
            BY <3>1, NoRowIsNone DEF CopyDrawn
        <3>5. JobHolds("fetching", new, rows'[new.scope])
            BY <1>2, <2>1, <3>1, NoRowIsNone DEF JobHolds, RowHolds, Removing
        <3>6. Continue(p, "fetching", new)
            BY <2>5 DEF new
        <3> QED BY <1>1, <1>2, <2>1, <2>2, <2>3, <3>3, <3>4, <3>5, <3>6, WriteStep DEF Steps
    <2> QED BY <1>4, <2>4, <2>5 DEF Insert
<1> QED BY <1>3, <1>4

\* A request that takes another copy.
WithCopy(p, copy) == [job[p] EXCEPT !.copy = copy]

LEMMA WithCopyFields ==
    ASSUME IInv, NEW p \in Processes, Working(p), NEW copy \in Row \cup {NoRow}
    PROVE  /\ WithCopy(p, copy) \in Job /\ WithCopy(p, copy) # NoJob
           /\ WithCopy(p, copy).copy = copy /\ WithCopy(p, copy).scope = job[p].scope
           /\ WithCopy(p, copy).kind = job[p].kind /\ WithCopy(p, copy).status = job[p].status
           /\ WithCopy(p, copy).access = job[p].access
           /\ WithCopy(p, copy).connection = job[p].connection
           /\ WithCopy(p, copy).client = job[p].client
<1>1. job[p] \in Job /\ job[p].scope \in Scopes
    BY AtAwait
<1>2. /\ WithCopy(p, copy) \in Job /\ WithCopy(p, copy).scope = job[p].scope
      /\ WithCopy(p, copy).copy = copy
      /\ WithCopy(p, copy).kind = job[p].kind /\ WithCopy(p, copy).status = job[p].status
      /\ WithCopy(p, copy).access = job[p].access
      /\ WithCopy(p, copy).connection = job[p].connection
      /\ WithCopy(p, copy).client = job[p].client
    BY <1>1 DEF WithCopy, Job
<1>3. WithCopy(p, copy) # NoJob
    BY <1>1, <1>2, OAuthAssumption DEF NoJob
<1> QED BY <1>2, <1>3

LEMMA ReadToUpdateHolds ==
    ASSUME IInv, NEW p \in Processes, ReadToUpdate(p)
    PROVE  IInv'
<1> DEFINE s == job[p].scope
           client == job[p].client
           row == rows[s]
           copy == IF client = NoClient THEN row
                   ELSE [row EXCEPT !.client = client, !.status = "not_connected"]
           new == WithCopy(p, copy)
           step == IF client # NoClient /\ HasSecret(client) THEN "changingSecret" ELSE "writing"
<1>1. /\ JobOK("changing", job[p], issued) /\ job[p] \in Job /\ s \in Scopes /\ Working(p)
      /\ row \in Row \cup {NoRow} /\ row.expires \in 0..issued
      /\ s \notin deleted => JobHolds("changing", job[p], row) /\ RowHolds(row)
    BY AtAwait DEF ReadToUpdate, Working
<1>2. AsideOK /\ UNCHANGED <<rows, vault>>
    BY SameAside DEF ReadToUpdate, IInv
<1>3. CASE ~Exists(s)
    BY <1>2, <1>3, EndStep DEF ReadToUpdate
<1>4. CASE Exists(s)
    <2>1. Continue(p, step, new)
        <3>1. CASE client = NoClient
            BY <1>4, <3>1 DEF ReadToUpdate, WithCopy
        <3>2. CASE client # NoClient
            BY <1>4, <3>2 DEF ReadToUpdate, WithCopy
        <3> QED BY <3>1, <3>2
    <2>2. step \in {"changingSecret", "writing"}
        OBVIOUS
    <2>3. /\ copy \in Row /\ copy.expires = row.expires /\ copy.responseRef = row.responseRef
          /\ copy.secretRef = row.secretRef /\ copy.status \in {row.status, "not_connected"}
        <3>1. row \in Row /\ client \in Clients \cup {NoClient}
            BY <1>1, <1>4 DEF Exists, Job
        <3> HIDE DEF row, client
        <3> QED BY <3>1 DEF Row, Statuses, OAuthStatus
    <2> HIDE DEF copy, step
    <2>4. /\ new \in Job /\ new # NoJob /\ new.copy = copy /\ new.scope = s /\ new.kind = job[p].kind
          /\ new.status = job[p].status /\ new.access = job[p].access
          /\ new.connection = job[p].connection
        BY <1>1, <2>3, WithCopyFields
    <2> HIDE DEF new
    <2>5. JobOK(step, new, issued)
        BY <1>1, <2>2, <2>3, <2>4 DEF JobOK, HoldingCopy, HoldingConnection
    <2>6. CopyDrawn(p, new)
        BY <1>1, <2>3, <2>4 DEF CopyDrawn
    <2>7. s \notin deleted => JobHolds(step, new, row)
        BY <1>1, <2>2, <2>3, <2>4 DEF JobHolds, RowHolds, Removing, HoldingConnection
    <2> QED BY <1>2, <2>1, <2>2, <2>4, <2>5, <2>6, <2>7, QuietStep DEF AsideOK, Steps
<1> QED BY <1>3, <1>4

LEMMA ChangeSecretHolds ==
    ASSUME IInv, NEW p \in Processes, ChangeSecret(p)
    PROVE  IInv'
<1> DEFINE s == job[p].scope
           row == job[p].copy
           secret == ClientSecret(job[p].client)
<1>1. /\ JobOK("changingSecret", job[p], issued) /\ job[p] \in Job /\ job[p] # NoJob
      /\ s \in Scopes /\ Working(p)
      /\ s \notin deleted => JobHolds("changingSecret", job[p], rows[s])
    BY AtAwait DEF ChangeSecret, Working
<1>2. row \in Row /\ row.secretRef \in Refs \cup {NoRef} /\ row.expires \in 0..issued
    BY <1>1 DEF JobOK, HoldingCopy, Row
<1>3. secret \in Secret /\ secret.access = 0
    BY <1>1, IssuedIsNat DEF IInv, Job, ClientSecret, Secret, NoSecret
<1>4. CASE BreakOff(p) /\ UNCHANGED vault
    BY <1>1, <1>4, BreakOffStep DEF ChangeSecret, IInv, TypeInv, OAuthTypeOK
<1>5. CASE UNCHANGED <<disturbed, lostTokens>>
    <2>1. AsideOK
        BY <1>5, SameAside DEF ChangeSecret, IInv, history
    <2>2. JobOK("writing", job[p], issued)
        BY <1>1 DEF JobOK, HoldingCopy, HoldingConnection
    <2>3. s \in Scopes \ deleted' => JobHolds("writing", job[p], rows[s])
        BY <1>1, <2>1 DEF JobHolds, Removing, HoldingConnection, AsideOK
    <2>4. CASE GoTo(p, "writing") /\ UNCHANGED vault
        BY <2>1, <2>2, <2>3, <2>4, OwnCopy, QuietStep DEF ChangeSecret, GoTo, Steps
    <2>5. CASE Settable(row.secretRef) /\ SetSecret(row.secretRef, secret) /\ GoTo(p, "writing")
        <3> DEFINE ref == row.secretRef
        <3>1. ref \in Refs /\ IsSecret(ref) /\ vault[ref] # NoSecret
            BY <1>2, <2>5, OwnCopy DEF Settable
        <3>2. /\ vault' = [vault EXCEPT ![ref] = secret] /\ rows' = rows /\ deleted' = deleted
              /\ job' = [job EXCEPT ![p] = job[p]] /\ Continue(p, "writing", job[p])
            BY <2>5 DEF ChangeSecret, SetSecret, GoTo, Continue, history
        <3>3. /\ \A t \in Scopes, r \in Refs : Keeps(t, r)' => Keeps(t, r)
              /\ \A r \in Refs : IsSecret(r)' => IsSecret(r)
            BY <3>2 DEF Keeps, IsSecret, IInv, TypeInv, OAuthTypeOK
        <3>4. \A t \in Scopes : ~Keeps(t, ref)
            BY <3>1 DEF IInv, VaultInv
        <3>5. vault \in [Refs -> Secret] /\ vault' \in [Refs -> Secret]
            BY <1>3, <3>1, <3>2 DEF IInv, TypeInv, OAuthTypeOK
        <3> HIDE DEF ref, secret
        <3>6. VaultInv'
            BY <1>3, <3>1, <3>2, <3>3, <3>4, <3>5, SetNames DEF IInv
        <3> QED BY <2>1, <2>2, <2>3, <3>2, <3>5, <3>6, VaultStep DEF Steps
    <2>6. CASE \E ref \in FreshNames :
                  /\ SetSecret(ref, secret)
                  /\ Continue(p, "writing", [job[p] EXCEPT !.copy.secretRef = ref])
        <3>1. PICK ref \in FreshNames :
                  /\ SetSecret(ref, secret)
                  /\ Continue(p, "writing", [job[p] EXCEPT !.copy.secretRef = ref])
            BY <2>6
        <3> DEFINE copy == [row EXCEPT !.secretRef = ref]
                   new == WithCopy(p, copy)
        <3>2. /\ copy \in Row /\ copy.expires = row.expires /\ copy.status = row.status
              /\ copy.responseRef = row.responseRef /\ copy.secretRef = ref /\ ref \in Refs
            BY <1>2 DEF Row, FreshNames
        <3>3. Continue(p, "writing", new)
            BY <3>1 DEF WithCopy
        <3> HIDE DEF copy
        <3>4. /\ new \in Job /\ new # NoJob /\ new.copy = copy /\ new.scope = s
              /\ new.kind = job[p].kind /\ new.status = job[p].status
              /\ new.access = job[p].access /\ new.connection = job[p].connection
            BY <1>1, <3>2, WithCopyFields
        <3> HIDE DEF new
        <3>5. JobOK("writing", new, issued)
            BY <1>1, <1>2, <3>2, <3>4 DEF JobOK, HoldingCopy, HoldingConnection
        <3>6. new.scope \in Scopes \ deleted' => JobHolds("writing", new, rows[new.scope])
            BY <1>1, <2>1, <3>2, <3>4 DEF JobHolds, RowHolds, Removing, HoldingConnection, AsideOK
        <3>7. vault' \in [Refs -> Secret]
            BY <1>3, <3>1, <3>2 DEF SetSecret, IInv, TypeInv, OAuthTypeOK
        <3>8. VaultInv'
            <4>1. /\ rows' = rows /\ job' = [job EXCEPT ![p] = new] /\ deleted' = deleted
                  /\ vault' = [vault EXCEPT ![ref] = ClientSecret(job[p].client)]
                BY <3>1, <3>3 DEF ChangeSecret, SetSecret, Continue, history
            <4> QED BY <1>1, <3>2, <3>4, <4>1, FreshClientSecret
        <3> QED BY <2>1, <3>3, <3>5, <3>6, <3>7, <3>8, VaultStep DEF ChangeSecret, Steps
    <2> QED BY <1>4, <2>4, <2>5, <2>6 DEF ChangeSecret
<1> QED BY <1>4, <1>5 DEF ChangeSecret

LEMMA MergedRow ==
    ASSUME NEW row \in Row \cup {NoRow}, NEW copy \in Row
    PROVE  /\ Merged(row, copy) \in Row /\ Merged(row, copy).status = copy.status
           /\ Merged(row, copy).responseRef \in {row.responseRef, copy.responseRef}
           /\ Merged(row, copy).secretRef \in {row.secretRef, copy.secretRef}
           /\ Merged(row, copy).expires \in {row.expires, copy.expires}
           /\ row.responseRef # NoRef \/ copy.responseRef # NoRef =>
                 Merged(row, copy).responseRef # NoRef
<1> DEFINE secretRef == IF copy.secretRef = NoRef THEN row.secretRef ELSE copy.secretRef
           responseRef == IF copy.responseRef = NoRef THEN row.responseRef ELSE copy.responseRef
           expires == IF copy.expires = 0 THEN row.expires ELSE copy.expires
           merged == [copy EXCEPT !.secretRef = secretRef, !.responseRef = responseRef,
                                  !.expires = expires]
<1>1. Merged(row, copy) = merged
    BY DEF Merged, Row
<1>2. /\ secretRef \in Refs \cup {NoRef} /\ responseRef \in Refs \cup {NoRef}
      /\ expires \in Tokens
      /\ secretRef \in {row.secretRef, copy.secretRef}
      /\ responseRef \in {row.responseRef, copy.responseRef}
      /\ expires \in {row.expires, copy.expires}
      /\ row.responseRef # NoRef \/ copy.responseRef # NoRef => responseRef # NoRef
    BY OAuthAssumption DEF Row, NoRow, Tokens
<1> HIDE DEF secretRef, responseRef, expires
<1>3. /\ merged \in Row /\ merged.status = copy.status /\ merged.secretRef = secretRef
      /\ merged.responseRef = responseRef /\ merged.expires = expires
    BY <1>2 DEF Row
<1> QED BY <1>1, <1>2, <1>3

\* Writing a copy back.
LEMMA UpsertStep ==
    ASSUME IInv, NEW p \in Processes, Working(p), NEW step \in Steps, NEW new,
           JobOK(step, new, issued), Continue(p, step, new), AsideOK, UNCHANGED vault,
           CopyDrawn(p, new),
           NEW copy \in Row, Upsert(p, copy), copy.expires \in 0..issued,
           copy.responseRef = job[p].copy.responseRef, copy.secretRef = job[p].copy.secretRef,
           job[p].scope \notin deleted => \/ RowHolds(copy)
                                          \/ rows[job[p].scope].responseRef # NoRef,
           new.scope \in Scopes \ deleted' => JobHolds(step, new, Merged(rows[new.scope], copy))
                                              /\ new.scope = job[p].scope
    PROVE  IInv'
<1> DEFINE s == job[p].scope
           row == Merged(rows[s], copy)
<1>1. /\ s \in Scopes /\ rows[s] \in Row \cup {NoRow} /\ rows[s].expires \in 0..issued
      /\ s \notin deleted => RowHolds(rows[s])
    BY AtAwait
<1>2. /\ row \in Row /\ row.status = copy.status
      /\ row.responseRef \in {rows[s].responseRef, copy.responseRef}
      /\ row.secretRef \in {rows[s].secretRef, copy.secretRef}
      /\ row.expires \in {rows[s].expires, copy.expires}
      /\ rows[s].responseRef # NoRef \/ copy.responseRef # NoRef => row.responseRef # NoRef
    BY <1>1, MergedRow
<1>3. rows' = [rows EXCEPT ![s] = row] /\ rows'[s] = row
    <2>1. rows \in [Scopes -> Row \cup {NoRow}]
        BY DEF IInv, TypeInv, OAuthTypeOK
    <2>2. rows' = [rows EXCEPT ![s] = row]
        BY DEF Upsert
    <2> HIDE DEF s, row
    <2> QED BY <1>1, <2>1, <2>2
<1>4. new.scope \in Scopes \ deleted' => JobHolds(step, new, rows'[new.scope])
    BY <1>1, <1>3
<1> HIDE DEF row
<1>7. row.expires \in 0..issued
    BY <1>1, <1>2
<1>5. /\ row.responseRef = NoRef \/ Keeps(s, row.responseRef)
      /\ row.secretRef = NoRef \/ IsSecret(row.secretRef)
    BY <1>1, <1>2 DEF Keeps, IsSecret
<1>6. s \notin deleted' => /\ RowHolds(row)
                           /\ rows[s].responseRef # NoRef => row.responseRef # NoRef
                           /\ Exists(s) => row # NoRow
    BY <1>1, <1>2, NoRowIsNone DEF RowHolds, AsideOK
<1> HIDE DEF s
<1> QED BY <1>1, <1>2, <1>3, <1>4, <1>5, <1>6, <1>7, WriteStep

LEMMA WriteUpdateHolds ==
    ASSUME IInv, NEW p \in Processes, WriteUpdate(p)
    PROVE  IInv'
<1>1. /\ JobOK("writing", job[p], issued) /\ Working(p) /\ issued \in Nat
      /\ job[p].scope \notin deleted => JobHolds("writing", job[p], rows[job[p].scope])
    BY AtAwait DEF WriteUpdate, Working
<1>2. AsideOK /\ UNCHANGED vault
    BY SameAside DEF WriteUpdate, IInv
<1>3. JobOK("idle", NoJob, issued) /\ CopyDrawn(p, NoJob) /\ NoJob.scope \notin Scopes
    BY <1>1, NoJobOK, EmptyHanded DEF CopyDrawn, IInv
<1>4. job[p].copy \in Row /\ job[p].copy.expires \in 0..issued
    BY <1>1 DEF JobOK, HoldingCopy
<1>5. job[p].scope \notin deleted => RowHolds(job[p].copy)
    BY <1>1 DEF JobHolds
<1> QED BY <1>1, <1>2, <1>3, <1>4, <1>5, UpsertStep DEF WriteUpdate, End, Steps

LEMMA ReadToDeleteHolds ==
    ASSUME IInv, NEW p \in Processes, ReadToDelete(p)
    PROVE  IInv'
<1> DEFINE s == job[p].scope
           new == WithCopy(p, rows[s])
           step == IF configured THEN "removingSecret" ELSE "removingRow"
<1>1. /\ JobOK("deleting", job[p], issued) /\ Working(p) /\ s \in Scopes
      /\ rows[s] \in Row \cup {NoRow} /\ rows[s].expires \in 0..issued
    BY AtAwait DEF ReadToDelete, Working
<1>2. AsideOK /\ UNCHANGED <<rows, vault>>
    BY <1>1 DEF ReadToDelete, IInv, TypeInv, OAuthTypeOK, AsideOK, providerVars
<1>3. CASE ~Exists(s)
    BY <1>2, <1>3, EndStep DEF ReadToDelete
<1>4. CASE Exists(s)
    <2>1. Continue(p, step, new) /\ s \in deleted'
        BY <1>4 DEF ReadToDelete, WithCopy
    <2>2. step \in {"removingSecret", "removingRow"}
        OBVIOUS
    <2> HIDE DEF step
    <2>3. /\ new \in Job /\ new # NoJob /\ new.copy = rows[s] /\ new.scope = s
          /\ new.kind = job[p].kind /\ new.status = job[p].status
          /\ new.access = job[p].access /\ new.connection = job[p].connection
        BY <1>1, WithCopyFields
    <2> HIDE DEF new
    <2>4. JobOK(step, new, issued) /\ CopyDrawn(p, new)
        BY <1>1, <2>2, <2>3 DEF JobOK, CopyDrawn, HoldingCopy, HoldingConnection
    <2> QED BY <1>2, <2>1, <2>2, <2>3, <2>4, QuietStep DEF Steps
<1> QED BY <1>3, <1>4

\* A request that deletes has announced it.
LEMMA RemovingDeleted ==
    ASSUME IInv, NEW p \in Processes, pc[p] \in Removing
    PROVE  job[p].scope \in deleted /\ Working(p)
BY AtAwait DEF JobHolds, Removing, Working

\* Deleting a secret of a connection that is deleted.
LEMMA RemoveNames ==
    ASSUME IInv, NEW p \in Processes, pc[p] \in Removing, NEW new,
           new.scope = job[p].scope, new.copy \in {job[p].copy, NoRow},
           rows' = rows, job' = [job EXCEPT ![p] = new], deleted' = deleted,
           NEW ref \in {job[p].copy.secretRef, job[p].copy.responseRef}, Remove(ref)
    PROVE  VaultInv' /\ vault' \in [Refs -> Secret]
<1>1. /\ job[p].scope \in deleted /\ job[p].scope \in Scopes /\ job[p] \in Job
    BY RemovingDeleted, AtAwait
<1>2. /\ \A t \in Scopes, r \in Refs : Keeps(t, r)' => Keeps(t, r)
      /\ \A r \in Refs : IsSecret(r)' => IsSecret(r)
    <2>1. \A q \in Processes : q # p => job'[q] = job[q]
        BY DEF IInv, TypeInv, OAuthTypeOK
    <2>2. job'[p] = new
        BY DEF IInv, TypeInv, OAuthTypeOK
    <2>3. ASSUME NEW t \in Scopes, NEW r \in Refs, Keeps(t, r)' PROVE Keeps(t, r)
        BY <2>1, <2>2, <2>3, NoRowIsNone DEF Keeps
    <2>4. ASSUME NEW r \in Refs, IsSecret(r)' PROVE IsSecret(r)
        BY <2>1, <2>2, <2>4, NoRowIsNone DEF IsSecret
    <2> QED BY <2>3, <2>4
<1>3. NoSecret \in Secret /\ NoSecret.access = 0
    BY IssuedIsNat DEF NoSecret, Secret, IInv
<1>4. CASE ref = NoRef
    <2>1. vault' = vault
        BY <1>4 DEF Remove
    <2> QED BY <1>2, <2>1, SameVault DEF IInv, TypeInv, OAuthTypeOK
<1>5. CASE ref # NoRef
    <2>1. ref \in Refs
        BY <1>1, <1>5 DEF Job, Row, NoRow
    <2>2. vault' = [vault EXCEPT ![ref] = NoSecret] /\ vault' \in [Refs -> Secret]
          /\ vault \in [Refs -> Secret]
        BY <1>3, <1>5 DEF Remove, IInv, TypeInv, OAuthTypeOK
    <2>3. \A t \in Scopes : Keeps(t, ref) => t \in deleted
        <3>1. CASE IsSecret(ref)
            BY <2>1, <3>1 DEF IInv, VaultInv
        <3>2. CASE Keeps(job[p].scope, ref)
            BY <1>1, <2>1, <3>2 DEF IInv, VaultInv
        <3> QED BY <1>5, <3>1, <3>2, OwnCopy
    <2> QED BY <1>2, <1>3, <2>1, <2>2, <2>3, SetNames DEF IInv
<1> QED BY <1>4, <1>5

LEMMA RemoveSecretHolds ==
    ASSUME IInv, NEW p \in Processes, RemoveSecret(p)
    PROVE  IInv'
<1>1. /\ JobOK("removingSecret", job[p], issued) /\ Working(p)
      /\ job[p].scope \in deleted /\ pc[p] \in Removing
    BY AtAwait, RemovingDeleted DEF RemoveSecret, Working, Removing
<1>2. AsideOK /\ rows' = rows /\ deleted' = deleted
    BY SameAside DEF RemoveSecret, IInv, history
<1>3. Continue(p, "removingResponse", job[p]) /\ job' = [job EXCEPT ![p] = job[p]]
    BY DEF RemoveSecret, GoTo, Continue
<1>4. VaultInv' /\ vault' \in [Refs -> Secret]
    BY <1>1, <1>2, <1>3, RemoveNames DEF RemoveSecret
<1>5. JobOK("removingResponse", job[p], issued)
    BY <1>1 DEF JobOK, HoldingCopy, HoldingConnection
<1> QED BY <1>1, <1>2, <1>3, <1>4, <1>5, VaultStep DEF Steps

LEMMA RemoveResponseHolds ==
    ASSUME IInv, NEW p \in Processes, RemoveResponse(p)
    PROVE  IInv'
<1> DEFINE new == WithCopy(p, NoRow)
<1>1. /\ JobOK("removingResponse", job[p], issued) /\ Working(p)
      /\ job[p].scope \in deleted /\ pc[p] \in Removing /\ issued \in Nat
    BY AtAwait, RemovingDeleted DEF RemoveResponse, Working, Removing
<1>2. AsideOK /\ rows' = rows /\ deleted' = deleted
    BY SameAside DEF RemoveResponse, IInv, history
<1>3. Continue(p, "removingRow", new) /\ job' = [job EXCEPT ![p] = new]
    BY DEF RemoveResponse, Continue, WithCopy
<1>4. /\ new \in Job /\ new # NoJob /\ new.copy = NoRow /\ new.scope = job[p].scope
      /\ new.kind = job[p].kind /\ new.status = job[p].status
      /\ new.access = job[p].access /\ new.connection = job[p].connection
    BY <1>1, WithCopyFields
<1> HIDE DEF new
<1>5. VaultInv' /\ vault' \in [Refs -> Secret]
    BY <1>1, <1>2, <1>3, <1>4, RemoveNames DEF RemoveResponse
<1>6. JobOK("removingRow", new, issued)
    BY <1>1, <1>4, NoRowIsNone DEF JobOK, HoldingCopy, HoldingConnection
<1> QED BY <1>1, <1>2, <1>3, <1>4, <1>5, <1>6, VaultStep DEF Steps

LEMMA RemoveRowHolds ==
    ASSUME IInv, NEW p \in Processes, RemoveRow(p)
    PROVE  IInv'
<1>1. job[p].scope \in deleted /\ job[p].scope \in Scopes /\ issued \in Nat
    BY AtAwait, RemovingDeleted DEF RemoveRow, Removing
<1>2. AsideOK /\ UNCHANGED vault /\ job[p].scope \in deleted'
    BY <1>1, SameAside DEF RemoveRow, IInv, history
<1>3. JobOK("idle", NoJob, issued) /\ CopyDrawn(p, NoJob) /\ NoJob.scope \notin Scopes
    BY <1>1, NoJobOK, EmptyHanded DEF CopyDrawn, IInv
<1>4. NoRow.expires \in 0..issued /\ NoRow.responseRef = NoRef /\ NoRow.secretRef = NoRef
    BY <1>1, NoRowIsNone
<1>5. /\ Continue(p, "idle", NoJob) /\ rows' = [rows EXCEPT ![job[p].scope] = NoRow]
      /\ "idle" \in Steps /\ NoRow \in Row \cup {NoRow}
    BY DEF RemoveRow, End, Steps
<1> QED BY <1>1, <1>2, <1>3, <1>4, <1>5, WriteStep

-----------------------------------------------------------------------------
(* The steps of an authorization.                                            *)

\* What follows when the status is written, or there was no row to write it to.
LEMMA AnnouncedContinues ==
    ASSUME IInv, NEW p \in Processes, pc[p] \in {"reading", "marking"}, Announced(p)
    PROVE  \E step \in Steps, new \in Job :
              /\ Continue(p, step, new) /\ JobOK(step, new, issued)
              /\ CopyDrawn(p, new) /\ codes' \subseteq Clients
              /\ new.scope \in Scopes =>
                    /\ new.scope = job[p].scope /\ job[p].status = "exchanging"
                    /\ \A row : row # NoRow => JobHolds(step, new, row)
<1>1. /\ JobOK(pc[p], job[p], issued) /\ job[p] \in Job /\ job[p].scope \in Scopes
      /\ issued \in Nat /\ Working(p)
    BY AtAwait DEF Working
<1>2. codes \subseteq Clients
    BY DEF IInv, TypeInv, OAuthTypeOK
<1>3. CASE job[p].status = "exchanging"
    <2> DEFINE new == [job[p] EXCEPT !.status = "none", !.copy = NoRow]
    <2>1. /\ new \in Job /\ new.copy = NoRow /\ new.status = "none" /\ new.scope = job[p].scope
          /\ new.kind = job[p].kind /\ new.access = job[p].access
          /\ new.connection = job[p].connection /\ new.client = job[p].client
        BY <1>1 DEF Job
    <2>2. new # NoJob
        BY <1>1, <2>1, OAuthAssumption DEF NoJob
    <2>3. Continue(p, "fetching", new) /\ codes' \subseteq Clients
        BY <1>2, <1>3 DEF Announced
    <2> HIDE DEF new
    <2>5. JobOK("fetching", new, issued)
        BY <1>1, <1>3, <2>1, <2>2, NoRowIsNone DEF JobOK, HoldingCopy, HoldingConnection
    <2>6. CopyDrawn(p, new) /\ \A row : row # NoRow => JobHolds("fetching", new, row)
        BY <2>1, NoRowIsNone DEF CopyDrawn, JobHolds, RowHolds, Removing
    <2> QED BY <1>3, <2>1, <2>3, <2>5, <2>6 DEF Steps
<1>4. CASE job[p].status # "exchanging"
    <2>1. Continue(p, "idle", NoJob)
        BY <1>4 DEF Announced, End
    <2>2. codes' \subseteq Clients
        BY <1>1, <1>2, <1>4 DEF Announced, JobOK
    <2>3. JobOK("idle", NoJob, issued) /\ CopyDrawn(p, NoJob) /\ NoJob.scope \notin Scopes
        BY <1>1, NoJobOK, EmptyHanded DEF CopyDrawn, IInv
    <2>4. NoJob \in Job
        BY <2>3 DEF JobOK
    <2> QED BY <2>1, <2>2, <2>3, <2>4 DEF Steps
<1> QED BY <1>3, <1>4

LEMMA ReadStatusHolds ==
    ASSUME IInv, NEW p \in Processes, ReadStatus(p)
    PROVE  IInv'
<1> DEFINE s == job[p].scope
<1>1. /\ JobOK("reading", job[p], issued) /\ Working(p) /\ s \in Scopes
      /\ rows[s] \in Row \cup {NoRow} /\ rows[s].expires \in 0..issued
      /\ s \notin deleted => JobHolds("reading", job[p], rows[s]) /\ RowHolds(rows[s])
    BY AtAwait DEF ReadStatus, Working
<1>2. codes' \subseteq Clients => AsideOK /\ deleted' = deleted
    BY DEF ReadStatus, IInv, TypeInv, OAuthTypeOK, AsideOK, history
<1>3. UNCHANGED <<rows, vault>>
    BY DEF ReadStatus
<1>4. CASE Exists(s)
    <2> DEFINE new == WithCopy(p, rows[s])
    <2>1. Continue(p, "marking", new) /\ codes' = codes
        BY <1>4 DEF ReadStatus, WithCopy
    <2>2. AsideOK
        BY <1>2, <2>1 DEF IInv, TypeInv, OAuthTypeOK
    <2>3. /\ new \in Job /\ new # NoJob /\ new.copy = rows[s] /\ new.scope = s
          /\ new.kind = job[p].kind /\ new.status = job[p].status
          /\ new.access = job[p].access /\ new.connection = job[p].connection
          /\ new.client = job[p].client
        BY <1>1, WithCopyFields
    <2> HIDE DEF new
    <2>4. JobOK("marking", new, issued) /\ CopyDrawn(p, new)
        BY <1>1, <1>4, <2>3 DEF JobOK, CopyDrawn, HoldingCopy, HoldingConnection, Exists
    <2>5. s \notin deleted => JobHolds("marking", new, rows[s])
        BY <1>1, <2>3 DEF JobHolds, Removing, HoldingConnection
    <2>6. new.scope \in Scopes \ deleted' => JobHolds("marking", new, rows[new.scope])
        BY <2>2, <2>3, <2>5 DEF AsideOK
    <2> QED BY <1>3, <2>1, <2>2, <2>4, <2>6, QuietStep DEF Steps
<1>5. CASE ~Exists(s)
    <2>1. pc[p] \in {"reading", "marking"} /\ Announced(p)
        BY <1>5 DEF ReadStatus
    <2>2. PICK step \in Steps, new \in Job :
              /\ Continue(p, step, new) /\ JobOK(step, new, issued)
              /\ CopyDrawn(p, new) /\ codes' \subseteq Clients
              /\ new.scope \in Scopes =>
                    /\ new.scope = job[p].scope /\ job[p].status = "exchanging"
                    /\ \A row : row # NoRow => JobHolds(step, new, row)
        BY <2>1, AnnouncedContinues
    <2>3. new.scope \in Scopes \ deleted' => JobHolds(step, new, rows[new.scope])
        BY <1>1, <1>2, <1>5, <2>2 DEF JobHolds, Exists
    <2> QED BY <1>2, <1>3, <2>2, <2>3, QuietStep
<1> QED BY <1>4, <1>5

LEMMA MarkStatusHolds ==
    ASSUME IInv, NEW p \in Processes, MarkStatus(p)
    PROVE  IInv'
<1> DEFINE s == job[p].scope
           copy == [job[p].copy EXCEPT !.status = job[p].status]
<1>1. /\ JobOK("marking", job[p], issued) /\ Working(p) /\ s \in Scopes
      /\ rows[s] \in Row \cup {NoRow}
      /\ s \notin deleted => JobHolds("marking", job[p], rows[s])
    BY AtAwait DEF MarkStatus, Working
<1>2. /\ copy \in Row /\ copy.expires \in 0..issued /\ copy.status = job[p].status
      /\ copy.responseRef = job[p].copy.responseRef /\ copy.secretRef = job[p].copy.secretRef
    BY <1>1 DEF JobOK, HoldingCopy, Row
<1>3. PICK step \in Steps, new \in Job :
          /\ Continue(p, step, new) /\ JobOK(step, new, issued)
          /\ CopyDrawn(p, new) /\ codes' \subseteq Clients
          /\ new.scope \in Scopes =>
                /\ new.scope = job[p].scope /\ job[p].status = "exchanging"
                /\ \A row : row # NoRow => JobHolds(step, new, row)
    BY AnnouncedContinues DEF MarkStatus
<1>4. AsideOK /\ UNCHANGED vault
    BY <1>3 DEF MarkStatus, IInv, TypeInv, OAuthTypeOK, AsideOK, history
<1>5. Upsert(p, copy)
    BY DEF MarkStatus
<1> HIDE DEF copy
<1>6. s \notin deleted => RowHolds(copy) \/ rows[s].responseRef # NoRef
    BY <1>1, <1>2 DEF JobHolds, RowHolds
<1>7. new.scope \in Scopes \ deleted' => /\ JobHolds(step, new, Merged(rows[new.scope], copy))
                                         /\ new.scope = s
    BY <1>1, <1>2, <1>3, MergedRow, NoRowIsNone
<1> QED BY <1>1, <1>2, <1>3, <1>4, <1>5, <1>6, <1>7, UpsertStep

-----------------------------------------------------------------------------
(* The steps towards tokens.                                                 *)

LEMMA FindHolds ==
    ASSUME IInv, NEW p \in Processes, Find(p)
    PROVE  IInv'
<1> DEFINE s == Found(job[p].scope)
<1>1. /\ JobOK("finding", job[p], issued) /\ Working(p) /\ job[p].scope \in Scopes
      /\ job[p] \in Job /\ issued \in Nat
    BY AtAwait DEF Find, Working
<1>2. UNCHANGED <<rows, vault>>
    BY DEF Find
<1>3. CASE s = NoScope
    <2>1. AsideOK
        BY <1>3 DEF Find, IInv, TypeInv, OAuthTypeOK, AsideOK, providerVars
    <2> QED BY <1>2, <1>3, <2>1, EndStep DEF Find
<1>4. CASE s # NoScope
    <2>1. s \in Scopes /\ Exists(s) /\ rows[s] \in Row
        BY <1>1, <1>4, FoundExists DEF Exists, IInv, TypeInv, OAuthTypeOK
    <2>2. AsideOK
        BY <1>4, <2>1 DEF Find, IInv, TypeInv, OAuthTypeOK, AsideOK, providerVars, Overlapping
    <2> DEFINE new == [job[p] EXCEPT !.scope = s, !.connection = rows[s]]
    <2>3. Continue(p, "fetching", new)
        BY <1>4 DEF Find
    <2> HIDE DEF s
    <2>4. /\ new \in Job /\ new.copy = job[p].copy /\ new.status = job[p].status /\ new.scope = s
          /\ new.kind = job[p].kind /\ new.access = job[p].access
          /\ new.connection = rows[s] /\ new.client = job[p].client
        BY <1>1, <2>1 DEF Job
    <2>5. new # NoJob /\ job[p].copy = NoRow
        BY <1>1, <2>1, <2>4, OAuthAssumption DEF NoJob, JobOK
    <2> HIDE DEF new
    <2>6. JobOK("fetching", new, issued)
        BY <1>1, <2>1, <2>4, <2>5 DEF JobOK, HoldingCopy, HoldingConnection
    <2>7. CopyDrawn(p, new) /\ JobHolds("fetching", new, rows[new.scope])
        BY <2>1, <2>4, <2>5, NoRowIsNone DEF CopyDrawn, JobHolds, RowHolds, Removing, Exists
    <2> QED BY <1>2, <2>2, <2>3, <2>6, <2>7, QuietStep DEF Steps
<1> QED BY <1>3, <1>4

\* Going on with another value of a local variable that nothing depends on.
LEMMA WithSecretHolds ==
    ASSUME IInv, NEW p \in Processes, pc[p] = "fetching",
           NEW secret \in Clients \cup {NoClient}, WithSecret(p, secret), AsideOK,
           UNCHANGED <<rows, vault>>
    PROVE  IInv'
<1>1. /\ JobOK("fetching", job[p], issued) /\ Working(p) /\ job[p] \in Job
      /\ job[p].scope \in Scopes
      /\ job[p].scope \notin deleted => JobHolds("fetching", job[p], rows[job[p].scope])
    BY AtAwait DEF Working
<1>2. CASE End(p)
    BY <1>2, EndStep
<1>3. CASE job[p].kind = "create" /\ Announce(p, "failed")
    BY <1>1, <1>3, AnnounceFailure
<1>4. CASE \E step \in {"fetchingResponse", "asking"} :
              Continue(p, step, [job[p] EXCEPT !.secret = secret])
    <2>1. PICK step \in {"fetchingResponse", "asking"} :
              Continue(p, step, [job[p] EXCEPT !.secret = secret])
        BY <1>4
    <2> DEFINE new == [job[p] EXCEPT !.secret = secret]
    <2>2. /\ new \in Job /\ new.copy = job[p].copy /\ new.status = job[p].status
          /\ new.scope = job[p].scope
          /\ new.kind = job[p].kind /\ new.access = job[p].access
          /\ new.connection = job[p].connection /\ new.client = job[p].client
        BY <1>1 DEF Job
    <2>3. new # NoJob
        BY <1>1, <2>2, OAuthAssumption DEF NoJob
    <2> HIDE DEF new
    <2>4. JobOK(step, new, issued)
        BY <1>1, <2>2, <2>3 DEF JobOK, HoldingCopy, HoldingConnection
    <2>5. CopyDrawn(p, new)
        BY <2>2 DEF CopyDrawn
    <2>6. new.scope \in Scopes \ deleted' => JobHolds(step, new, rows[new.scope])
        BY <1>1, <2>2 DEF AsideOK, JobHolds, HoldingConnection, Removing
    <2> QED BY <2>1, <2>4, <2>5, <2>6, QuietStep DEF Steps, new
<1> QED BY <1>2, <1>3, <1>4 DEF WithSecret

LEMMA FetchedType ==
    ASSUME TypeInv, NEW ref \in Refs \cup {NoRef}
    PROVE  Fetched(ref) \in Secret
BY IssuedIsNat DEF Fetched, NoSecret, Secret, TypeInv, OAuthTypeOK

LEMMA FetchSecretHolds ==
    ASSUME IInv, NEW p \in Processes, FetchSecret(p)
    PROVE  IInv'
<1> DEFINE secret == IF configured THEN Fetched(job[p].connection.secretRef).client ELSE NoClient
<1>1. JobOK("fetching", job[p], issued)
    BY AtAwait DEF FetchSecret, Working
<1>2. job[p].connection.secretRef \in Refs \cup {NoRef}
    BY <1>1, RefsOfRows DEF JobOK, HoldingConnection
<1>3. secret \in Clients \cup {NoClient}
    BY <1>2, FetchedType DEF Secret, IInv
<1>4. AsideOK /\ UNCHANGED <<rows, vault>>
    BY SameAside DEF FetchSecret, IInv
<1>5. WithSecret(p, secret) /\ pc[p] = "fetching"
    BY DEF FetchSecret
<1> HIDE DEF secret
<1> QED BY <1>3, <1>4, <1>5, WithSecretHolds

LEMMA FetchResponseHolds ==
    ASSUME IInv, NEW p \in Processes, FetchResponse(p)
    PROVE  IInv'
<1> DEFINE refresh == Fetched(job[p].connection.responseRef).refresh
           new == [job[p] EXCEPT !.refresh = refresh]
<1>1. /\ JobOK("fetchingResponse", job[p], issued) /\ job[p] \in Job /\ job[p].scope \in Scopes
      /\ job[p].scope \notin deleted => JobHolds("fetchingResponse", job[p], rows[job[p].scope])
    BY AtAwait DEF FetchResponse, Working
<1>2. AsideOK /\ UNCHANGED <<rows, vault>>
    BY SameAside DEF FetchResponse, IInv
<1>3. CASE End(p)
    BY <1>2, <1>3, EndStep
<1>4. CASE Continue(p, "asking", new)
    <2>1. refresh \in Tokens
        <3>1. job[p].connection.responseRef \in Refs \cup {NoRef}
            BY <1>1, RefsOfRows DEF JobOK, HoldingConnection
        <3> QED BY <3>1, FetchedType DEF Secret, IInv
    <2> HIDE DEF refresh
    <2>2. /\ new \in Job /\ new.copy = job[p].copy /\ new.status = job[p].status
          /\ new.scope = job[p].scope
          /\ new.kind = job[p].kind /\ new.access = job[p].access
          /\ new.connection = job[p].connection /\ new.client = job[p].client
        BY <1>1, <2>1 DEF Job
    <2>3. new # NoJob
        BY <1>1, <2>2, OAuthAssumption DEF NoJob
    <2> HIDE DEF new
    <2>4. JobOK("asking", new, issued)
        BY <1>1, <2>2, <2>3 DEF JobOK, HoldingCopy, HoldingConnection
    <2>5. CopyDrawn(p, new)
        BY <2>2 DEF CopyDrawn
    <2>6. new.scope \in Scopes \ deleted' => JobHolds("asking", new, rows[new.scope])
        BY <1>1, <1>2, <2>2 DEF AsideOK, JobHolds, HoldingConnection, Removing
    <2> QED BY <1>2, <1>4, <2>4, <2>5, <2>6, QuietStep DEF Steps
<1> QED BY <1>3, <1>4 DEF FetchResponse

\* A refused request.
LEMMA RefusedHolds ==
    ASSUME IInv, NEW p \in Processes, pc[p] = "asking", Refused(p), AsideOK,
           UNCHANGED <<rows, vault>>
    PROVE  IInv'
<1>1. JobOK("asking", job[p], issued) /\ Working(p)
    BY AtAwait DEF Working
<1>2. job[p].kind # "authorize"
    BY <1>1 DEF JobOK
<1> QED BY <1>1, <1>2, EndStep, AnnounceFailure DEF Refused

LEMMA RefuseHolds ==
    ASSUME IInv, NEW p \in Processes, Refuse(p)
    PROVE  IInv'
BY RefusedHolds, SameAside DEF Refuse, IInv

LEMMA FindUnreachableHolds ==
    ASSUME IInv, NEW p \in Processes, FindUnreachable(p)
    PROVE  IInv'
<1>1. job[p].scope \in Scopes
    BY AtAwait DEF FindUnreachable, Working
<1>2. AsideOK
    BY <1>1, IssuedIsNat DEF FindUnreachable, Disrupt, IInv, TypeInv, OAuthTypeOK, AsideOK, providerVars
<1> QED BY <1>2, RefusedHolds DEF FindUnreachable

\* A step by which the provider issues a token.
LEMMA IssueStep ==
    ASSUME IInv, NEW p \in Processes, pc[p] = "asking", CanIssue,
           NEW refresh \in NewRefreshTokens(p), Issue(p, refresh),
           NEW step \in Steps, NEW new, JobOK(step, new, issued + 1), Continue(p, step, new),
           CopyDrawn(p, new), UNCHANGED <<rows, vault, soon, setting, deleted>>,
           disturbed' \subseteq Scopes, lostTokens' \subseteq Scopes,
           disruptions' \in 0..setting.disruptions,
           new.scope \in Scopes \ deleted => JobHolds(step, new, rows[new.scope])
    PROVE  IInv'
<1>1. /\ issued \in Nat /\ issued' = issued + 1 /\ issued' \in Nat /\ issued <= issued'
      /\ issued' \in 0..setting.tokens /\ issued' \in 1..MaxTokens
      /\ JobOK(step, new, issued')
    BY IssuedIsNat, OAuthAssumption DEF Issue, CanIssue, IInv, Tokens
<1>2. job[p].connection.client \in Clients
    <2>1. JobOK("asking", job[p], issued)
        BY AtAwait DEF Working
    <2> QED BY <2>1 DEF JobOK, HoldingConnection, Row
<1>3. refresh \in 0..issued'
    BY <1>1 DEF NewRefreshTokens
<1>4. holder' \in [1..MaxTokens -> Clients \cup {NoClient}]
    BY <1>1, <1>2 DEF Issue, IInv, TypeInv, OAuthTypeOK
<1>5. usable' \subseteq 1..issued' /\ soon' \subseteq 1..issued'
    <2>1. usable \subseteq 1..issued /\ soon \subseteq 1..issued /\ soon' = soon
        BY DEF IInv, TypeInv, OAuthTypeOK
    <2>2. usable' \subseteq usable \cup ({refresh} \ {0})
        BY DEF Issue
    <2>3. 1..issued \subseteq 1..issued' /\ {refresh} \ {0} \subseteq 1..issued'
        BY <1>1, <1>3
    <2> QED BY <2>1, <2>2, <2>3
<1>6. codes' \subseteq Clients
    BY DEF Issue, IInv, TypeInv, OAuthTypeOK
<1>7. TypeInv'
    <2>1. pc' \in [Processes -> Steps] /\ job' \in [Processes -> Job] /\ JobsOK'
        BY <1>1, ContinueTypes DEF Continue, IInv
    <2>2. \A q \in Processes :
              /\ pc'[q] \in {"completing", "marking", "writing"} => job'[q].copy \in Row
              /\ pc'[q] \in {"fetching", "asking"} => job'[q].connection \in Row
        BY <2>1 DEF JobsOK, JobOK, HoldingCopy, HoldingConnection
    <2>3. RowsOK'
        <3>1. 0..issued \subseteq 0..issued'
            BY <1>1
        <3> QED BY <3>1 DEF RowsOK, IInv, TypeInv
    <2> QED BY <1>1, <1>4, <1>5, <1>6, <2>1, <2>2, <2>3 DEF IInv, TypeInv, OAuthTypeOK, JobsOK
<1> DEFINE row == rows[Global]
<1>8. /\ Global \in Scopes /\ rows' = [rows EXCEPT ![Global] = row]
      /\ row \in Row \cup {NoRow}
      /\ row.responseRef = NoRef \/ Keeps(Global, row.responseRef)
      /\ row.secretRef = NoRef \/ IsSecret(row.secretRef)
      /\ Global \notin deleted' => /\ RowHolds(row)
                                   /\ rows[Global].responseRef # NoRef => row.responseRef # NoRef
                                   /\ Exists(Global) => row # NoRow
      /\ new.scope \in Scopes \ deleted' => JobHolds(step, new, rows'[new.scope])
    BY SameRows, OAuthAssumption DEF IInv, CompletedInv, Exists
<1> HIDE DEF row
<1>9. VaultInv'
    <2>1. /\ \A t \in Scopes, r \in Refs : Keeps(t, r)' => Keeps(t, r)
          /\ \A r \in Refs : IsSecret(r)' => IsSecret(r)
        BY <1>8, DrawnIsKept, Moves DEF IInv, Continue
    <2> QED BY <2>1, SameVault DEF IInv
<1>10. CompletedInv'
    BY <1>8, StepCompletes DEF IInv, Continue
<1> QED BY <1>7, <1>9, <1>10 DEF IInv

LEMMA AnswerHolds ==
    ASSUME IInv, NEW p \in Processes, Answer(p)
    PROVE  IInv'
<1>1. PICK refresh \in NewRefreshTokens(p) :
          /\ Issue(p, refresh)
          /\ Continue(p, "loading",
                      [job[p] EXCEPT !.access = issued + 1, !.connection = NoRow, !.secret = NoClient,
                                     !.code = NoClient, !.refresh = IF refresh # 0 THEN refresh ELSE @])
    BY DEF Answer
<1>2. /\ JobOK("asking", job[p], issued) /\ job[p] \in Job /\ job[p].scope \in Scopes
      /\ issued \in Nat
      /\ job[p].scope \notin deleted => JobHolds("asking", job[p], rows[job[p].scope])
    BY AtAwait DEF Answer, Working
<1> DEFINE kept == IF refresh # 0 THEN refresh ELSE job[p].refresh
           new == [job[p] EXCEPT !.access = issued + 1, !.connection = NoRow, !.secret = NoClient,
                                 !.code = NoClient, !.refresh = kept]
<1>3. issued + 1 \in Tokens /\ kept \in Tokens
    <2>1. issued + 1 \in Tokens
        BY <1>2, IssuedIsNat, OAuthAssumption DEF Answer, CanIssue, IInv, Tokens
    <2>2. refresh \in {0, issued + 1} /\ 0 \in Tokens
        BY IssuedIsNat DEF NewRefreshTokens, IInv
    <2> QED BY <1>2, <2>1, <2>2 DEF Job
<1>4. Continue(p, "loading", new)
    BY <1>1
<1> HIDE DEF kept
<1>5. /\ new \in Job /\ new.copy = job[p].copy /\ new.status = job[p].status
      /\ new.scope = job[p].scope /\ new.kind = job[p].kind /\ new.access = issued + 1
      /\ new.connection = NoRow /\ new.client = job[p].client
    BY <1>2, <1>3 DEF Job
<1>6. new # NoJob
    BY <1>2, <1>5, OAuthAssumption DEF NoJob
<1> HIDE DEF new
<1>7. new.status # "exchanging"
    BY <1>2, <1>5 DEF JobOK
<1>8. JobOK("loading", new, issued + 1)
    BY <1>2, <1>5, <1>6, <1>7 DEF JobOK, HoldingCopy, HoldingConnection
<1>9. CopyDrawn(p, new)
    BY <1>5 DEF CopyDrawn
<1>10. new.scope \in Scopes \ deleted => JobHolds("loading", new, rows[new.scope])
    BY <1>2, <1>5 DEF JobHolds, HoldingConnection, Removing
<1>11. /\ UNCHANGED <<rows, vault, soon, setting, deleted>>
       /\ disturbed' \subseteq Scopes /\ lostTokens' \subseteq Scopes
       /\ disruptions' \in 0..setting.disruptions
    BY DEF Answer, IInv, TypeInv, OAuthTypeOK, history
<1> QED BY <1>1, <1>4, <1>8, <1>9, <1>10, <1>11, IssueStep DEF Answer, Steps

LEMMA JobOKMore ==
    ASSUME NEW n \in Nat, NEW step, NEW new, JobOK(step, new, n)
    PROVE  JobOK(step, new, n + 1)
<1>1. 0..n \subseteq 0..(n + 1)
    OBVIOUS
<1> QED BY <1>1 DEF JobOK

LEMMA LoseAnswerHolds ==
    ASSUME IInv, NEW p \in Processes, LoseAnswer(p)
    PROVE  IInv'
<1>1. PICK refresh \in NewRefreshTokens(p) : Issue(p, refresh)
    BY DEF LoseAnswer
<1>2. /\ JobOK("asking", job[p], issued) /\ job[p].scope \in Scopes /\ issued \in Nat
      /\ Working(p)
      /\ job[p].scope \notin deleted => JobHolds("asking", job[p], rows[job[p].scope])
    BY AtAwait DEF LoseAnswer, Working
<1>3. /\ UNCHANGED <<rows, vault, soon, setting, deleted>>
      /\ disturbed' \subseteq Scopes /\ lostTokens' \subseteq Scopes
      /\ disruptions' \in 0..setting.disruptions
    BY <1>2, IssuedIsNat DEF LoseAnswer, Disrupt, IInv, TypeInv, OAuthTypeOK
<1>4. CASE End(p)
    <2>1. JobOK("idle", NoJob, issued + 1) /\ CopyDrawn(p, NoJob) /\ NoJob.scope \notin Scopes
        BY <1>2, NoJobOK, EmptyHanded DEF CopyDrawn, IInv
    <2> QED BY <1>1, <1>3, <1>4, <2>1, IssueStep DEF LoseAnswer, End, Steps
<1>5. CASE Announce(p, "failed")
    <2> DEFINE new == Announcement(p, "failed")
    <2>1. job[p].kind # "authorize"
        BY <1>2 DEF JobOK
    <2>2. /\ JobOK("reading", new, issued) /\ CopyDrawn(p, new)
          /\ JobHolds("reading", new, rows[new.scope])
        BY <1>2, <2>1, AnnouncementOK DEF IInv
    <2>3. Continue(p, "reading", new)
        BY <1>5 DEF Announce, Announcement
    <2> HIDE DEF new
    <2>4. JobOK("reading", new, issued + 1)
        BY <1>2, <2>2, JobOKMore
    <2> QED BY <1>1, <1>3, <2>2, <2>3, <2>4, IssueStep DEF LoseAnswer, Steps
<1>6. CASE UNCHANGED <<pc, job>>
    <2>1. Continue(p, "asking", job[p])
        BY <1>6 DEF Continue, LoseAnswer, IInv, TypeInv, OAuthTypeOK
    <2>2. JobOK("asking", job[p], issued + 1)
        BY <1>2, JobOKMore
    <2> QED BY <1>1, <1>2, <1>3, <2>1, <2>2, OwnCopy, IssueStep DEF LoseAnswer, Steps
<1> QED BY <1>4, <1>5, <1>6 DEF LoseAnswer, Refused

\* After store_tokens: the connection is announced to be completed where its row
\* has tokens, or where there is no Key Vault.
LEMMA StoredContinues ==
    ASSUME IInv, NEW p \in Processes, pc[p] \in {"loading", "keeping", "completing"}, Stored(p)
    PROVE  \E step \in Steps, new \in Job :
              /\ Continue(p, step, new) /\ JobOK(step, new, issued) /\ CopyDrawn(p, new)
              /\ new.scope \in Scopes =>
                    /\ new.scope = job[p].scope
                    /\ \A row : row.responseRef # NoRef \/ ~configured => JobHolds(step, new, row)
<1>1. JobOK(pc[p], job[p], issued) /\ Working(p) /\ issued \in Nat
    BY AtAwait DEF Working
<1>2. CASE End(p)
    <2>1. JobOK("idle", NoJob, issued) /\ CopyDrawn(p, NoJob) /\ NoJob.scope \notin Scopes
        BY <1>1, NoJobOK, EmptyHanded DEF CopyDrawn, IInv
    <2>2. NoJob \in Job
        BY <2>1 DEF JobOK
    <2> QED BY <1>2, <2>1, <2>2 DEF End, Steps
<1>3. CASE Announce(p, "completed")
    <2> DEFINE new == Announcement(p, "completed")
    <2>1. job[p].kind # "authorize"
        BY <1>1 DEF JobOK
    <2>2. /\ JobOK("reading", new, issued) /\ CopyDrawn(p, new) /\ new.scope = job[p].scope
          /\ \A row : row.responseRef # NoRef \/ ~configured => JobHolds("reading", new, row)
        BY <1>1, <2>1, AnnouncementOK DEF IInv
    <2>3. Continue(p, "reading", new)
        BY <1>3 DEF Announce, Announcement
    <2> HIDE DEF new
    <2>4. new \in Job
        BY <2>2 DEF JobOK
    <2> QED BY <2>2, <2>3, <2>4 DEF Steps
<1> QED BY <1>2, <1>3 DEF Stored

LEMMA ReadToStoreHolds ==
    ASSUME IInv, NEW p \in Processes, ReadToStore(p)
    PROVE  IInv'
<1> DEFINE s == job[p].scope
<1>1. /\ JobOK("loading", job[p], issued) /\ Working(p) /\ s \in Scopes
      /\ rows[s] \in Row \cup {NoRow} /\ rows[s].expires \in 0..issued
      /\ s \notin deleted => JobHolds("loading", job[p], rows[s]) /\ RowHolds(rows[s])
    BY AtAwait DEF ReadToStore, Working
<1>2. AsideOK /\ UNCHANGED <<rows, vault>> /\ deleted' = deleted
    BY <1>1 DEF ReadToStore, IInv, TypeInv, OAuthTypeOK, AsideOK, providerVars
<1>3. CASE Exists(s)
    <2> DEFINE new == WithCopy(p, rows[s])
    <2>1. Continue(p, "keeping", new)
        BY <1>3 DEF ReadToStore, WithCopy
    <2>2. /\ new \in Job /\ new # NoJob /\ new.copy = rows[s] /\ new.scope = s
          /\ new.kind = job[p].kind /\ new.status = job[p].status
          /\ new.access = job[p].access /\ new.connection = job[p].connection
          /\ new.client = job[p].client
        BY <1>1, WithCopyFields
    <2> HIDE DEF new
    <2>3. JobOK("keeping", new, issued) /\ CopyDrawn(p, new)
        BY <1>1, <1>3, <2>2 DEF JobOK, CopyDrawn, HoldingCopy, HoldingConnection, Exists
    <2>4. new.scope \in Scopes \ deleted' => JobHolds("keeping", new, rows[new.scope])
        BY <1>1, <1>2, <2>2 DEF JobHolds, Removing, HoldingConnection
    <2> QED BY <1>2, <2>1, <2>3, <2>4, QuietStep DEF Steps
<1>4. CASE ~Exists(s)
    <2>1. Stored(p) /\ pc[p] = "loading"
        BY <1>4 DEF ReadToStore
    <2>2. PICK step \in Steps, new \in Job :
              /\ Continue(p, step, new) /\ JobOK(step, new, issued) /\ CopyDrawn(p, new)
              /\ new.scope \in Scopes =>
                    /\ new.scope = job[p].scope
                    /\ \A row : row.responseRef # NoRef \/ ~configured => JobHolds(step, new, row)
        BY <2>1, StoredContinues
    <2>3. s \in deleted
        BY <1>1, <1>4 DEF JobHolds, Exists
    <2> QED BY <1>2, <2>2, <2>3, QuietStep
<1> QED BY <1>3, <1>4

LEMMA CompleteHolds ==
    ASSUME IInv, NEW p \in Processes, Complete(p)
    PROVE  IInv'
<1> DEFINE s == job[p].scope
           copy == [job[p].copy EXCEPT !.status = "completed", !.expires = job[p].access]
<1>1. /\ JobOK("completing", job[p], issued) /\ job[p] \in Job /\ Working(p) /\ s \in Scopes
      /\ rows[s] \in Row \cup {NoRow}
      /\ s \notin deleted => JobHolds("completing", job[p], rows[s])
    BY AtAwait DEF Complete, Working
<1>2. /\ copy \in Row /\ copy.expires \in 0..issued /\ copy.status = "completed"
      /\ copy.responseRef = job[p].copy.responseRef /\ copy.secretRef = job[p].copy.secretRef
    BY <1>1 DEF JobOK, HoldingCopy, Row, Job, Statuses, OAuthStatus
<1>3. PICK step \in Steps, new \in Job :
          /\ Continue(p, step, new) /\ JobOK(step, new, issued) /\ CopyDrawn(p, new)
          /\ new.scope \in Scopes =>
                /\ new.scope = job[p].scope
                /\ \A row : row.responseRef # NoRef \/ ~configured => JobHolds(step, new, row)
    BY StoredContinues DEF Complete
<1>4. AsideOK /\ UNCHANGED vault /\ Upsert(p, copy)
    BY SameAside DEF Complete, IInv
<1> HIDE DEF copy
<1>5. s \notin deleted => copy.responseRef # NoRef
    BY <1>1, <1>2 DEF JobHolds
<1>6. s \notin deleted => RowHolds(copy) \/ rows[s].responseRef # NoRef
    BY <1>5 DEF RowHolds
<1>7. new.scope \in Scopes \ deleted' => /\ JobHolds(step, new, Merged(rows[new.scope], copy))
                                         /\ new.scope = s
    <2> SUFFICES ASSUME new.scope \in Scopes \ deleted'
                 PROVE  JobHolds(step, new, Merged(rows[new.scope], copy)) /\ new.scope = s
        OBVIOUS
    <2>1. new.scope = s /\ s \notin deleted
        BY <1>3, <1>4 DEF AsideOK
    <2>2. Merged(rows[s], copy).responseRef # NoRef
        BY <1>1, <1>2, <1>5, <2>1, MergedRow
    <2> QED BY <1>3, <2>1, <2>2
<1> QED BY <1>1, <1>2, <1>3, <1>4, <1>6, <1>7, UpsertStep

LEMMA KeepTokensHolds ==
    ASSUME IInv, NEW p \in Processes, KeepTokens(p)
    PROVE  IInv'
<1> DEFINE s == job[p].scope
           row == job[p].copy
           response == [NoSecret EXCEPT !.access = job[p].access, !.refresh = job[p].refresh]
<1>1. /\ JobOK("keeping", job[p], issued) /\ job[p] \in Job /\ job[p] # NoJob
      /\ s \in Scopes /\ Working(p)
      /\ s \notin deleted => JobHolds("keeping", job[p], rows[s])
    BY AtAwait DEF KeepTokens, Working
<1>2. row \in Row /\ row.responseRef \in Refs \cup {NoRef} /\ row.expires \in 0..issued
    BY <1>1 DEF JobOK, HoldingCopy, Row
<1>3. response \in Secret /\ response.access # 0
    BY <1>1 DEF JobOK, Job, Secret, NoSecret
<1>4. CASE Abandon(p) /\ UNCHANGED vault
    BY <1>1, <1>4, AbandonStep DEF KeepTokens, IInv, TypeInv, OAuthTypeOK
<1>5. CASE disturbed' = disturbed /\ lostTokens' \subseteq Scopes
    <2>1. AsideOK /\ deleted' = deleted
        BY <1>5 DEF KeepTokens, IInv, TypeInv, OAuthTypeOK, AsideOK, providerVars
    <2>2. CASE ~configured /\ Stored(p) /\ UNCHANGED vault
        <3>1. PICK step \in Steps, new \in Job :
                  /\ Continue(p, step, new) /\ JobOK(step, new, issued) /\ CopyDrawn(p, new)
                  /\ new.scope \in Scopes =>
                        /\ new.scope = job[p].scope
                        /\ \A any : any.responseRef # NoRef \/ ~configured => JobHolds(step, new, any)
            BY <2>2, StoredContinues DEF KeepTokens
        <3> QED BY <2>1, <2>2, <3>1, QuietStep DEF KeepTokens
    <2>3. CASE Settable(row.responseRef) /\ SetSecret(row.responseRef, response)
               /\ GoTo(p, "completing")
        <3> DEFINE ref == row.responseRef
        <3>1. ref \in Refs /\ Keeps(s, ref) /\ vault[ref] # NoSecret /\ ref # NoRef
            BY <1>2, <2>3, OwnCopy DEF Settable
        <3>2. /\ vault' = [vault EXCEPT ![ref] = response] /\ rows' = rows
              /\ job' = [job EXCEPT ![p] = job[p]] /\ Continue(p, "completing", job[p])
            BY <2>3 DEF KeepTokens, SetSecret, GoTo, Continue
        <3>3. /\ \A t \in Scopes, r \in Refs : Keeps(t, r)' => Keeps(t, r)
              /\ \A r \in Refs : IsSecret(r)' => IsSecret(r)
            BY <3>2 DEF Keeps, IsSecret, IInv, TypeInv, OAuthTypeOK
        <3>4. ~IsSecret(ref)
            BY <1>1, <3>1 DEF IInv, VaultInv
        <3>5. vault \in [Refs -> Secret] /\ vault' \in [Refs -> Secret]
            BY <1>3, <3>1, <3>2 DEF IInv, TypeInv, OAuthTypeOK
        <3>6. JobOK("completing", job[p], issued)
            BY <1>1 DEF JobOK, HoldingCopy, HoldingConnection
        <3>7. s \in Scopes \ deleted' => JobHolds("completing", job[p], rows[s])
            BY <1>1, <2>1, <3>1 DEF JobHolds, Removing, HoldingConnection
        <3> HIDE DEF ref, response
        <3>8. VaultInv'
            BY <1>3, <2>1, <3>1, <3>2, <3>3, <3>4, <3>5, SetNames DEF IInv
        <3> QED BY <2>1, <3>2, <3>5, <3>6, <3>7, <3>8, VaultStep DEF Steps
    <2>4. CASE \E ref \in FreshNames :
                  /\ SetSecret(ref, response)
                  /\ Continue(p, "completing", [job[p] EXCEPT !.copy.responseRef = ref])
        <3>1. PICK ref \in FreshNames :
                  /\ SetSecret(ref, response)
                  /\ Continue(p, "completing", [job[p] EXCEPT !.copy.responseRef = ref])
            BY <2>4
        <3> DEFINE copy == [row EXCEPT !.responseRef = ref]
                   new == WithCopy(p, copy)
        <3>2. /\ copy \in Row /\ copy.expires = row.expires /\ copy.status = row.status
              /\ copy.secretRef = row.secretRef /\ copy.responseRef = ref /\ ref \in Refs
              /\ ref # NoRef
            BY <1>2, OAuthAssumption DEF Row, FreshNames
        <3>3. Continue(p, "completing", new)
            BY <3>1 DEF WithCopy
        <3> HIDE DEF copy
        <3>4. /\ new \in Job /\ new # NoJob /\ new.copy = copy /\ new.scope = s
              /\ new.kind = job[p].kind /\ new.status = job[p].status
              /\ new.access = job[p].access /\ new.connection = job[p].connection
            BY <1>1, <3>2, WithCopyFields
        <3> HIDE DEF new
        <3>5. JobOK("completing", new, issued)
            BY <1>1, <1>2, <3>2, <3>4 DEF JobOK, HoldingCopy, HoldingConnection
        <3>6. new.scope \in Scopes \ deleted' => JobHolds("completing", new, rows[new.scope])
            BY <1>1, <2>1, <3>2, <3>4 DEF JobHolds, RowHolds, Removing, HoldingConnection
        <3>7. vault' = [vault EXCEPT ![ref] = response] /\ vault' \in [Refs -> Secret]
            BY <1>3, <3>1, <3>2 DEF SetSecret, IInv, TypeInv, OAuthTypeOK
        <3> HIDE DEF response
        <3>8. VaultInv'
            <4>1. rows' = rows /\ job' = [job EXCEPT ![p] = new]
                BY <3>3 DEF KeepTokens, Continue
            <4> QED BY <1>1, <1>3, <2>1, <3>2, <3>4, <3>7, <4>1, FreshResponse
        <3> QED BY <2>1, <3>3, <3>5, <3>6, <3>7, <3>8, VaultStep DEF KeepTokens, Steps
    <2> QED BY <1>4, <2>2, <2>3, <2>4 DEF KeepTokens
<1>6. lostTokens \subseteq Scopes
    BY DEF IInv, TypeInv, OAuthTypeOK
<1> QED BY <1>1, <1>4, <1>5, <1>6 DEF KeepTokens

-----------------------------------------------------------------------------
(* Time and failures.                                                        *)

LEMMA AgeHolds ==
    ASSUME IInv, NEW t \in Tokens, Age(t)
    PROVE  IInv'
<1>1. t \in 1..issued
    BY IssuedIsNat DEF Age, IInv, TypeInv, RowsOK
<1>2. TypeInv'
    BY <1>1 DEF Age, IInv, TypeInv, OAuthTypeOK, RowsOK, JobsOK, providerVars, history
<1>3. VaultInv' /\ CompletedInv'
    BY DEF Age, IInv, VaultInv, CompletedInv, Keeps, IsSecret, RowHolds, JobHolds, configured,
           Exists, history
<1> QED BY <1>2, <1>3 DEF IInv

LEMMA FailHolds ==
    ASSUME IInv, NEW p \in Processes, Fail(p)
    PROVE  IInv'
<1>1. /\ UNCHANGED <<rows, vault, providerVars, soon, setting, deleted>>
      /\ disruptions' \in 0..setting.disruptions
    BY IssuedIsNat DEF Fail, Disrupt, IInv, TypeInv, OAuthTypeOK
<1>2. CASE Working(p) /\ Abandon(p)
    BY <1>1, <1>2, AbandonStep
<1>3. CASE disturbed' = disturbed \cup {job[p].scope} /\ UNCHANGED lostTokens /\ Working(p)
    <2>1. /\ JobOK(pc[p], job[p], issued) /\ job[p].scope \in Scopes /\ issued \in Nat
          /\ job[p] \in Job
        BY <1>3, AtAwait
    <2>2. AsideOK
        BY <1>1, <1>3, <2>1 DEF AsideOK, IInv, TypeInv, OAuthTypeOK, providerVars
    <2>3. CASE pc[p] = "removingSecret" /\ GoTo(p, "removingResponse")
        <3>1. job[p].scope \in deleted'
            BY <1>1, <2>3, RemovingDeleted DEF Removing
        <3>2. JobOK("removingResponse", job[p], issued)
            BY <2>1, <2>3 DEF JobOK, HoldingCopy, HoldingConnection
        <3> QED BY <1>1, <2>2, <2>3, <3>1, <3>2, OwnCopy, QuietStep DEF GoTo, Steps
    <2>4. CASE /\ pc[p] = "removingResponse"
               /\ Continue(p, "removingRow", [job[p] EXCEPT !.copy = NoRow])
        <3> DEFINE new == WithCopy(p, NoRow)
        <3>1. job[p].scope \in deleted'
            BY <1>1, <2>4, RemovingDeleted DEF Removing
        <3>2. Continue(p, "removingRow", new)
            BY <2>4 DEF WithCopy
        <3>3. /\ new \in Job /\ new # NoJob /\ new.copy = NoRow /\ new.scope = job[p].scope
              /\ new.kind = job[p].kind /\ new.status = job[p].status
              /\ new.access = job[p].access /\ new.connection = job[p].connection
            BY <1>3, WithCopyFields
        <3> HIDE DEF new
        <3>4. JobOK("removingRow", new, issued) /\ CopyDrawn(p, new)
            BY <2>1, <2>4, <3>3, NoRowIsNone DEF JobOK, CopyDrawn, HoldingCopy, HoldingConnection
        <3> QED BY <1>1, <2>2, <3>1, <3>2, <3>3, <3>4, QuietStep DEF Steps
    <2>5. CASE pc[p] = "fetching" /\ WithSecret(p, NoClient)
        BY <1>1, <2>2, <2>5, WithSecretHolds
    <2> QED BY <1>2, <1>3, <2>3, <2>4, <2>5 DEF Fail, Working
<1> QED BY <1>2, <1>3 DEF Fail, Working

LEMMA DieHolds ==
    ASSUME IInv, NEW p \in Processes, Die(p)
    PROVE  IInv'
BY BreakOffStep, IssuedIsNat DEF Die, Disrupt, IInv, TypeInv, OAuthTypeOK

-----------------------------------------------------------------------------
(* The theorems.                                                             *)

LEMMA InitHolds == OAuthInit => IInv
<1> SUFFICES ASSUME OAuthInit PROVE IInv
    OBVIOUS
<1>1. setting \in Setting /\ setting.tokens \in 0..MaxTokens /\ setting.disruptions \in Nat
    BY SettingAssumption DEF OAuthInit, Setting, Tokens
<1>2. /\ NoSecret \in Secret /\ 0 \in 0..setting.tokens /\ 0 \in 0..setting.disruptions
    BY <1>1, OAuthAssumption DEF NoSecret, Secret, Tokens
<1>3. JobOK("idle", NoJob, 0) /\ NoJob \in Job
    BY NoJobOK DEF JobOK
<1>4. NoJob.copy = NoRow /\ NoJob.scope \notin Scopes
    BY OAuthAssumption DEF NoJob
<1>5. OAuthTypeOK
    BY <1>1, <1>2, <1>3 DEF OAuthInit, OAuthTypeOK, Steps
<1>6. RowsOK /\ JobsOK
    BY <1>3, NoRowIsNone DEF OAuthInit, RowsOK, JobsOK
<1>7. VaultInv
    BY <1>4, NoRowIsNone DEF OAuthInit, VaultInv, Keeps, IsSecret
<1>8. CompletedInv
    BY <1>4, NoRowIsNone DEF OAuthInit, CompletedInv, RowHolds
<1> QED BY <1>5, <1>6, <1>7, <1>8 DEF IInv, TypeInv

LEMMA RequestHolds ==
    ASSUME IInv, NEW p \in Processes, Request(p)
    PROVE  IInv'
<1>1. setting.scope[p] \in Scopes /\ setting.clients \subseteq Clients /\ Global \in Scopes
      /\ setting.flows \subseteq Flows
    BY IssuedIsNat, OAuthAssumption DEF IInv, Setting
<1>2. CASE BeginSweep(p)
    BY <1>1, <1>2, BeginOthersHold
<1>3. CASE \E code \in Clients \cup {NoClient} : BeginCallback(p, code)
    BY <1>1, <1>3, BeginStatusHolds
<1>4. CASE \E flow \in setting.flows, client \in setting.clients :
              BeginCreate(p, setting.scope[p], flow, client)
    BY <1>4, BeginCreateHolds
<1>5. CASE \E client \in setting.clients \cup {NoClient} : BeginUpdate(p, setting.scope[p], client)
    BY <1>1, <1>5, BeginOthersHold
<1>6. CASE BeginDelete(p, setting.scope[p]) \/ BeginRefresh(p, setting.scope[p])
    BY <1>1, <1>6, BeginOthersHold
<1>7. CASE BeginAuthorize(p, setting.scope[p]) \/ BeginCancel(p, setting.scope[p])
    BY <1>1, <1>7, BeginStatusHolds
<1> QED BY <1>2, <1>3, <1>4, <1>5, <1>6, <1>7 DEF Request

LEMMA NextHolds == IInv /\ [OAuthNext]_oauthVars => IInv'
<1> SUFFICES ASSUME IInv, [OAuthNext]_oauthVars PROVE IInv'
    OBVIOUS
<1>1. ASSUME NEW p \in Processes, Progress(p) PROVE IInv'
    BY <1>1, SetClientSecretHolds, InsertHolds, ReadToUpdateHolds, ChangeSecretHolds,
       WriteUpdateHolds, ReadToDeleteHolds, RemoveSecretHolds, RemoveResponseHolds,
       RemoveRowHolds, ReadStatusHolds, MarkStatusHolds, FindHolds, FetchSecretHolds,
       FetchResponseHolds, AnswerHolds, RefuseHolds, ReadToStoreHolds, KeepTokensHolds,
       CompleteHolds DEF Progress
<1>2. ASSUME NEW p \in Processes, Disruption(p) PROVE IInv'
    BY <1>2, FindUnreachableHolds, LoseAnswerHolds, FailHolds, DieHolds DEF Disruption
<1>3. CASE UNCHANGED oauthVars
    <2>1. TypeInv'
        BY <1>3 DEF oauthVars, IInv, TypeInv, OAuthTypeOK, RowsOK, JobsOK, providerVars, history
    <2>2. VaultInv' /\ CompletedInv'
        BY <1>3 DEF oauthVars, IInv, VaultInv, CompletedInv, Keeps, IsSecret, RowHolds, JobHolds,
                    configured, providerVars, history
    <2> QED BY <2>1, <2>2 DEF IInv
<1> QED BY <1>1, <1>2, <1>3, RequestHolds, AgeHolds DEF OAuthNext

\* Rows, secrets and requests keep their type: a request about to write a row
\* holds one (OAuthStorageService), and the provider's numbers stay in order.
THEOREM OAuthTypeCorrect == OAuthSpec => []OAuthTypeOK
<1>1. IInv => OAuthTypeOK
    BY DEF IInv, TypeInv
<1> QED BY <1>1, InitHolds, NextHolds, PTL DEF OAuthSpec

\* A connection shown as completed has its tokens in Key Vault, however many
\* requests overlap, fail or die, as long as nobody deletes it (store_tokens,
\* update_connection, update_connection_status).
THEOREM CompletedHasTokensAlways == OAuthSpec => []CompletedHasTokens
<1>1. ASSUME IInv PROVE CompletedHasTokens
    <2> SUFFICES ASSUME NEW s \in Scopes \ deleted, configured, rows[s].status = "completed"
                 PROVE  rows[s].responseRef # NoRef /\ vault[rows[s].responseRef].access # 0
        BY DEF CompletedHasTokens
    <2>1. rows[s].responseRef # NoRef
        BY <1>1 DEF IInv, CompletedInv, RowHolds
    <2>2. rows[s] \in Row \cup {NoRow}
        BY <1>1 DEF IInv, TypeInv, OAuthTypeOK
    <2>3. Keeps(s, rows[s].responseRef) /\ rows[s].responseRef \in Refs
        BY <2>1, <2>2, RefsOfRows DEF Keeps
    <2> QED BY <1>1, <2>1, <2>3 DEF IInv, VaultInv
<1> QED BY <1>1, InitHolds, NextHolds, PTL DEF OAuthSpec

-----------------------------------------------------------------------------
(* The tokens that are kept: what a request may hold.                        *)

Loaded == {"loading", "keeping"}

\* The refresh token a request holds: read from the connection's secret while it
\* asks, its own and nobody else's until it is kept.
JobFits(step, new) ==
    /\ new.refresh \in 0..issued
    /\ new.refresh # 0 => step \in Loaded \cup {"asking", "completing"}
    /\ step = "fetchingResponse" \/ (step = "asking" /\ new.refresh # 0) => new.kind = "refresh"
    /\ step = "asking" /\ rotates =>
          \A r \in Refs : vault[r].refresh = new.refresh /\ new.refresh # 0 =>
              r = new.connection.responseRef
    /\ step = "asking" /\ ~rotates => new.refresh \in usable \cup {0}
    /\ step \in Loaded => new.refresh \in usable \cup {0}
    /\ step \in Loaded /\ rotates =>
          \A r \in Refs : vault[r].refresh = new.refresh => new.refresh = 0

\* Without Key Vault nothing is kept; what is kept was issued, and where tokens
\* rotate no two secrets hold the same one.
SecretsInv ==
    /\ ~configured => \A r \in Refs : vault[r] = NoSecret
    /\ \A r \in Refs : vault[r].refresh \in 0..issued
    /\ ~rotates => \A r \in Refs : vault[r].refresh \in usable \cup {0}
    /\ rotates => \A r, q \in Refs :
          vault[r].refresh = vault[q].refresh => r = q \/ vault[r].refresh = 0

\* No two requests hold the same refresh token, once one of them has it anew.
HeldApart ==
    rotates => \A p, q \in Processes :
        p # q /\ pc[p] \in Loaded /\ pc[q] \in Loaded \cup {"asking"} =>
            job[p].refresh # job[q].refresh \/ job[p].refresh = 0

\* The connection a request read is the one it works on.
ConnectionsOwn ==
    \A p \in Processes, s \in Scopes :
        Keeps(s, job[p].connection.responseRef) => job[p].scope = s

\* Where no answer was dropped or stored beside another, a connection keeps its
\* tokens under one name, and they are usable or about to be replaced.
KeptInv ==
    \A s \in Scopes \ lostTokens :
        /\ \A r, q \in Refs : Keeps(s, r) /\ Keeps(s, q) => r = q
        /\ \A r \in Refs : Keeps(s, r) =>
              \/ vault[r].refresh \in usable \cup {0}
              \/ \E p \in Processes : job[p].scope = s /\ pc[p] \in Loaded

UsableInv ==
    /\ SecretsInv
    /\ \A p \in Processes : JobFits(pc[p], job[p])
    /\ HeldApart /\ ConnectionsOwn /\ KeptInv

\* The tokens kept for a row are those it speaks of, given the secrets and whom
\* the provider issued each token to; a completed row has such tokens.
Speaks(secrets, holders, row) ==
    /\ row.responseRef # NoRef /\ row.expires # 0
    /\ secrets[row.responseRef].access = row.expires
    /\ holders[row.expires] = row.client
Matches(secrets, holders, row) == row.status = "completed" => Speaks(secrets, holders, row)

SameTokens(copy, row) ==
    copy.client = row.client /\ copy.responseRef = row.responseRef /\ copy.expires = row.expires

\* What a request that nothing overlaps knows of the row it works on.
JobMatches(secrets, holders, step, new, row) ==
    /\ step \notin {"removingResponse", "removingRow", "completing"} =>
          Matches(secrets, holders, row)
    /\ step \in {"settingSecret", "inserting"} => new.copy.status # "completed"
    /\ step \in {"changingSecret", "writing"} /\ new.copy.status = "completed" =>
          row.status = "completed" /\ SameTokens(new.copy, row)
    /\ step = "marking" => row # NoRow /\ SameTokens(new.copy, row)
    /\ step \in {"reading", "marking"} /\ new.status = "completed" =>
          row = NoRow \/ Speaks(secrets, holders, row)
    /\ step \in HoldingConnection \/ new.status = "exchanging" =>
          new.connection.client = row.client
    /\ step \in Loaded => holders[new.access] = row.client
    /\ step = "keeping" => new.copy.client = row.client
    /\ step = "completing" =>
          /\ new.copy.responseRef # NoRef
          /\ secrets[new.copy.responseRef].access = new.access
          /\ holders[new.access] = new.copy.client

MatchInv ==
    configured => \A s \in Scopes \ disturbed :
        /\ \A p, q \in Processes : job[p].scope = s /\ job[q].scope = s => p = q
        /\ (\A p \in Processes : job[p].scope # s) => Matches(vault, holder, rows[s])
        /\ \A p \in Processes :
              job[p].scope = s => JobMatches(vault, holder, pc[p], job[p], rows[s])

FitInv == UsableInv /\ MatchInv

-----------------------------------------------------------------------------
(* Any step, once more.                                                      *)

OthersWait(p) == \A q \in Processes \ {p} : pc'[q] = pc[q] /\ job'[q] = job[q]
NamesStay == \A t \in Scopes, r \in Refs : Keeps(t, r)' => Keeps(t, r)

LEMMA ContinueMoves ==
    ASSUME IInv, NEW p \in Processes, NEW step, NEW new, Continue(p, step, new)
    PROVE  OthersWait(p) /\ pc'[p] = step /\ job'[p] = new
BY DEF Continue, OthersWait, IInv, TypeInv, OAuthTypeOK

\* Names stay where they are, or go from the row to a copy of it and back.
LEMMA NamesStayThen ==
    ASSUME IInv, NEW p \in Processes, OthersWait(p),
           \A t \in Scopes : \/ rows'[t].responseRef \in {NoRef, rows[t].responseRef}
                             \/ /\ t = job[p].scope
                                /\ rows'[t].responseRef = job[p].copy.responseRef,
           \/ job'[p].copy.responseRef = NoRef
           \/ /\ job'[p].scope = job[p].scope
              /\ job'[p].copy.responseRef = job[p].copy.responseRef
           \/ /\ job'[p].scope \in Scopes
              /\ job'[p].copy.responseRef = rows[job'[p].scope].responseRef
    PROVE  NamesStay
<1> SUFFICES ASSUME NEW t \in Scopes, NEW r \in Refs, Keeps(t, r)' PROVE Keeps(t, r)
    BY DEF NamesStay
<1>1. CASE rows'[t].responseRef = r
    BY <1>1 DEF Keeps
<1>2. CASE \E q \in Processes : job'[q].scope = t /\ job'[q].copy.responseRef = r
    <2>1. PICK q \in Processes : job'[q].scope = t /\ job'[q].copy.responseRef = r
        BY <1>2
    <2>2. CASE q = p
        BY <2>1, <2>2 DEF Keeps
    <2>3. CASE q # p
        BY <2>1, <2>3 DEF Keeps, OthersWait
    <2> QED BY <2>2, <2>3
<1> QED BY <1>1, <1>2 DEF Keeps

\* A step that keeps no tokens and for which the provider issues none.
NoTokensKept ==
    /\ vault' = vault \/ configured
    /\ \A r \in Refs : vault'[r].refresh \in {0, vault[r].refresh}

LEMMA UsableStep ==
    ASSUME IInv, UsableInv, NEW p \in Processes, OthersWait(p), NamesStay, NoTokensKept,
           UNCHANGED <<issued, usable, setting>>, lostTokens \subseteq lostTokens',
           JobFits(pc'[p], job'[p]),
           pc'[p] \in Loaded => /\ pc[p] \in Loaded /\ job'[p].scope = job[p].scope
                                /\ job'[p].refresh = job[p].refresh,
           pc'[p] = "asking" => \/ job'[p].refresh = 0
                                \/ \E r \in Refs : vault[r].refresh = job'[p].refresh,
           pc[p] \in Loaded /\ pc'[p] \notin Loaded =>
               job[p].scope \in lostTokens' \/ ~configured,
           job'[p].connection \in Row \cup {NoRow},
           \A s \in Scopes : Keeps(s, job'[p].connection.responseRef) => job'[p].scope = s
    PROVE  UsableInv'
<1>1. SecretsInv'
    BY IssuedIsNat DEF IInv, UsableInv, SecretsInv, NoTokensKept, configured, rotates
<1>2. \A q \in Processes : JobFits(pc[q], job[q])'
    <2> SUFFICES ASSUME NEW q \in Processes PROVE JobFits(pc[q], job[q])'
        OBVIOUS
    <2>1. JobFits(pc'[q], job'[q])
        BY DEF UsableInv, OthersWait
    <2> QED BY <2>1 DEF JobFits, NoTokensKept, rotates
<1>3. HeldApart'
    <2> SUFFICES ASSUME rotates, NEW q \in Processes, NEW r \in Processes, q # r,
                        pc'[q] \in Loaded, pc'[r] \in Loaded \cup {"asking"}
                 PROVE  job'[q].refresh # job'[r].refresh \/ job'[q].refresh = 0
        BY DEF HeldApart, rotates
    <2>1. pc[q] \in Loaded /\ job'[q].refresh = job[q].refresh
        BY DEF OthersWait
    <2>2. CASE pc[r] \in Loaded \cup {"asking"} /\ job'[r].refresh = job[r].refresh
        BY <2>1, <2>2 DEF UsableInv, HeldApart
    <2>3. CASE job'[r].refresh = 0
        BY <2>3
    <2>4. CASE \E ref \in Refs : vault[ref].refresh = job'[r].refresh
        <3>1. JobFits(pc[q], job[q])
            BY DEF UsableInv
        <3> QED BY <2>1, <2>4, <3>1 DEF JobFits
    <2> QED BY <2>2, <2>3, <2>4 DEF OthersWait
<1>4. ConnectionsOwn'
    <2> SUFFICES ASSUME NEW q \in Processes, NEW s \in Scopes,
                        Keeps(s, job[q].connection.responseRef)'
                 PROVE  job'[q].scope = s
        BY DEF ConnectionsOwn
    <2>1. Keeps(s, job'[q].connection.responseRef)
        <3>1. job'[q].connection \in Row \cup {NoRow}
            BY DEF OthersWait, IInv, TypeInv, OAuthTypeOK, Job
        <3>2. job'[q].connection.responseRef \in Refs \cup {NoRef}
            BY <3>1, RefsOfRows
        <3> QED BY <3>2 DEF NamesStay, Keeps
    <2>2. CASE q = p
        BY <2>1, <2>2
    <2>3. CASE q # p
        BY <2>1, <2>3 DEF OthersWait, UsableInv, ConnectionsOwn
    <2> QED BY <2>2, <2>3
<1>5. KeptInv'
    <2> SUFFICES ASSUME NEW s \in Scopes \ lostTokens'
                 PROVE  /\ \A r, q \in Refs : Keeps(s, r)' /\ Keeps(s, q)' => r = q
                        /\ \A r \in Refs : Keeps(s, r)' =>
                              \/ vault'[r].refresh \in usable \cup {0}
                              \/ \E q \in Processes : job'[q].scope = s /\ pc'[q] \in Loaded
        BY DEF KeptInv
    <2>1. \A r, q \in Refs : Keeps(s, r)' /\ Keeps(s, q)' => r = q
        BY DEF UsableInv, KeptInv, NamesStay
    <2>2. ASSUME NEW r \in Refs, Keeps(s, r)'
          PROVE  \/ vault'[r].refresh \in usable \cup {0}
                 \/ \E q \in Processes : job'[q].scope = s /\ pc'[q] \in Loaded
        <3>1. CASE vault[r].refresh \in usable \cup {0}
            BY <3>1 DEF NoTokensKept
        <3>2. CASE ~configured
            BY <3>2 DEF UsableInv, SecretsInv, NoTokensKept, NoSecret
        <3>3. CASE configured /\ \E q \in Processes : job[q].scope = s /\ pc[q] \in Loaded
            <4>1. PICK q \in Processes : job[q].scope = s /\ pc[q] \in Loaded
                BY <3>3
            <4>2. job'[q].scope = s /\ pc'[q] \in Loaded
                BY <3>3, <4>1 DEF OthersWait
            <4> QED BY <4>2
        <3> QED BY <2>2, <3>1, <3>2, <3>3 DEF UsableInv, KeptInv, NamesStay
    <2> QED BY <2>1, <2>2
<1> QED BY <1>1, <1>2, <1>3, <1>4, <1>5 DEF UsableInv

\* What is known of the row of a request that nothing overlaps does not depend on
\* other secrets and tokens.
LEMMA SpeaksStill ==
    ASSUME NEW row \in Row \cup {NoRow}, row.expires \in 0..issued,
           NEW secrets, NEW holders,
           row.responseRef # NoRef /\ vault[row.responseRef].access # 0 =>
               secrets[row.responseRef].access = vault[row.responseRef].access,
           \A i \in 1..issued : holders[i] = holder[i], issued \in Nat,
           Speaks(vault, holder, row)
    PROVE  Speaks(secrets, holders, row)
BY DEF Speaks

LEMMA MatchesStill ==
    ASSUME NEW row \in Row \cup {NoRow}, row.expires \in 0..issued,
           NEW step, NEW new, JobOK(step, new, issued),
           NEW secrets, NEW holders,
           row.responseRef # NoRef /\ vault[row.responseRef].access # 0 =>
               secrets[row.responseRef].access = vault[row.responseRef].access,
           new.copy.responseRef # NoRef /\ vault[new.copy.responseRef].access # 0 =>
               secrets[new.copy.responseRef].access = vault[new.copy.responseRef].access,
           \A i \in 1..issued : holders[i] = holder[i], issued \in Nat,
           JobMatches(vault, holder, step, new, row)
    PROVE  JobMatches(secrets, holders, step, new, row)
<1>1. Speaks(vault, holder, row) => Speaks(secrets, holders, row)
    BY SpeaksStill
<1>2. Matches(vault, holder, row) => Matches(secrets, holders, row)
    BY <1>1 DEF Matches
<1>3. step \in Loaded => holders[new.access] = row.client
    BY DEF JobMatches, JobOK, Loaded
<1>4. step = "completing" =>
          /\ secrets[new.copy.responseRef].access = new.access
          /\ holders[new.access] = new.copy.client
    BY DEF JobMatches, JobOK
<1> QED BY <1>1, <1>2, <1>3, <1>4 DEF JobMatches

\* p neither touches what another scope keeps nor goes to a scope unnoticed.
LEMMA MatchStep ==
    ASSUME IInv, MatchInv, NEW p \in Processes, OthersWait(p), setting' = setting,
           disturbed \subseteq disturbed',
           \A t \in Scopes : t # job[p].scope => rows'[t] = rows[t],
           \A t \in Scopes, r \in Refs : t # job[p].scope /\ Keeps(t, r) /\ vault[r].access # 0 =>
               vault'[r].access = vault[r].access,
           \A i \in 1..issued : holder'[i] = holder[i],
           job'[p].scope \notin Scopes \/ job'[p].scope = job[p].scope
             \/ job'[p].scope \in disturbed'
             \/ \A q \in Processes \ {p} : job[q].scope # job'[p].scope,
           configured /\ job'[p].scope \in Scopes \ disturbed' =>
               JobMatches(vault', holder', pc'[p], job'[p], rows'[job'[p].scope]),
           configured /\ job[p].scope \in Scopes \ disturbed' /\ job'[p].scope # job[p].scope =>
               Matches(vault', holder', rows'[job[p].scope])
    PROVE  MatchInv'
<1> SUFFICES ASSUME configured, NEW t \in Scopes \ disturbed'
             PROVE  /\ \A q, r \in Processes : job'[q].scope = t /\ job'[r].scope = t => q = r
                    /\ (\A q \in Processes : job'[q].scope # t) => Matches(vault', holder', rows'[t])
                    /\ \A q \in Processes : job'[q].scope = t =>
                          JobMatches(vault', holder', pc'[q], job'[q], rows'[t])
    BY Zenon DEF MatchInv, configured
<1>1. /\ t \in Scopes \ disturbed
      /\ \A q, r \in Processes : job[q].scope = t /\ job[r].scope = t => q = r
      /\ (\A q \in Processes : job[q].scope # t) => Matches(vault, holder, rows[t])
      /\ \A q \in Processes : job[q].scope = t => JobMatches(vault, holder, pc[q], job[q], rows[t])
    BY DEF MatchInv
<1>2. \A q, r \in Processes : job'[q].scope = t /\ job'[r].scope = t => q = r
    BY <1>1 DEF OthersWait
<1>3. issued \in Nat /\ rows[t] \in Row \cup {NoRow} /\ rows[t].expires \in 0..issued
    BY IssuedIsNat DEF IInv, TypeInv, OAuthTypeOK, RowsOK
<1>4. CASE t = job[p].scope
    <2>1. \A q \in Processes \ {p} : job'[q].scope # t
        BY <1>1, <1>4 DEF OthersWait
    <2>2. CASE job'[p].scope = t
        BY <1>2, <2>1, <2>2
    <2>3. CASE job'[p].scope # t
        BY <1>2, <1>4, <2>1, <2>3
    <2> QED BY <2>2, <2>3
<1>5. CASE t # job[p].scope
    <2>1. rows'[t] = rows[t]
        BY <1>5
    <2>2. \A r \in Refs : Keeps(t, r) /\ vault[r].access # 0 => vault'[r].access = vault[r].access
        BY <1>5
    <2>3. rows[t].responseRef # NoRef /\ vault[rows[t].responseRef].access # 0 =>
              vault'[rows[t].responseRef].access = vault[rows[t].responseRef].access
        BY <1>3, <2>2, RefsOfRows DEF Keeps
    <2>4. ASSUME \A q \in Processes : job'[q].scope # t PROVE Matches(vault', holder', rows'[t])
        <3>1. \A q \in Processes : job[q].scope # t
            BY <1>5, <2>4 DEF OthersWait
        <3> QED BY <1>1, <1>3, <2>1, <2>3, <3>1, SpeaksStill DEF Matches
    <2>5. ASSUME NEW q \in Processes, job'[q].scope = t
          PROVE  JobMatches(vault', holder', pc'[q], job'[q], rows'[t])
        <3>1. CASE q = p
            BY <2>5, <3>1
        <3>2. CASE q # p
            <4>1. /\ pc'[q] = pc[q] /\ job'[q] = job[q] /\ job[q].scope = t
                  /\ JobMatches(vault, holder, pc[q], job[q], rows[t])
                BY <1>1, <2>5, <3>2 DEF OthersWait
            <4>2. JobOK(pc[q], job[q], issued) /\ job[q] \in Job
                BY DEF IInv, TypeInv, JobsOK, JobOK
            <4>3. job[q].copy \in Row \cup {NoRow}
                BY <4>2 DEF Job
            <4>4. job[q].copy.responseRef # NoRef /\ vault[job[q].copy.responseRef].access # 0 =>
                      vault'[job[q].copy.responseRef].access = vault[job[q].copy.responseRef].access
                BY <2>2, <4>1, <4>3, RefsOfRows DEF Keeps
            <4> QED BY <1>3, <2>1, <2>3, <4>1, <4>2, <4>4, MatchesStill
        <3> QED BY <3>1, <3>2
    <2> QED BY <1>2, <2>4, <2>5
<1> QED BY <1>4, <1>5

-----------------------------------------------------------------------------
(* A step after which the request holds no refresh token.                    *)

\* p touches no tokens that another scope keeps.
Spared(p) ==
    \A t \in Scopes, r \in Refs :
        t # job[p].scope /\ Keeps(t, r) /\ vault[r].access # 0 => vault'[r].access = vault[r].access

\* Where the name of the tokens in a request's copy comes from.
ResponseDrawn(p, new) ==
    \/ new.copy.responseRef = NoRef
    \/ new.scope = job[p].scope /\ new.copy.responseRef = job[p].copy.responseRef
    \/ new.scope \in Scopes /\ new.copy.responseRef = rows[new.scope].responseRef

LEMMA LightStep ==
    ASSUME IInv, FitInv, NEW p \in Processes, NEW step, NEW new \in Job, Continue(p, step, new),
           NoTokensKept, Spared(p), UNCHANGED <<issued, holder, usable, setting>>,
           disturbed \subseteq disturbed', lostTokens \subseteq lostTokens',
           \A t \in Scopes : t # job[p].scope => rows'[t] = rows[t],
           job[p].scope \in Scopes =>
               rows'[job[p].scope].responseRef \in
                   {NoRef, rows[job[p].scope].responseRef, job[p].copy.responseRef},
           ResponseDrawn(p, new), new.refresh = 0, step \notin Loaded,
           step = "fetchingResponse" => new.kind = "refresh",
           \A s \in Scopes : Keeps(s, new.connection.responseRef) => new.scope = s,
           pc[p] \in Loaded => job[p].scope \in lostTokens' \/ ~configured,
           new.scope \notin Scopes \/ new.scope = job[p].scope \/ new.scope \in disturbed'
             \/ \A q \in Processes \ {p} : job[q].scope # new.scope,
           configured /\ new.scope \in Scopes \ disturbed' =>
               JobMatches(vault', holder, step, new, rows'[new.scope]),
           configured /\ job[p].scope \in Scopes \ disturbed' /\ new.scope # job[p].scope =>
               Matches(vault', holder, rows'[job[p].scope])
    PROVE  FitInv'
<1>1. OthersWait(p) /\ pc'[p] = step /\ job'[p] = new
    BY ContinueMoves
<1>2. NamesStay
    BY <1>1, NamesStayThen DEF ResponseDrawn
<1>3. new.connection \in Row \cup {NoRow}
    BY DEF Job
<1>4. JobFits(step, new)
    BY IssuedIsNat DEF IInv, JobFits
<1>5. UsableInv'
    BY <1>1, <1>2, <1>3, <1>4, UsableStep DEF FitInv
<1>6. MatchInv'
    BY <1>1, MatchStep DEF FitInv, Spared
<1> QED BY <1>5, <1>6 DEF FitInv

\* What is known of a request whose row nothing else touches.
LEMMA AtAwaitFit ==
    ASSUME IInv, FitInv, NEW p \in Processes, Working(p)
    PROVE  /\ JobFits(pc[p], job[p])
           /\ \A s \in Scopes : Keeps(s, job[p].connection.responseRef) => job[p].scope = s
           /\ configured /\ job[p].scope \notin disturbed =>
                 JobMatches(vault, holder, pc[p], job[p], rows[job[p].scope])
BY AtAwait DEF FitInv, UsableInv, MatchInv, ConnectionsOwn

\* Nobody works on it.
LEMMA AtRestFit ==
    ASSUME IInv, FitInv, configured, NEW s \in Scopes \ disturbed,
           \A p \in Processes : job[p].scope # s
    PROVE  Matches(vault, holder, rows[s])
BY DEF FitInv, MatchInv

LEMMA NoJobIsEmpty ==
    /\ NoJob.scope = NoScope /\ NoJob.copy = NoRow /\ NoJob.connection = NoRow
    /\ NoJob.refresh = 0 /\ NoJob.scope \notin Scopes /\ NoJob.status = "none"
    /\ \A s \in Scopes : ~Keeps(s, NoRow.responseRef)
BY OAuthAssumption, NoRowIsNone DEF NoJob, Keeps

LEMMA SameVaultSpares ==
    ASSUME vault' = vault, NEW p \in Processes
    PROVE  NoTokensKept /\ Spared(p)
BY DEF NoTokensKept, Spared

LEMMA EndFits ==
    ASSUME IInv, FitInv, NEW p \in Processes, Working(p), End(p),
           UNCHANGED <<rows, vault, issued, holder, usable, setting>>,
           disturbed \subseteq disturbed', lostTokens \subseteq lostTokens',
           pc[p] \in Loaded => job[p].scope \in lostTokens' \/ ~configured,
           \/ job[p].scope \in disturbed'
           \/ pc[p] \notin {"removingResponse", "removingRow", "completing"}
    PROVE  FitInv'
<1>1. Continue(p, "idle", NoJob)
    BY DEF End
<1>2. ResponseDrawn(p, NoJob) /\ NoJob \in Job
    BY NoJobIsEmpty, NoRowIsNone, EmptyHanded DEF ResponseDrawn, IInv
<1>3. job[p].scope \in Scopes
    BY AtAwait
<1>4. configured /\ job[p].scope \in Scopes \ disturbed' =>
          Matches(vault, holder, rows[job[p].scope])
    BY AtAwaitFit DEF JobMatches
<1> QED BY <1>1, <1>2, <1>3, <1>4, NoJobIsEmpty, SameVaultSpares, LightStep DEF Loaded

LEMMA AnnounceFits ==
    ASSUME IInv, FitInv, NEW p \in Processes, Working(p), NEW status \in {"failed", "completed"},
           Announce(p, status),
           UNCHANGED <<rows, vault, issued, holder, usable, setting>>,
           disturbed \subseteq disturbed', lostTokens \subseteq lostTokens',
           pc[p] \in Loaded => job[p].scope \in lostTokens' \/ ~configured,
           \/ job[p].scope \in disturbed'
           \/ /\ pc[p] \notin {"removingResponse", "removingRow", "completing"}
              /\ status = "completed" => rows[job[p].scope] = NoRow \/ ~configured
    PROVE  FitInv'
<1> DEFINE new == Announcement(p, status)
<1>1. Continue(p, "reading", new)
    BY DEF Announce, Announcement
<1>2. /\ new \in Job /\ new.scope = job[p].scope /\ new.copy = NoRow /\ new.connection = NoRow
      /\ new.refresh = 0 /\ new.status = status /\ job[p].scope \in Scopes
    <2>1. job[p] \in Job /\ job[p].scope \in Scopes /\ status \in Statuses
        BY AtAwait DEF Statuses, OAuthStatus
    <2>2. job[p].kind \in Kinds \cup {"none"}
        BY <2>1 DEF Job
    <2> QED BY <2>1, <2>2, NoJobIsEmpty, EmptyHanded DEF Announcement, Job, IInv
<1> HIDE DEF new
<1>3. ResponseDrawn(p, new)
    BY <1>2, NoRowIsNone DEF ResponseDrawn
<1>4. configured /\ job[p].scope \in Scopes \ disturbed' =>
          JobMatches(vault, holder, "reading", new, rows[job[p].scope])
    BY <1>2, AtAwaitFit DEF JobMatches, Loaded, HoldingConnection
<1> QED BY <1>1, <1>2, <1>3, <1>4, NoJobIsEmpty, SameVaultSpares, LightStep DEF Loaded

LEMMA BreakOffFits ==
    ASSUME IInv, FitInv, NEW p \in Processes, Working(p), BreakOff(p),
           UNCHANGED <<rows, vault, providerVars, soon, setting, deleted>>
    PROVE  FitInv'
<1>1. /\ job[p].scope \in disturbed' /\ disturbed \subseteq disturbed'
      /\ lostTokens \subseteq lostTokens'
      /\ pc[p] \in Loaded => job[p].scope \in lostTokens'
    BY DEF BreakOff, Disturb, Loaded
<1> QED BY <1>1, EndFits DEF BreakOff, providerVars

LEMMA AbandonFits ==
    ASSUME IInv, FitInv, NEW p \in Processes, Working(p), Abandon(p),
           UNCHANGED <<rows, vault, providerVars, soon, setting, deleted>>
    PROVE  FitInv'
<1>1. CASE BreakOff(p)
    BY <1>1, BreakOffFits
<1>2. CASE Announce(p, "failed") /\ Disturb(p)
    <2>1. /\ job[p].scope \in disturbed' /\ disturbed \subseteq disturbed'
          /\ lostTokens \subseteq lostTokens'
          /\ pc[p] \in Loaded => job[p].scope \in lostTokens'
        BY <1>2 DEF Disturb, Loaded
    <2> QED BY <1>2, <2>1, AnnounceFits DEF providerVars
<1> QED BY <1>1, <1>2 DEF Abandon

-----------------------------------------------------------------------------
(* The requests fit.                                                         *)

LEMMA BeginFits ==
    ASSUME IInv, FitInv, NEW p \in Processes, NEW kind, NEW step, NEW new \in Job,
           Begin(p, kind, step, new),
           step \in {"settingSecret", "inserting", "changing", "deleting", "finding", "reading"},
           new.scope \in Scopes, new.refresh = 0, new.copy.responseRef = NoRef,
           new.copy.status # "completed", new.status # "completed",
           \/ new.connection = NoRow /\ new.status # "exchanging"
           \/ new.connection = rows[new.scope],
           UNCHANGED <<rows, vault, providerVars, soon, setting, lostTokens, deleted, disruptions>>
    PROVE  FitInv'
<1>1. Continue(p, step, new) /\ pc[p] = "idle" /\ disturbed' = disturbed \cup Overlapping(p, new.scope)
    BY DEF Begin, Continue
<1>2. job[p] = NoJob
    BY <1>1 DEF IInv, TypeInv, JobsOK, JobOK
<1>3. new.scope \in disturbed' \/ \A q \in Processes \ {p} : job[q].scope # new.scope
    BY <1>1 DEF Overlapping
<1>4. ASSUME configured, new.scope \in Scopes \ disturbed'
      PROVE  JobMatches(vault, holder, step, new, rows[new.scope])
    <2>1. \A q \in Processes : job[q].scope # new.scope
        BY <1>2, <1>3, <1>4, NoJobIsEmpty
    <2>2. Matches(vault, holder, rows[new.scope])
        BY <1>1, <1>4, <2>1, AtRestFit
    <2> QED BY <2>2 DEF JobMatches, Loaded, HoldingConnection
<1>5. \A s \in Scopes : Keeps(s, new.connection.responseRef) => new.scope = s
    <2>1. CASE new.connection = NoRow
        BY <2>1, NoJobIsEmpty
    <2>2. CASE new.connection = rows[new.scope]
        <3>1. new.connection.responseRef \in Refs \cup {NoRef}
            BY RefsOfRows DEF Job
        <3>2. new.connection.responseRef # NoRef => Keeps(new.scope, new.connection.responseRef)
            BY <2>2 DEF Keeps
        <3> QED BY <3>1, <3>2 DEF IInv, VaultInv, Keeps
    <2> QED BY <2>1, <2>2
<1>6. ResponseDrawn(p, new)
    BY DEF ResponseDrawn
<1>7. disturbed \subseteq disturbed'
    BY <1>1
<1>8. rows' = rows /\ vault' = vault /\ issued' = issued /\ holder' = holder /\ usable' = usable
      /\ setting' = setting /\ lostTokens' = lostTokens
    BY DEF providerVars
<1>9. job[p].scope \notin Scopes
    BY <1>2, NoJobIsEmpty
<1> QED BY <1>1, <1>3, <1>4, <1>5, <1>6, <1>7, <1>8, <1>9, SameVaultSpares, LightStep DEF Loaded

LEMMA BeginCreateFits ==
    ASSUME IInv, FitInv, NEW p \in Processes, NEW flow \in setting.flows,
           NEW client \in setting.clients, BeginCreate(p, setting.scope[p], flow, client)
    PROVE  FitInv'
<1> DEFINE s == setting.scope[p]
           row == [NoRow EXCEPT !.status = "not_connected", !.flow = flow, !.client = client]
           new == [NoJob EXCEPT !.kind = "create", !.scope = s, !.copy = row]
           step == IF HasSecret(client) THEN "settingSecret" ELSE "inserting"
<1>1. s \in Scopes /\ flow \in Flows /\ client \in Clients
    BY IssuedIsNat DEF IInv, Setting
<1>2. row \in Row /\ row.status = "not_connected" /\ row.responseRef = NoRef
      /\ row.secretRef = NoRef
    BY <1>1, IssuedIsNat DEF IInv, Row, NoRow, Statuses, OAuthStatus
<1>3. new \in Job /\ new.scope = s /\ new.copy = row /\ new.refresh = 0
      /\ new.status = "none" /\ new.connection = NoRow
    BY <1>1, <1>2, EmptyHanded, NoJobIsEmpty DEF IInv, Job, Kinds
<1>4. step \in {"settingSecret", "inserting"}
    OBVIOUS
<1>5. Begin(p, "create", step, new)
    BY DEF BeginCreate
<1> HIDE DEF s, row, new, step
<1> QED BY <1>1, <1>2, <1>3, <1>4, <1>5, BeginFits DEF BeginCreate

\* A request that starts with nothing but its arguments.
Fresh(new) ==
    /\ new \in Job /\ new.scope \in Scopes /\ new.copy = NoRow /\ new.refresh = 0
    /\ new.status \in {"none", "waiting_callback", "not_connected"} /\ new.connection = NoRow

LEMMA BeginOthersFit ==
    ASSUME IInv, FitInv, NEW p \in Processes, NEW s \in Scopes,
           NEW client \in Clients \cup {NoClient},
           \/ BeginUpdate(p, s, client) \/ BeginDelete(p, s) \/ BeginRefresh(p, s) \/ BeginSweep(p)
           \/ BeginAuthorize(p, s) \/ BeginCancel(p, s)
    PROVE  FitInv'
<1>1. \E begun, step, new :
          Begin(p, begun, step, new) /\ Fresh(new) /\ step \in {"changing", "deleting", "finding", "reading"}
    <2>1. NoJob \in Job /\ Global \in Scopes
        BY OAuthAssumption, EmptyHanded DEF IInv
    <2>2. CASE BeginUpdate(p, s, client)
        <3> DEFINE new == [NoJob EXCEPT !.kind = "update", !.scope = s, !.client = client]
        <3>1. Fresh(new)
            BY <2>1, NoJobIsEmpty DEF Fresh, Job, Kinds, Statuses, OAuthStatus
        <3>2. Begin(p, "update", "changing", new)
            BY <2>2 DEF BeginUpdate
        <3> HIDE DEF new
        <3> QED BY <3>1, <3>2
    <2>3. CASE BeginDelete(p, s)
        <3> DEFINE new == [NoJob EXCEPT !.kind = "delete", !.scope = s]
        <3>1. Fresh(new)
            BY <2>1, NoJobIsEmpty DEF Fresh, Job, Kinds, Statuses, OAuthStatus
        <3>2. Begin(p, "delete", "deleting", new)
            BY <2>3 DEF BeginDelete
        <3> HIDE DEF new
        <3> QED BY <3>1, <3>2
    <2>4. CASE BeginRefresh(p, s)
        <3> DEFINE new == [NoJob EXCEPT !.kind = "refresh", !.scope = s]
        <3>1. Fresh(new)
            BY <2>1, NoJobIsEmpty DEF Fresh, Job, Kinds, Statuses, OAuthStatus
        <3>2. Begin(p, "refresh", "finding", new)
            BY <2>4 DEF BeginRefresh
        <3> HIDE DEF new
        <3> QED BY <3>1, <3>2
    <2>5. CASE BeginSweep(p)
        <3> DEFINE new == [NoJob EXCEPT !.kind = "refresh", !.scope = Global]
        <3>1. Fresh(new)
            BY <2>1, NoJobIsEmpty DEF Fresh, Job, Kinds, Statuses, OAuthStatus
        <3>2. Begin(p, "sweep", "finding", new)
            BY <2>5 DEF BeginSweep
        <3> HIDE DEF new
        <3> QED BY <3>1, <3>2
    <2>6. CASE BeginAuthorize(p, s)
        <3> DEFINE new == [NoJob EXCEPT !.kind = "authorize", !.scope = s, !.client = rows[Found(s)].client,
                                    !.status = "waiting_callback"]
        <3>0. rows[Found(s)].client \in Clients
            BY <2>6, FoundExists DEF BeginAuthorize, IInv, TypeInv, OAuthTypeOK, Exists, Row
        <3>1. Fresh(new)
            BY <2>1, <3>0, NoJobIsEmpty DEF Fresh, Job, Kinds, Statuses, OAuthStatus
        <3>2. Begin(p, "authorize", "reading", new)
            BY <2>6 DEF BeginAuthorize
        <3> HIDE DEF new
        <3> QED BY <3>1, <3>2
    <2>7. CASE BeginCancel(p, s)
        <3> DEFINE new == [NoJob EXCEPT !.kind = "cancel", !.scope = s, !.status = "not_connected"]
        <3>1. Fresh(new)
            BY <2>1, NoJobIsEmpty DEF Fresh, Job, Kinds, Statuses, OAuthStatus
        <3>2. Begin(p, "cancel", "reading", new)
            BY <2>7 DEF BeginCancel
        <3> HIDE DEF new
        <3> QED BY <3>1, <3>2
    <2> QED BY <2>2, <2>3, <2>4, <2>5, <2>6, <2>7
<1>2. UNCHANGED <<rows, vault, providerVars, soon, setting, lostTokens, deleted, disruptions>>
    BY DEF BeginUpdate, BeginDelete, BeginRefresh, BeginSweep, BeginAuthorize, BeginCancel
<1> QED BY <1>1, <1>2, NoRowIsNone, BeginFits DEF Fresh

LEMMA BeginCallbackFits ==
    ASSUME IInv, FitInv, NEW p \in Processes, NEW code \in Clients \cup {NoClient},
           BeginCallback(p, code)
    PROVE  FitInv'
<1> DEFINE row == rows[Global]
           new == [NoJob EXCEPT !.kind = "callback", !.scope = Global, !.connection = row,
                                !.code = code, !.status = "exchanging"]
<1>1. Global \in Scopes /\ row \in Row \cup {NoRow} /\ NoJob \in Job
    BY OAuthAssumption, EmptyHanded DEF IInv, TypeInv, OAuthTypeOK
<1>2. Begin(p, "callback", "reading", new)
    BY DEF BeginCallback
<1> HIDE DEF row
<1>3. /\ new \in Job /\ new.scope = Global /\ new.copy = NoRow /\ new.refresh = 0
      /\ new.status = "exchanging" /\ new.connection = row
    BY <1>1, NoJobIsEmpty DEF Job, Kinds, Statuses, OAuthStatus
<1> HIDE DEF new
<1> QED BY <1>1, <1>2, <1>3, NoRowIsNone, BeginFits DEF BeginCallback, row

-----------------------------------------------------------------------------
(* The steps of create, update and delete fit.                               *)

\* Setting or deleting a client secret leaves tokens alone.
LEMMA SecretSpares ==
    ASSUME IInv, NEW p \in Processes, NEW ref \in Refs, IsSecret(ref) \/ ref \in FreshNames,
           NEW secret, secret.refresh = 0, configured, vault' = [vault EXCEPT ![ref] = secret]
    PROVE  /\ NoTokensKept /\ Spared(p)
           /\ \A t \in Scopes, r \in Refs :
                 Keeps(t, r) /\ vault[r].access # 0 => vault'[r].access = vault[r].access
<1>1. \A r \in Refs : vault'[r] = IF r = ref THEN secret ELSE vault[r]
    BY DEF IInv, TypeInv, OAuthTypeOK
<1>2. \A t \in Scopes : Keeps(t, ref) => vault[ref].access = 0
    <2>1. CASE IsSecret(ref)
        BY <2>1 DEF IInv, VaultInv
    <2>2. CASE ref \in FreshNames
        BY <2>2 DEF FreshNames, Referred, Keeps
    <2> QED BY <2>1, <2>2
<1>3. NoTokensKept
    BY <1>1 DEF NoTokensKept
<1> QED BY <1>1, <1>2, <1>3 DEF Spared

\* The fields of a request that takes another copy.
LEMMA WithCopyRest ==
    ASSUME IInv, NEW p \in Processes, Working(p), NEW copy \in Row \cup {NoRow}
    PROVE  WithCopy(p, copy).refresh = job[p].refresh /\ WithCopy(p, copy).access = job[p].access
<1>1. job[p] \in Job
    BY AtAwait
<1> QED BY <1>1 DEF WithCopy, Job

\* A request at work goes on without leaving its scope or changing its row.
LEMMA GoOnFits ==
    ASSUME IInv, FitInv, NEW p \in Processes, Working(p), NEW step, NEW new \in Job,
           Continue(p, step, new), NoTokensKept, Spared(p),
           UNCHANGED <<rows, issued, holder, usable, setting>>,
           disturbed \subseteq disturbed', lostTokens \subseteq lostTokens',
           ResponseDrawn(p, new), new.refresh = 0, step \notin Loaded,
           step = "fetchingResponse" => new.kind = "refresh",
           new.scope = job[p].scope,
           new.connection \in {NoRow, job[p].connection},
           pc[p] \in Loaded => job[p].scope \in lostTokens' \/ ~configured,
           configured /\ job[p].scope \in Scopes \ disturbed' =>
               JobMatches(vault', holder, step, new, rows[job[p].scope])
    PROVE  FitInv'
<1>1. \A s \in Scopes : Keeps(s, new.connection.responseRef) => new.scope = s
    BY AtAwaitFit, NoJobIsEmpty
<1>2. job[p].scope \in Scopes
    BY AtAwait
<1> QED BY <1>1, <1>2, LightStep

LEMMA SetClientSecretFits ==
    ASSUME IInv, FitInv, NEW p \in Processes, SetClientSecret(p)
    PROVE  FitInv'
<1> DEFINE s == job[p].scope
<1>1. /\ JobOK("settingSecret", job[p], issued) /\ job[p] \in Job /\ Working(p)
      /\ s \in Scopes /\ rows[s] \in Row \cup {NoRow} /\ rows[s].expires \in 0..issued
      /\ issued \in Nat
    BY AtAwait DEF SetClientSecret, Working
<1>2. /\ job[p].refresh = 0 /\ pc[p] = "settingSecret"
      /\ configured /\ s \notin disturbed => JobMatches(vault, holder, pc[p], job[p], rows[s])
    BY <1>1, AtAwaitFit DEF SetClientSecret, JobFits, Loaded
<1>3. UNCHANGED <<rows, issued, holder, usable, setting, disturbed, lostTokens>>
    BY DEF SetClientSecret, providerVars, history
<1>4. CASE ~configured
    <2>1. Continue(p, "inserting", job[p]) /\ vault' = vault
        BY <1>4 DEF SetClientSecret, GoTo
    <2>2. ResponseDrawn(p, job[p])
        BY DEF ResponseDrawn
    <2> QED BY <1>1, <1>2, <1>3, <1>4, <2>1, <2>2, SameVaultSpares, GoOnFits DEF Loaded
<1>5. CASE configured
    <2>1. PICK ref \in FreshNames :
             /\ SetSecret(ref, ClientSecret(job[p].copy.client))
             /\ Continue(p, "inserting", [job[p] EXCEPT !.copy.secretRef = ref])
        BY <1>5 DEF SetClientSecret
    <2> DEFINE copy == [job[p].copy EXCEPT !.secretRef = ref]
               new == WithCopy(p, copy)
    <2>2. ref \in Refs /\ job[p].copy \in Row
        BY <1>1 DEF FreshNames, JobOK, HoldingCopy
    <2>3. /\ copy \in Row /\ copy.status = job[p].copy.status
          /\ copy.responseRef = job[p].copy.responseRef
        BY <2>2 DEF Row
    <2>4. Continue(p, "inserting", new)
        BY <2>1 DEF WithCopy
    <2> HIDE DEF copy
    <2>5. /\ new \in Job /\ new.copy = copy /\ new.scope = s /\ new.status = job[p].status
          /\ new.connection = job[p].connection /\ new.refresh = 0
        BY <1>1, <1>2, <2>3, WithCopyFields, WithCopyRest
    <2> HIDE DEF new
    <2>6. vault' = [vault EXCEPT ![ref] = ClientSecret(job[p].copy.client)]
          /\ ClientSecret(job[p].copy.client).refresh = 0
        BY <2>1 DEF SetSecret, ClientSecret, NoSecret
    <2>7. /\ NoTokensKept /\ Spared(p)
          /\ \A t \in Scopes, r \in Refs :
                 Keeps(t, r) /\ vault[r].access # 0 => vault'[r].access = vault[r].access
        BY <1>5, <2>2, <2>6, SecretSpares
    <2>8. ASSUME s \notin disturbed PROVE Matches(vault', holder, rows[s])
        <3>1. Matches(vault, holder, rows[s])
            BY <1>2, <1>5, <2>8 DEF JobMatches
        <3>2. rows[s].responseRef # NoRef /\ vault[rows[s].responseRef].access # 0 =>
                  vault'[rows[s].responseRef].access = vault[rows[s].responseRef].access
            BY <1>1, <2>7, RefsOfRows DEF Keeps
        <3> QED BY <1>1, <3>1, <3>2, SpeaksStill DEF Matches
    <2>9. s \notin disturbed => JobMatches(vault', holder, "inserting", new, rows[s])
        BY <1>1, <1>2, <1>5, <2>3, <2>5, <2>8 DEF JobMatches, JobOK, HoldingConnection, Loaded
    <2>10. ResponseDrawn(p, new)
        BY <2>3, <2>5 DEF ResponseDrawn
    <2> QED BY <1>1, <1>2, <1>3, <2>4, <2>5, <2>7, <2>9, <2>10, GoOnFits DEF Loaded
<1> QED BY <1>4, <1>5

LEMMA InsertFits ==
    ASSUME IInv, FitInv, NEW p \in Processes, Insert(p)
    PROVE  FitInv'
<1> DEFINE s == job[p].scope
           row == job[p].copy
<1>1. /\ JobOK("inserting", job[p], issued) /\ job[p] \in Job /\ s \in Scopes /\ Working(p)
      /\ issued \in Nat
    BY AtAwait DEF Insert, Working
<1>2. /\ row \in Row /\ job[p].refresh = 0 /\ pc[p] = "inserting"
      /\ configured /\ s \notin disturbed => row.status # "completed"
    BY <1>1, AtAwaitFit DEF Insert, JobOK, HoldingCopy, JobFits, Loaded, JobMatches
<1>3. CASE Exists(s)
    BY <1>1, <1>3, BreakOffFits DEF Insert
<1>4. CASE ~Exists(s)
    <2>1. /\ rows' = [rows EXCEPT ![s] = row] /\ rows'[s] = row /\ vault' = vault
          /\ \A t \in Scopes : t # s => rows'[t] = rows[t]
          /\ UNCHANGED <<issued, holder, usable, setting, disturbed, lostTokens>>
        BY <1>1, <1>4 DEF Insert, IInv, TypeInv, OAuthTypeOK, providerVars
    <2>2. NoTokensKept /\ Spared(p)
        BY <2>1, SameVaultSpares
    <2>3. configured /\ s \notin disturbed' => Matches(vault', holder, row)
        BY <1>2, <2>1 DEF Matches
    <2>4. CASE End(p)
        <3>1. Continue(p, "idle", NoJob) /\ NoJob \in Job /\ ResponseDrawn(p, NoJob)
            BY <2>4, NoJobIsEmpty, NoRowIsNone, EmptyHanded DEF End, ResponseDrawn, IInv
        <3> HIDE DEF s, row
        <3> QED BY <1>1, <1>2, <2>1, <2>2, <2>3, <3>1, NoJobIsEmpty, LightStep DEF Loaded, s, row
    <2>5. CASE Continue(p, "fetching", [job[p] EXCEPT !.connection = row, !.copy = NoRow])
        <3> DEFINE new == [job[p] EXCEPT !.connection = row, !.copy = NoRow]
        <3>1. /\ new \in Job /\ new.copy = NoRow /\ new.scope = s /\ new.refresh = 0
              /\ new.connection = row /\ new.status = job[p].status
            BY <1>1, <1>2 DEF Job
        <3>2. Continue(p, "fetching", new)
            BY <2>5
        <3> HIDE DEF new
        <3>3. ResponseDrawn(p, new)
            BY <3>1, NoRowIsNone DEF ResponseDrawn
        <3>4. \A t \in Scopes : Keeps(t, new.connection.responseRef) => new.scope = t
            <4>1. row.responseRef # NoRef => row.responseRef \in Refs /\ Keeps(s, row.responseRef)
                BY <1>2, OwnCopy, RefsOfRows
            <4> QED BY <1>1, <3>1, <4>1 DEF IInv, VaultInv, Keeps
        <3>5. configured /\ s \notin disturbed' => JobMatches(vault', holder, "fetching", new, rows'[s])
            BY <1>1, <2>1, <2>3, <3>1 DEF JobMatches, JobOK, Loaded, HoldingConnection
        <3> QED BY <1>1, <1>2, <2>1, <2>2, <3>1, <3>2, <3>3, <3>4, <3>5, LightStep DEF Loaded
    <2> QED BY <1>4, <2>4, <2>5 DEF Insert
<1> QED BY <1>3, <1>4

LEMMA ReadToUpdateFits ==
    ASSUME IInv, FitInv, NEW p \in Processes, ReadToUpdate(p)
    PROVE  FitInv'
<1> DEFINE s == job[p].scope
           client == job[p].client
           row == rows[s]
           copy == IF client = NoClient THEN row
                   ELSE [row EXCEPT !.client = client, !.status = "not_connected"]
           new == WithCopy(p, copy)
           step == IF client # NoClient /\ HasSecret(client) THEN "changingSecret" ELSE "writing"
<1>1. /\ JobOK("changing", job[p], issued) /\ job[p] \in Job /\ s \in Scopes /\ Working(p)
      /\ row \in Row \cup {NoRow}
    BY AtAwait DEF ReadToUpdate, Working
<1>2. /\ job[p].refresh = 0 /\ pc[p] = "changing"
      /\ configured /\ s \notin disturbed => JobMatches(vault, holder, pc[p], job[p], row)
    BY <1>1, AtAwaitFit DEF ReadToUpdate, JobFits, Loaded
<1>3. UNCHANGED <<rows, vault, issued, holder, usable, setting, disturbed, lostTokens>>
      /\ NoTokensKept /\ Spared(p)
    BY SameVaultSpares DEF ReadToUpdate, providerVars, history
<1>4. CASE ~Exists(s)
    BY <1>1, <1>2, <1>3, <1>4, EndFits DEF ReadToUpdate, Loaded
<1>5. CASE Exists(s)
    <2>1. Continue(p, step, new)
        <3>1. CASE client = NoClient
            BY <1>5, <3>1 DEF ReadToUpdate, WithCopy
        <3>2. CASE client # NoClient
            BY <1>5, <3>2 DEF ReadToUpdate, WithCopy
        <3> QED BY <3>1, <3>2
    <2>2. step \in {"changingSecret", "writing"}
        OBVIOUS
    <2>3. /\ copy \in Row /\ copy.responseRef = row.responseRef
          /\ copy.status = "completed" => row.status = "completed" /\ SameTokens(copy, row)
        <3>1. row \in Row /\ client \in Clients \cup {NoClient}
            BY <1>1, <1>5 DEF Exists, Job
        <3> HIDE DEF row, client
        <3> QED BY <3>1 DEF Row, Statuses, OAuthStatus, SameTokens
    <2> HIDE DEF copy, step
    <2>4. /\ new \in Job /\ new.copy = copy /\ new.scope = s /\ new.status = job[p].status
          /\ new.connection = job[p].connection /\ new.refresh = 0
        BY <1>1, <1>2, <2>3, WithCopyFields, WithCopyRest
    <2> HIDE DEF new
    <2>5. configured /\ s \in Scopes \ disturbed' => JobMatches(vault', holder, step, new, row)
        BY <1>1, <1>2, <1>3, <2>2, <2>3, <2>4 DEF JobMatches, JobOK, HoldingConnection, Loaded
    <2>6. ResponseDrawn(p, new)
        BY <1>1, <2>3, <2>4 DEF ResponseDrawn
    <2> QED BY <1>1, <1>2, <1>3, <2>1, <2>2, <2>4, <2>5, <2>6, GoOnFits DEF Loaded
<1> QED BY <1>4, <1>5

LEMMA ChangeSecretFits ==
    ASSUME IInv, FitInv, NEW p \in Processes, ChangeSecret(p)
    PROVE  FitInv'
<1> DEFINE s == job[p].scope
           row == job[p].copy
           secret == ClientSecret(job[p].client)
<1>1. /\ JobOK("changingSecret", job[p], issued) /\ job[p] \in Job /\ s \in Scopes /\ Working(p)
      /\ issued \in Nat /\ rows[s] \in Row \cup {NoRow} /\ rows[s].expires \in 0..issued
    BY AtAwait DEF ChangeSecret, Working
<1>2. /\ row \in Row /\ row.secretRef \in Refs \cup {NoRef} /\ job[p].refresh = 0
      /\ pc[p] = "changingSecret" /\ secret.refresh = 0
      /\ configured /\ s \notin disturbed => JobMatches(vault, holder, pc[p], job[p], rows[s])
    BY <1>1, AtAwaitFit DEF ChangeSecret, JobOK, HoldingCopy, Row, JobFits, Loaded, ClientSecret,
                            NoSecret
<1>3. CASE BreakOff(p) /\ UNCHANGED vault
    BY <1>1, <1>3, BreakOffFits DEF ChangeSecret
<1>4. CASE UNCHANGED <<disturbed, lostTokens>>
    <2>1. UNCHANGED <<rows, issued, holder, usable, setting, disturbed, lostTokens>>
        BY <1>4 DEF ChangeSecret, providerVars
    <2>2. ResponseDrawn(p, job[p])
        BY DEF ResponseDrawn
    <2>3. CASE GoTo(p, "writing") /\ UNCHANGED vault
        <3>1. configured /\ s \notin disturbed => JobMatches(vault', holder, "writing", job[p], rows[s])
            BY <1>1, <1>2, <2>3 DEF JobMatches, JobOK, HoldingConnection, Loaded
        <3> QED BY <1>1, <1>2, <2>1, <2>2, <2>3, <3>1, SameVaultSpares, GoOnFits DEF GoTo, Loaded
    <2>4. ASSUME NEW ref \in Refs, IsSecret(ref) \/ ref \in FreshNames, configured,
                 SetSecret(ref, secret),
                 NEW new \in Job, Continue(p, "writing", new), new.refresh = 0, new.scope = s,
                 new.copy.responseRef = row.responseRef, new.copy.status = row.status,
                 SameTokens(new.copy, row), new.connection = job[p].connection,
                 new.status = job[p].status
          PROVE  FitInv'
        <3>1. vault' = [vault EXCEPT ![ref] = secret]
            BY <2>4 DEF SetSecret
        <3> HIDE DEF secret
        <3>2. /\ NoTokensKept /\ Spared(p)
              /\ \A t \in Scopes, r \in Refs :
                     Keeps(t, r) /\ vault[r].access # 0 => vault'[r].access = vault[r].access
            BY <1>2, <2>4, <3>1, SecretSpares
        <3>3. rows[s].responseRef # NoRef /\ vault[rows[s].responseRef].access # 0 =>
                  vault'[rows[s].responseRef].access = vault[rows[s].responseRef].access
            BY <1>1, <3>2, RefsOfRows DEF Keeps
        <3>4. s \notin disturbed => Matches(vault', holder, rows[s])
            BY <1>1, <1>2, <2>4, <3>3, SpeaksStill DEF Matches, JobMatches
        <3>5. s \notin disturbed => JobMatches(vault', holder, "writing", new, rows[s])
            BY <1>1, <1>2, <2>4, <3>4 DEF JobMatches, JobOK, HoldingConnection, Loaded, SameTokens
        <3>6. ResponseDrawn(p, new)
            BY <2>4 DEF ResponseDrawn
        <3> QED BY <1>1, <1>2, <2>1, <2>4, <3>2, <3>5, <3>6, GoOnFits DEF Loaded
    <2>5. CASE configured /\ Settable(row.secretRef) /\ SetSecret(row.secretRef, secret)
               /\ GoTo(p, "writing")
        <3>1. row.secretRef \in Refs /\ IsSecret(row.secretRef) /\ Continue(p, "writing", job[p])
            BY <1>2, <2>5, OwnCopy DEF Settable, GoTo
        <3> HIDE DEF secret
        <3> QED BY <1>1, <1>2, <2>4, <2>5, <3>1 DEF SameTokens
    <2>6. CASE configured /\ \E ref \in FreshNames :
                  /\ SetSecret(ref, secret)
                  /\ Continue(p, "writing", [job[p] EXCEPT !.copy.secretRef = ref])
        <3>1. PICK ref \in FreshNames :
                  /\ SetSecret(ref, secret)
                  /\ Continue(p, "writing", [job[p] EXCEPT !.copy.secretRef = ref])
            BY <2>6
        <3> DEFINE copy == [row EXCEPT !.secretRef = ref]
                   new == WithCopy(p, copy)
        <3>2. /\ copy \in Row /\ copy.status = row.status
              /\ copy.responseRef = row.responseRef /\ ref \in Refs /\ SameTokens(copy, row)
            BY <1>2 DEF Row, FreshNames, SameTokens
        <3>3. Continue(p, "writing", new)
            BY <3>1 DEF WithCopy
        <3> HIDE DEF copy
        <3>4. /\ new \in Job /\ new.copy = copy /\ new.scope = s /\ new.status = job[p].status
              /\ new.connection = job[p].connection /\ new.refresh = 0
            BY <1>1, <1>2, <3>2, WithCopyFields, WithCopyRest
        <3> HIDE DEF new, secret
        <3> QED BY <2>4, <2>6, <3>1, <3>2, <3>3, <3>4
    <2> QED BY <1>3, <2>3, <2>5, <2>6 DEF ChangeSecret
<1> QED BY <1>3, <1>4 DEF ChangeSecret

\* What upsert_entity leaves of the copy it is given.
LEMMA MergedTokens ==
    ASSUME NEW row, NEW copy \in Row
    PROVE  /\ Merged(row, copy).client = copy.client
           /\ Merged(row, copy).status = copy.status
           /\ Merged(row, copy).responseRef =
                 IF copy.responseRef = NoRef THEN row.responseRef ELSE copy.responseRef
           /\ Merged(row, copy).expires = IF copy.expires = 0 THEN row.expires ELSE copy.expires
BY DEF Merged, Row

\* A request at work writes its copy back and ends, or goes on.
LEMMA UpsertFits ==
    ASSUME IInv, FitInv, NEW p \in Processes, Working(p), NEW step, NEW new \in Job,
           Continue(p, step, new), NEW copy \in Row, Upsert(p, copy),
           copy.responseRef = job[p].copy.responseRef,
           UNCHANGED <<vault, issued, holder, usable, setting, disturbed, lostTokens>>,
           new.copy = NoRow, new.refresh = 0, step \notin Loaded \cup {"fetchingResponse"},
           pc[p] \notin Loaded,
           \/ new.scope = NoScope /\ new.connection = NoRow
           \/ new.scope = job[p].scope /\ new.connection \in {NoRow, job[p].connection},
           configured /\ job[p].scope \in Scopes \ disturbed =>
               LET row == Merged(rows[job[p].scope], copy) IN
               /\ Matches(vault, holder, row)
               /\ new.scope = job[p].scope => JobMatches(vault, holder, step, new, row)
    PROVE  FitInv'
<1> DEFINE s == job[p].scope
           row == Merged(rows[s], copy)
<1>1. /\ s \in Scopes /\ rows[s] \in Row \cup {NoRow} /\ rows \in [Scopes -> Row \cup {NoRow}]
    BY AtAwait DEF IInv, TypeInv, OAuthTypeOK
<1>2. row.responseRef \in {rows[s].responseRef, copy.responseRef}
    BY <1>1, MergedTokens
<1>3. rows' = [rows EXCEPT ![s] = row]
    BY DEF Upsert
<1> HIDE DEF row
<1>4. rows'[s] = row /\ \A t \in Scopes : t # s => rows'[t] = rows[t]
    BY <1>1, <1>3
<1>5. \A t \in Scopes : Keeps(t, new.connection.responseRef) => new.scope = t
    BY AtAwaitFit, NoJobIsEmpty
<1>6. ResponseDrawn(p, new)
    BY NoRowIsNone DEF ResponseDrawn
<1>7. configured /\ s \in Scopes \ disturbed' =>
          /\ Matches(vault', holder, row)
          /\ new.scope = s => JobMatches(vault', holder, step, new, row)
    BY DEF row
<1>8. NoScope \notin Scopes /\ NoTokensKept /\ Spared(p)
    BY SameVaultSpares, OAuthAssumption
<1> QED BY <1>1, <1>2, <1>4, <1>5, <1>6, <1>7, <1>8, LightStep

LEMMA WriteUpdateFits ==
    ASSUME IInv, FitInv, NEW p \in Processes, WriteUpdate(p)
    PROVE  FitInv'
<1> DEFINE s == job[p].scope
           row == Merged(rows[s], job[p].copy)
<1>1. /\ JobOK("writing", job[p], issued) /\ Working(p) /\ s \in Scopes
      /\ rows[s] \in Row \cup {NoRow}
    BY AtAwait DEF WriteUpdate, Working
<1>2. /\ job[p].copy \in Row /\ pc[p] = "writing"
      /\ configured /\ s \notin disturbed => JobMatches(vault, holder, pc[p], job[p], rows[s])
    BY <1>1, AtAwaitFit DEF WriteUpdate, JobOK, HoldingCopy
<1>3. ASSUME configured, s \notin disturbed PROVE Matches(vault, holder, row)
    <2>1. /\ row.client = job[p].copy.client /\ row.status = job[p].copy.status
          /\ row.responseRef = IF job[p].copy.responseRef = NoRef THEN rows[s].responseRef
                               ELSE job[p].copy.responseRef
          /\ row.expires = IF job[p].copy.expires = 0 THEN rows[s].expires ELSE job[p].copy.expires
        BY <1>2, MergedTokens
    <2> HIDE DEF row
    <2> QED BY <1>2, <1>3, <2>1 DEF Matches, Speaks, JobMatches, SameTokens
<1>4. Continue(p, "idle", NoJob) /\ NoJob \in Job
    BY EmptyHanded DEF WriteUpdate, End, IInv
<1>5. UNCHANGED <<vault, issued, holder, usable, setting, disturbed, lostTokens>>
    BY DEF WriteUpdate, providerVars, history
<1>6. s # NoScope
    BY <1>1, OAuthAssumption
<1> QED BY <1>1, <1>2, <1>3, <1>4, <1>5, <1>6, NoJobIsEmpty, UpsertFits DEF WriteUpdate, Loaded

LEMMA ReadToDeleteFits ==
    ASSUME IInv, FitInv, NEW p \in Processes, ReadToDelete(p)
    PROVE  FitInv'
<1> DEFINE s == job[p].scope
           new == WithCopy(p, rows[s])
           step == IF configured THEN "removingSecret" ELSE "removingRow"
<1>1. /\ JobOK("deleting", job[p], issued) /\ Working(p) /\ s \in Scopes
      /\ rows[s] \in Row \cup {NoRow}
    BY AtAwait DEF ReadToDelete, Working
<1>2. /\ job[p].refresh = 0 /\ pc[p] = "deleting"
      /\ configured /\ s \notin disturbed => JobMatches(vault, holder, pc[p], job[p], rows[s])
    BY <1>1, AtAwaitFit DEF ReadToDelete, JobFits, Loaded
<1>3. UNCHANGED <<rows, vault, issued, holder, usable, setting, disturbed, lostTokens>>
      /\ NoTokensKept /\ Spared(p)
    BY SameVaultSpares DEF ReadToDelete, providerVars
<1>4. CASE ~Exists(s)
    BY <1>1, <1>2, <1>3, <1>4, EndFits DEF ReadToDelete, Loaded
<1>5. CASE Exists(s)
    <2>1. Continue(p, step, new)
        BY <1>5 DEF ReadToDelete, WithCopy
    <2>2. step \in {"removingSecret", "removingRow"}
        OBVIOUS
    <2> HIDE DEF step
    <2>3. /\ new \in Job /\ new.copy = rows[s] /\ new.scope = s /\ new.status = job[p].status
          /\ new.connection = job[p].connection /\ new.refresh = 0
        BY <1>1, <1>2, WithCopyFields, WithCopyRest
    <2> HIDE DEF new
    <2>4. configured /\ s \in Scopes \ disturbed' => JobMatches(vault', holder, step, new, rows[s])
        BY <1>1, <1>2, <1>3, <2>2, <2>3 DEF JobMatches, JobOK, HoldingConnection, Loaded
    <2>5. ResponseDrawn(p, new)
        BY <1>1, <2>3 DEF ResponseDrawn
    <2> QED BY <1>1, <1>2, <1>3, <2>1, <2>2, <2>3, <2>4, <2>5, GoOnFits DEF Loaded
<1> QED BY <1>4, <1>5

\* Deleting the tokens of a connection, or what is no token.
LEMMA RemoveSpares ==
    ASSUME IInv, FitInv, NEW p \in Processes, Working(p),
           NEW ref \in {job[p].copy.secretRef, job[p].copy.responseRef}, Remove(ref)
    PROVE  NoTokensKept /\ Spared(p)
<1>1. /\ job[p] \in Job /\ job[p].scope \in Scopes
    BY AtAwait
<1>2. CASE ref = NoRef
    BY <1>2, SameVaultSpares DEF Remove
<1>3. CASE ref # NoRef
    <2>1. ref \in Refs /\ vault' = [vault EXCEPT ![ref] = NoSecret] /\ NoSecret.refresh = 0
        BY <1>1, <1>3, RefsOfRows DEF Job, Remove, NoSecret
    <2>2. \A r \in Refs : vault'[r] = IF r = ref THEN NoSecret ELSE vault[r]
        BY <2>1 DEF IInv, TypeInv, OAuthTypeOK
    <2>3. ~configured => vault' = vault
        BY <2>1, <2>2 DEF FitInv, UsableInv, SecretsInv, IInv, TypeInv, OAuthTypeOK
    <2>4. NoTokensKept
        BY <2>1, <2>2, <2>3 DEF NoTokensKept
    <2>5. CASE IsSecret(ref)
        <3>1. \A t \in Scopes : Keeps(t, ref) => vault[ref].access = 0
            BY <2>1, <2>5 DEF IInv, VaultInv
        <3> QED BY <2>2, <2>4, <3>1 DEF Spared
    <2>6. CASE Keeps(job[p].scope, ref)
        <3>1. \A t \in Scopes : Keeps(t, ref) => t = job[p].scope
            BY <1>1, <2>1, <2>6 DEF IInv, VaultInv
        <3> QED BY <2>2, <2>4, <3>1 DEF Spared
    <2> QED BY <1>3, <2>5, <2>6, OwnCopy
<1> QED BY <1>2, <1>3

LEMMA RemoveSecretFits ==
    ASSUME IInv, FitInv, NEW p \in Processes, RemoveSecret(p)
    PROVE  FitInv'
<1>1. /\ JobOK("removingSecret", job[p], issued) /\ Working(p) /\ job[p] \in Job
      /\ pc[p] = "removingSecret"
    BY AtAwait DEF RemoveSecret, Working
<1>2. job[p].refresh = 0
    BY <1>1, AtAwaitFit DEF JobFits, Loaded
<1>3. UNCHANGED <<rows, issued, holder, usable, setting, disturbed, lostTokens>>
      /\ Continue(p, "removingResponse", job[p])
    BY DEF RemoveSecret, providerVars, history, GoTo
<1>4. NoTokensKept /\ Spared(p)
    BY <1>1, RemoveSpares DEF RemoveSecret
<1>5. JobMatches(vault', holder, "removingResponse", job[p], rows[job[p].scope])
    BY <1>1 DEF JobMatches, JobOK, HoldingConnection, Loaded
<1>6. ResponseDrawn(p, job[p])
    BY DEF ResponseDrawn
<1> QED BY <1>1, <1>2, <1>3, <1>4, <1>5, <1>6, GoOnFits DEF Loaded

\* A deletion goes on to the row.
LEMMA ToRemoveRowFits ==
    ASSUME IInv, FitInv, NEW p \in Processes, pc[p] = "removingResponse",
           Continue(p, "removingRow", [job[p] EXCEPT !.copy = NoRow]),
           NoTokensKept, Spared(p), UNCHANGED <<rows, issued, holder, usable, setting, lostTokens>>,
           disturbed \subseteq disturbed'
    PROVE  FitInv'
<1> DEFINE new == WithCopy(p, NoRow)
<1>1. /\ JobOK("removingResponse", job[p], issued) /\ Working(p)
    BY AtAwait DEF Working
<1>2. job[p].refresh = 0
    BY <1>1, AtAwaitFit DEF JobFits, Loaded
<1>3. Continue(p, "removingRow", new)
    BY DEF WithCopy
<1>4. /\ new \in Job /\ new.copy = NoRow /\ new.scope = job[p].scope /\ new.status = job[p].status
      /\ new.connection = job[p].connection /\ new.refresh = 0
    BY <1>1, <1>2, WithCopyFields, WithCopyRest
<1> HIDE DEF new
<1>5. JobMatches(vault', holder, "removingRow", new, rows[job[p].scope])
    BY <1>1, <1>4 DEF JobMatches, JobOK, HoldingConnection, Loaded
<1>6. ResponseDrawn(p, new)
    BY <1>4, NoRowIsNone DEF ResponseDrawn
<1> QED BY <1>1, <1>3, <1>4, <1>5, <1>6, GoOnFits DEF Loaded

LEMMA RemoveResponseFits ==
    ASSUME IInv, FitInv, NEW p \in Processes, RemoveResponse(p)
    PROVE  FitInv'
<1>1. NoTokensKept /\ Spared(p)
    BY RemoveSpares DEF RemoveResponse, Working
<1> QED BY <1>1, ToRemoveRowFits DEF RemoveResponse, providerVars, history

LEMMA RemoveRowFits ==
    ASSUME IInv, FitInv, NEW p \in Processes, RemoveRow(p)
    PROVE  FitInv'
<1> DEFINE s == job[p].scope
<1>1. s \in Scopes /\ pc[p] = "removingRow" /\ NoJob \in Job
    BY AtAwait, EmptyHanded DEF RemoveRow, Working, IInv
<1>2. /\ Continue(p, "idle", NoJob) /\ rows'[s] = NoRow
      /\ \A t \in Scopes : t # s => rows'[t] = rows[t]
      /\ UNCHANGED <<vault, issued, holder, usable, setting, disturbed, lostTokens>>
    BY <1>1 DEF RemoveRow, End, providerVars, history, IInv, TypeInv, OAuthTypeOK
<1>3. NoTokensKept /\ Spared(p) /\ ResponseDrawn(p, NoJob)
    BY <1>2, SameVaultSpares, NoJobIsEmpty, NoRowIsNone DEF ResponseDrawn
<1>4. Matches(vault', holder, rows'[s]) /\ NoRow.responseRef = NoRef
    BY <1>2, NoRowIsNone DEF Matches
<1> HIDE DEF s
<1> QED BY <1>1, <1>2, <1>3, <1>4, NoJobIsEmpty, LightStep DEF Loaded, s

-----------------------------------------------------------------------------
(* The steps of an authorization fit.                                        *)

\* What follows when the status is written, or there was no row to write it to.
LEMMA AnnouncedMoves ==
    ASSUME IInv, NEW p \in Processes, pc[p] \in {"reading", "marking"}, Announced(p)
    PROVE  \E step \in Steps, new \in Job :
              /\ Continue(p, step, new) /\ new.copy = NoRow /\ new.refresh \in {0, job[p].refresh}
              /\ \/ step = "idle" /\ new.scope = NoScope /\ new.connection = NoRow
                 \/ /\ step = "fetching" /\ job[p].status = "exchanging" /\ new.status = "none"
                    /\ new.scope = job[p].scope /\ new.connection = job[p].connection
<1>1. job[p] \in Job
    BY AtAwait DEF Working
<1>2. CASE job[p].status = "exchanging"
    <2> DEFINE new == [job[p] EXCEPT !.status = "none", !.copy = NoRow]
    <2>1. /\ new \in Job /\ new.copy = NoRow /\ new.status = "none" /\ new.scope = job[p].scope
          /\ new.refresh = job[p].refresh /\ new.connection = job[p].connection
        BY <1>1 DEF Job
    <2>2. Continue(p, "fetching", new)
        BY <1>2 DEF Announced
    <2> HIDE DEF new
    <2> QED BY <1>2, <2>1, <2>2 DEF Steps
<1>3. CASE job[p].status # "exchanging"
    BY <1>3, EmptyHanded, NoJobIsEmpty DEF Announced, End, IInv, Steps
<1> QED BY <1>2, <1>3

LEMMA ReadStatusFits ==
    ASSUME IInv, FitInv, NEW p \in Processes, ReadStatus(p)
    PROVE  FitInv'
<1> DEFINE s == job[p].scope
<1>1. /\ JobOK("reading", job[p], issued) /\ Working(p) /\ s \in Scopes
      /\ rows[s] \in Row \cup {NoRow} /\ pc[p] = "reading"
    BY AtAwait DEF ReadStatus, Working
<1>2. /\ job[p].refresh = 0
      /\ configured /\ s \notin disturbed => JobMatches(vault, holder, pc[p], job[p], rows[s])
    BY <1>1, AtAwaitFit DEF JobFits, Loaded
<1>3. UNCHANGED <<rows, vault, issued, holder, usable, setting, disturbed, lostTokens>>
      /\ NoTokensKept /\ Spared(p)
    BY SameVaultSpares DEF ReadStatus, history
<1>4. CASE Exists(s)
    <2> DEFINE new == WithCopy(p, rows[s])
    <2>1. Continue(p, "marking", new)
        BY <1>4 DEF ReadStatus, WithCopy
    <2>2. /\ new \in Job /\ new.copy = rows[s] /\ new.scope = s /\ new.status = job[p].status
          /\ new.connection = job[p].connection /\ new.refresh = 0
        BY <1>1, <1>2, WithCopyFields, WithCopyRest
    <2> HIDE DEF new
    <2>3. configured /\ s \in Scopes \ disturbed' => JobMatches(vault', holder, "marking", new, rows[s])
        BY <1>1, <1>2, <1>3, <1>4, <2>2 DEF JobMatches, HoldingConnection, Loaded, SameTokens, Exists
    <2>4. ResponseDrawn(p, new)
        BY <1>1, <2>2 DEF ResponseDrawn
    <2> QED BY <1>1, <1>3, <2>1, <2>2, <2>3, <2>4, GoOnFits DEF Loaded
<1>5. CASE ~Exists(s)
    <2>1. PICK step \in Steps, new \in Job :
              /\ Continue(p, step, new) /\ new.copy = NoRow /\ new.refresh \in {0, job[p].refresh}
              /\ \/ step = "idle" /\ new.scope = NoScope /\ new.connection = NoRow
                 \/ /\ step = "fetching" /\ job[p].status = "exchanging" /\ new.status = "none"
                    /\ new.scope = job[p].scope /\ new.connection = job[p].connection
        BY <1>1, <1>5, AnnouncedMoves DEF ReadStatus
    <2>2. ResponseDrawn(p, new) /\ s # NoScope
        BY <1>1, <2>1, NoRowIsNone, OAuthAssumption DEF ResponseDrawn
    <2>3. CASE step = "idle"
        <3>1. configured /\ s \in Scopes \ disturbed' => Matches(vault', holder, rows'[s])
            BY <1>1, <1>2, <1>3 DEF JobMatches
        <3> QED BY <1>1, <1>2, <1>3, <2>1, <2>2, <2>3, <3>1, NoJobIsEmpty, LightStep DEF Loaded
    <2>4. CASE step = "fetching"
        <3>1. configured /\ s \in Scopes \ disturbed' => JobMatches(vault', holder, step, new, rows[s])
            BY <1>1, <1>2, <1>3, <2>1, <2>4 DEF JobMatches, Loaded, HoldingConnection
        <3> QED BY <1>1, <1>2, <1>3, <2>1, <2>2, <2>4, <3>1, GoOnFits DEF Loaded
    <2> QED BY <2>1, <2>3, <2>4
<1> QED BY <1>4, <1>5

LEMMA MarkStatusFits ==
    ASSUME IInv, FitInv, NEW p \in Processes, MarkStatus(p)
    PROVE  FitInv'
<1> DEFINE s == job[p].scope
           copy == [job[p].copy EXCEPT !.status = job[p].status]
           row == Merged(rows[s], copy)
<1>1. /\ JobOK("marking", job[p], issued) /\ Working(p) /\ s \in Scopes
      /\ rows[s] \in Row \cup {NoRow} /\ pc[p] = "marking" /\ s # NoScope
    BY AtAwait, OAuthAssumption DEF MarkStatus, Working
<1>2. /\ job[p].refresh = 0
      /\ configured /\ s \notin disturbed => JobMatches(vault, holder, pc[p], job[p], rows[s])
    BY <1>1, AtAwaitFit DEF JobFits, Loaded
<1>3. /\ copy \in Row /\ copy.responseRef = job[p].copy.responseRef
      /\ SameTokens(copy, job[p].copy) /\ copy.status = job[p].status
    BY <1>1 DEF JobOK, HoldingCopy, Row, SameTokens
<1>4. PICK step \in Steps, new \in Job :
          /\ Continue(p, step, new) /\ new.copy = NoRow /\ new.refresh \in {0, job[p].refresh}
          /\ \/ step = "idle" /\ new.scope = NoScope /\ new.connection = NoRow
             \/ /\ step = "fetching" /\ job[p].status = "exchanging" /\ new.status = "none"
                /\ new.scope = job[p].scope /\ new.connection = job[p].connection
    BY <1>1, AnnouncedMoves DEF MarkStatus
<1>5. Upsert(p, copy)
      /\ UNCHANGED <<vault, issued, holder, usable, setting, disturbed, lostTokens>>
    BY DEF MarkStatus, history
<1> HIDE DEF copy
<1>6. /\ row.client = copy.client /\ row.status = copy.status
      /\ row.responseRef = IF copy.responseRef = NoRef THEN rows[s].responseRef ELSE copy.responseRef
      /\ row.expires = IF copy.expires = 0 THEN rows[s].expires ELSE copy.expires
    BY <1>3, MergedTokens
<1> HIDE DEF row
<1>7. ASSUME configured, s \notin disturbed
      PROVE  /\ Matches(vault, holder, row)
             /\ new.scope = s => JobMatches(vault, holder, step, new, row)
    <2>1. JobMatches(vault, holder, pc[p], job[p], rows[s]) /\ SameTokens(copy, rows[s])
        BY <1>1, <1>2, <1>3, <1>7 DEF JobMatches, SameTokens
    <2>2. row.client = rows[s].client /\ row.responseRef = rows[s].responseRef
          /\ row.expires = rows[s].expires
        BY <1>6, <2>1 DEF SameTokens
    <2>3. Matches(vault, holder, row)
        BY <1>1, <1>3, <1>6, <2>1, <2>2 DEF JobMatches, Matches, Speaks
    <2>4. step = "fetching" => JobMatches(vault, holder, step, new, row)
        BY <1>1, <1>4, <2>1, <2>2, <2>3 DEF JobMatches, Loaded, HoldingConnection
    <2> QED BY <1>1, <1>4, <2>3, <2>4
<1> QED BY <1>1, <1>2, <1>3, <1>4, <1>5, <1>7, UpsertFits DEF Loaded, row

-----------------------------------------------------------------------------
(* Reading the connection and its secrets fits.                              *)

LEMMA FindFits ==
    ASSUME IInv, FitInv, NEW p \in Processes, Find(p)
    PROVE  FitInv'
<1> DEFINE s == Found(job[p].scope)
           new == [job[p] EXCEPT !.scope = s, !.connection = rows[s]]
<1>1. /\ JobOK("finding", job[p], issued) /\ job[p] \in Job /\ Working(p)
      /\ job[p].scope \in Scopes /\ job[p].copy = NoRow /\ pc[p] = "finding"
    BY AtAwait DEF Find, Working, JobOK
<1>2. /\ job[p].refresh = 0
      /\ configured /\ job[p].scope \notin disturbed => Matches(vault, holder, rows[job[p].scope])
    BY <1>1, AtAwaitFit DEF JobFits, Loaded, JobMatches
<1>3. UNCHANGED <<rows, vault, issued, holder, usable, setting, lostTokens>>
    BY DEF Find, providerVars
<1>4. CASE s = NoScope
    BY <1>1, <1>3, <1>4, EndFits DEF Find, Loaded
<1>5. CASE s # NoScope
    <2>1. s \in Scopes /\ rows[s] \in Row
        BY <1>1, <1>5, FoundExists DEF IInv, TypeInv, OAuthTypeOK, Exists
    <2>2. /\ Continue(p, "fetching", new) /\ disturbed' = disturbed \cup Overlapping(p, s)
        BY <1>5 DEF Find
    <2> HIDE DEF s
    <2>3. /\ new \in Job /\ new.copy = NoRow /\ new.refresh = 0 /\ new.scope = s
          /\ new.connection = rows[s] /\ new.status = job[p].status
        BY <1>1, <1>2, <2>1 DEF Job
    <2> HIDE DEF new
    <2>4. disturbed \subseteq disturbed' /\ (s \in disturbed' \/ \A q \in Processes \ {p} : job[q].scope # s)
        BY <2>2 DEF Overlapping
    <2>5. ASSUME configured, s \notin disturbed' PROVE Matches(vault, holder, rows[s])
        <3>1. CASE job[p].scope = s
            BY <1>2, <2>4, <2>5, <3>1
        <3>2. CASE job[p].scope # s
            BY <2>1, <2>4, <2>5, <3>2, AtRestFit
        <3> QED BY <3>1, <3>2
    <2>6. configured /\ s \in Scopes \ disturbed' =>
              JobMatches(vault', holder, "fetching", new, rows'[s])
        BY <1>3, <2>3, <2>5 DEF JobMatches, Loaded, HoldingConnection
    <2>7. \A t \in Scopes : Keeps(t, new.connection.responseRef) => new.scope = t
        <3>1. rows[s].responseRef \in Refs \cup {NoRef}
            BY <2>1, RefsOfRows
        <3>2. rows[s].responseRef # NoRef => Keeps(s, rows[s].responseRef)
            BY DEF Keeps
        <3> QED BY <2>1, <2>3, <3>1, <3>2 DEF IInv, VaultInv, Keeps
    <2>8. ResponseDrawn(p, new)
        BY <2>3, NoRowIsNone DEF ResponseDrawn
    <2> QED BY <1>1, <1>2, <1>3, <2>2, <2>3, <2>4, <2>6, <2>7, <2>8, SameVaultSpares, LightStep
            DEF Loaded
<1> QED BY <1>4, <1>5

LEMMA WithSecretFits ==
    ASSUME IInv, FitInv, NEW p \in Processes, pc[p] = "fetching",
           NEW secret \in Clients \cup {NoClient}, WithSecret(p, secret),
           UNCHANGED <<rows, vault, issued, holder, usable, setting, lostTokens>>,
           disturbed \subseteq disturbed'
    PROVE  FitInv'
<1>1. JobOK("fetching", job[p], issued) /\ job[p] \in Job /\ Working(p)
    BY AtAwait DEF Working
<1>2. /\ job[p].refresh = 0
      /\ configured /\ job[p].scope \notin disturbed =>
            JobMatches(vault, holder, pc[p], job[p], rows[job[p].scope])
    BY <1>1, AtAwaitFit DEF JobFits, Loaded
<1>3. CASE End(p)
    BY <1>1, <1>3, EndFits DEF Loaded
<1>4. CASE Announce(p, "failed")
    BY <1>1, <1>4, AnnounceFits DEF Loaded
<1>5. ASSUME NEW step \in {"fetchingResponse", "asking"},
             step = "fetchingResponse" => job[p].kind = "refresh",
             Continue(p, step, [job[p] EXCEPT !.secret = secret])
      PROVE  FitInv'
    <2> DEFINE new == [job[p] EXCEPT !.secret = secret]
    <2>1. /\ new \in Job /\ new.copy = job[p].copy /\ new.status = job[p].status
          /\ new.scope = job[p].scope /\ new.kind = job[p].kind /\ new.refresh = 0
          /\ new.connection = job[p].connection
        BY <1>1, <1>2 DEF Job
    <2>2. Continue(p, step, new)
        BY <1>5
    <2> HIDE DEF new
    <2>3. configured /\ job[p].scope \in Scopes \ disturbed' =>
              JobMatches(vault', holder, step, new, rows[job[p].scope])
        BY <1>1, <1>2, <2>1 DEF JobMatches, JobOK, Loaded, HoldingConnection
    <2>4. ResponseDrawn(p, new)
        BY <2>1 DEF ResponseDrawn
    <2> QED BY <1>1, <1>5, <2>1, <2>2, <2>3, <2>4, SameVaultSpares, GoOnFits DEF Loaded
<1> QED BY <1>3, <1>4, <1>5 DEF WithSecret

LEMMA FetchSecretFits ==
    ASSUME IInv, FitInv, NEW p \in Processes, FetchSecret(p)
    PROVE  FitInv'
<1> DEFINE secret == IF configured THEN Fetched(job[p].connection.secretRef).client ELSE NoClient
<1>1. JobOK("fetching", job[p], issued)
    BY AtAwait DEF FetchSecret, Working
<1>2. job[p].connection.secretRef \in Refs \cup {NoRef}
    BY <1>1, RefsOfRows DEF JobOK, HoldingConnection
<1>3. secret \in Clients \cup {NoClient}
    BY <1>2, FetchedType DEF Secret, IInv
<1>4. WithSecret(p, secret) /\ pc[p] = "fetching"
    BY DEF FetchSecret
<1> HIDE DEF secret
<1> QED BY <1>3, <1>4, WithSecretFits DEF FetchSecret, providerVars, history

LEMMA FetchResponseFits ==
    ASSUME IInv, FitInv, NEW p \in Processes, FetchResponse(p)
    PROVE  FitInv'
<1> DEFINE ref == job[p].connection.responseRef
           response == Fetched(ref)
           new == [job[p] EXCEPT !.refresh = response.refresh]
<1>1. /\ JobOK("fetchingResponse", job[p], issued) /\ job[p] \in Job /\ Working(p)
      /\ job[p].scope \in Scopes /\ pc[p] = "fetchingResponse"
    BY AtAwait DEF FetchResponse, Working
<1>2. /\ job[p].kind = "refresh"
      /\ \A s \in Scopes : Keeps(s, ref) => job[p].scope = s
      /\ configured /\ job[p].scope \notin disturbed =>
            JobMatches(vault, holder, pc[p], job[p], rows[job[p].scope])
    BY <1>1, AtAwaitFit DEF JobFits
<1>3. UNCHANGED <<rows, vault, issued, holder, usable, setting, disturbed, lostTokens>>
    BY DEF FetchResponse, providerVars, history
<1>4. CASE End(p)
    BY <1>1, <1>3, <1>4, EndFits DEF Loaded
<1>5. CASE response.refresh # 0 /\ Continue(p, "asking", new)
    <2>1. ref \in Refs \cup {NoRef} /\ job[p].connection \in Row
        BY <1>1, RefsOfRows DEF JobOK, HoldingConnection
    <2>2. ref \in Refs /\ response = vault[ref] /\ response.refresh \in Tokens
        BY <1>5, <2>1, FetchedType DEF Fetched, NoSecret, Secret, IInv
    <2>3. /\ new \in Job /\ new.copy = job[p].copy /\ new.status = job[p].status
          /\ new.scope = job[p].scope /\ new.kind = "refresh" /\ new.refresh = vault[ref].refresh
          /\ new.connection = job[p].connection
        <3> HIDE DEF response, ref
        <3> QED BY <1>1, <1>2, <2>2 DEF Job
    <2> HIDE DEF new
    <2>4. OthersWait(p) /\ pc'[p] = "asking" /\ job'[p] = new
        BY <1>5, ContinueMoves
    <2>5. NamesStay
        BY <1>3, <2>3, <2>4, NamesStayThen
    <2>6. JobFits("asking", new)
        BY <2>2, <2>3 DEF FitInv, UsableInv, SecretsInv, JobFits, Loaded
    <2>7. UsableInv'
        BY <1>1, <1>2, <1>3, <2>1, <2>2, <2>3, <2>4, <2>5, <2>6, SameVaultSpares, UsableStep
           DEF FitInv, Loaded
    <2>8. configured /\ job[p].scope \in Scopes \ disturbed' =>
              JobMatches(vault', holder', "asking", new, rows'[job[p].scope])
        BY <1>1, <1>2, <1>3, <2>3 DEF JobMatches, JobOK, Loaded, HoldingConnection
    <2>9. MatchInv'
        BY <1>1, <1>3, <2>3, <2>4, <2>8, MatchStep DEF FitInv
    <2> QED BY <2>7, <2>9 DEF FitInv
<1> QED BY <1>4, <1>5 DEF FetchResponse

-----------------------------------------------------------------------------
(* The provider's answers fit.                                               *)

LEMMA RefusedFits ==
    ASSUME IInv, FitInv, NEW p \in Processes, pc[p] = "asking", Refused(p),
           UNCHANGED <<rows, vault, issued, holder, usable, setting, lostTokens>>,
           disturbed \subseteq disturbed'
    PROVE  FitInv'
<1>1. Working(p)
    BY DEF Working
<1>2. CASE End(p)
    BY <1>1, <1>2, EndFits DEF Loaded
<1>3. CASE Announce(p, "failed")
    BY <1>1, <1>3, AnnounceFits DEF Loaded
<1> QED BY <1>2, <1>3 DEF Refused

LEMMA RefuseFits ==
    ASSUME IInv, FitInv, NEW p \in Processes, Refuse(p)
    PROVE  FitInv'
BY RefusedFits DEF Refuse, providerVars, history

LEMMA FindUnreachableFits ==
    ASSUME IInv, FitInv, NEW p \in Processes, FindUnreachable(p)
    PROVE  FitInv'
BY RefusedFits DEF FindUnreachable, providerVars

\* What the provider does with a request it accepts: it numbers one more token,
\* and spends a refresh token only where it gives another for it.
LEMMA IssueFacts ==
    ASSUME IInv, UsableInv, NEW p \in Processes, pc[p] = "asking", Acceptable(p), CanIssue,
           NEW refresh \in NewRefreshTokens(p), Issue(p, refresh)
    PROVE  /\ issued \in Nat /\ issued' = issued + 1 /\ refresh \in {0, issued + 1}
           /\ usable \subseteq 1..issued
           /\ \A i \in 1..issued : holder'[i] = holder[i]
           /\ holder'[issued + 1] = job[p].connection.client
           /\ \A t \in usable : t \in usable' \/ (rotates /\ t = job[p].refresh /\ t # 0 /\ refresh # 0)
           /\ refresh # 0 => refresh \in usable'
           /\ refresh = 0 /\ job[p].refresh # 0 => job[p].refresh \in usable' /\ ~rotates
<1>1. issued \in Nat /\ issued' = issued + 1 /\ issued + 1 \in 1..MaxTokens
    BY IssuedIsNat, OAuthAssumption DEF Issue, CanIssue, IInv, Tokens
<1>2. refresh \in {0, issued + 1} /\ usable \subseteq 1..issued
    BY DEF NewRefreshTokens, IInv, TypeInv, OAuthTypeOK
<1>3. holder' = [holder EXCEPT ![issued + 1] = job[p].connection.client]
      /\ holder \in [1..MaxTokens -> Clients \cup {NoClient}]
    BY DEF Issue, IInv, TypeInv, OAuthTypeOK
<1>4. JobFits("asking", job[p])
    BY DEF UsableInv
<1>5. usable' = (IF job[p].kind = "refresh" /\ refresh # 0
                 THEN usable \ {job[p].refresh} ELSE usable) \cup ({refresh} \ {0})
    BY DEF Issue
<1>6. job[p].kind = "refresh" /\ refresh # 0 => job[p].refresh # 0 /\ rotates
    BY DEF NewRefreshTokens
<1>7. \A t \in usable : t \in usable' \/ (rotates /\ t = job[p].refresh /\ t # 0 /\ refresh # 0)
    BY <1>5, <1>6
<1>8. refresh = 0 /\ job[p].refresh # 0 => job[p].refresh \in usable' /\ ~rotates
    <2> SUFFICES ASSUME refresh = 0, job[p].refresh # 0
                 PROVE  job[p].refresh \in usable' /\ ~rotates
        OBVIOUS
    <2>1. job[p].kind = "refresh" /\ job[p].refresh \in usable
        BY <1>4 DEF JobFits, Acceptable
    <2>2. ~rotates
        BY <1>1, <2>1 DEF NewRefreshTokens
    <2> QED BY <1>5, <2>1, <2>2
<1> QED BY <1>1, <1>2, <1>3, <1>5, <1>7, <1>8

LEMMA IssueUsable ==
    ASSUME IInv, UsableInv, NEW p \in Processes, pc[p] = "asking", Acceptable(p), CanIssue,
           NEW refresh \in NewRefreshTokens(p), Issue(p, refresh),
           OthersWait(p), NamesStay, UNCHANGED <<vault, setting>>, lostTokens \subseteq lostTokens',
           \/ /\ pc'[p] = "loading" /\ job'[p].scope = job[p].scope /\ job'[p].connection = NoRow
              /\ job'[p].refresh = IF refresh # 0 THEN refresh ELSE job[p].refresh
           \/ /\ job[p].scope \in lostTokens'
              /\ \/ /\ pc'[p] \in {"idle", "reading"} /\ job'[p].refresh = 0
                    /\ job'[p].connection = NoRow
                 \/ pc'[p] = pc[p] /\ job'[p] = job[p]
    PROVE  UsableInv'
<1>1. /\ issued \in Nat /\ issued' = issued + 1 /\ refresh \in {0, issued + 1}
      /\ usable \subseteq 1..issued
      /\ \A t \in usable : t \in usable' \/ (rotates /\ t = job[p].refresh /\ t # 0 /\ refresh # 0)
      /\ refresh # 0 => refresh \in usable'
      /\ refresh = 0 /\ job[p].refresh # 0 => job[p].refresh \in usable' /\ ~rotates
    BY IssueFacts
<1>2. 0..issued \subseteq 0..issued' /\ (issued + 1) \notin 0..issued /\ issued + 1 \in 0..issued'
    BY <1>1
<1>3. JobFits("asking", job[p]) /\ (rotates' <=> rotates) /\ (configured' <=> configured)
    BY DEF UsableInv, rotates, configured
<1>4. SecretsInv'
    <2>1. SecretsInv
        BY DEF UsableInv
    <2>2. ~rotates => \A r \in Refs : vault[r].refresh \in usable' \cup {0}
        BY <1>1, <2>1 DEF SecretsInv
    <2> QED BY <1>2, <1>3, <2>1, <2>2 DEF SecretsInv
<1>5. ASSUME NEW q \in Processes PROVE JobFits(pc[q], job[q])'
    <2>1. CASE pc'[q] = pc[q] /\ job'[q] = job[q]
        <3>1. JobFits(pc[q], job[q])
            BY DEF UsableInv
        <3>2. pc[q] = "asking" /\ ~rotates => job[q].refresh \in usable' \cup {0}
            BY <1>1, <3>1 DEF JobFits
        <3>3. pc[q] \in Loaded => job[q].refresh \in usable' \cup {0}
            <4> SUFFICES ASSUME pc[q] \in Loaded, job[q].refresh # 0 PROVE job[q].refresh \in usable'
                BY DEF Loaded
            <4>1. job[q].refresh \in usable /\ q # p
                BY <3>1 DEF JobFits, Loaded
            <4>2. rotates => job[q].refresh # job[p].refresh
                BY <4>1 DEF UsableInv, HeldApart
            <4> QED BY <1>1, <4>1, <4>2
        <3> HIDE DEF Loaded
        <3> QED BY <1>2, <1>3, <2>1, <3>1, <3>2, <3>3 DEF JobFits
    <2>2. CASE q = p /\ pc'[p] = "loading" /\ job'[p].refresh = IF refresh # 0 THEN refresh ELSE job[p].refresh
        <3> DEFINE kept == job'[p].refresh
        <3>1. kept \in 0..issued' /\ kept \in usable' \cup {0}
            BY <1>1, <1>2, <1>3, <2>2 DEF JobFits
        <3>2. rotates => \A r \in Refs : vault[r].refresh = kept => kept = 0
            <4>1. \A r \in Refs : vault[r].refresh \in 0..issued
                BY DEF UsableInv, SecretsInv
            <4> QED BY <1>1, <1>2, <2>2, <4>1
        <3> HIDE DEF kept
        <3> QED BY <1>3, <2>2, <3>1, <3>2 DEF JobFits, Loaded, kept
    <2>3. CASE q = p /\ pc'[p] \in {"idle", "reading"} /\ job'[p].refresh = 0
        BY <1>2, <1>1, <2>3 DEF JobFits, Loaded
    <2> QED BY <2>1, <2>2, <2>3 DEF OthersWait
<1>6. HeldApart'
    <2> SUFFICES ASSUME rotates, NEW q \in Processes, NEW r \in Processes, q # r,
                        pc'[q] \in Loaded, pc'[r] \in Loaded \cup {"asking"}
                 PROVE  job'[q].refresh # job'[r].refresh \/ job'[q].refresh = 0
        BY <1>3 DEF HeldApart
    <2>1. \A o \in Processes \ {p} : pc'[o] = pc[o] /\ job'[o] = job[o] /\ job'[o].refresh \in 0..issued
        BY DEF OthersWait, UsableInv, JobFits
    <2>2. CASE pc'[p] = "loading" /\ job'[p].refresh = IF refresh # 0 THEN refresh ELSE job[p].refresh
        <3>1. job'[p].refresh \notin 0..issued \/ job'[p].refresh = 0
            BY <1>1, <1>2, <2>2
        <3>2. CASE q = p \/ r = p
            BY <2>1, <3>1, <3>2
        <3>3. CASE q # p /\ r # p
            BY <2>1, <3>3 DEF UsableInv, HeldApart
        <3> QED BY <3>2, <3>3
    <2>3. CASE pc'[p] \in {"idle", "reading"}
        <3>1. q # p /\ r # p
            BY <2>3 DEF Loaded
        <3> QED BY <2>1, <3>1 DEF UsableInv, HeldApart
    <2>4. CASE pc'[p] = pc[p] /\ job'[p] = job[p]
        BY <2>1, <2>4 DEF UsableInv, HeldApart
    <2> QED BY <2>2, <2>3, <2>4
<1>7. ConnectionsOwn'
    <2> SUFFICES ASSUME NEW q \in Processes, NEW s \in Scopes,
                        Keeps(s, job[q].connection.responseRef)'
                 PROVE  job'[q].scope = s
        BY DEF ConnectionsOwn
    <2>1. job'[q].connection = NoRow \/ job'[q] = job[q]
        BY DEF OthersWait
    <2>2. job[q].connection \in Row \cup {NoRow}
        BY DEF IInv, TypeInv, OAuthTypeOK, Job
    <2>3. job'[q].connection.responseRef \in Refs /\ Keeps(s, job'[q].connection.responseRef)
        BY <2>1, <2>2, RefsOfRows DEF NamesStay, Keeps
    <2> QED BY <2>1, <2>3, NoJobIsEmpty DEF UsableInv, ConnectionsOwn
<1>8. KeptInv'
    <2> SUFFICES ASSUME NEW s \in Scopes \ lostTokens'
                 PROVE  /\ \A r, q \in Refs : Keeps(s, r)' /\ Keeps(s, q)' => r = q
                        /\ \A r \in Refs : Keeps(s, r)' =>
                              \/ vault'[r].refresh \in usable' \cup {0}
                              \/ \E q \in Processes : job'[q].scope = s /\ pc'[q] \in Loaded
        BY DEF KeptInv
    <2>1. \A r, q \in Refs : Keeps(s, r)' /\ Keeps(s, q)' => r = q
        BY DEF UsableInv, KeptInv, NamesStay
    <2>2. ASSUME NEW r \in Refs, Keeps(s, r)'
          PROVE  \/ vault'[r].refresh \in usable' \cup {0}
                 \/ \E q \in Processes : job'[q].scope = s /\ pc'[q] \in Loaded
        <3>1. Keeps(s, r)
            BY <2>2 DEF NamesStay
        <3>2. CASE \E q \in Processes : job[q].scope = s /\ pc[q] \in Loaded
            <4>1. PICK q \in Processes : job[q].scope = s /\ pc[q] \in Loaded
                BY <3>2
            <4>2. q # p
                BY <4>1 DEF Loaded
            <4> QED BY <4>1, <4>2 DEF OthersWait
        <3>3. CASE vault[r].refresh \in usable /\ vault[r].refresh \notin usable'
            <4>1. /\ rotates /\ vault[r].refresh = job[p].refresh /\ job[p].refresh # 0
                BY <1>1, <3>3
            <4>2. r = job[p].connection.responseRef
                BY <1>3, <4>1 DEF JobFits
            <4>3. job[p].scope = s
                BY <3>1, <4>2 DEF UsableInv, ConnectionsOwn
            <4>4. job'[p].scope = s /\ pc'[p] \in Loaded
                BY <4>3 DEF Loaded
            <4> QED BY <4>4
        <3> QED BY <3>1, <3>2, <3>3 DEF UsableInv, KeptInv
    <2> QED BY <2>1, <2>2
<1> QED BY <1>4, <1>5, <1>6, <1>7, <1>8 DEF UsableInv

LEMMA AnswerFits ==
    ASSUME IInv, FitInv, NEW p \in Processes, Answer(p)
    PROVE  FitInv'
<1>1. PICK refresh \in NewRefreshTokens(p) :
          /\ Issue(p, refresh)
          /\ Continue(p, "loading",
                      [job[p] EXCEPT !.access = issued + 1, !.connection = NoRow, !.secret = NoClient,
                                     !.code = NoClient, !.refresh = IF refresh # 0 THEN refresh ELSE @])
    BY DEF Answer
<1>2. /\ JobOK("asking", job[p], issued) /\ job[p] \in Job /\ job[p].scope \in Scopes
      /\ Working(p) /\ pc[p] = "asking" /\ Acceptable(p) /\ CanIssue
    BY AtAwait DEF Answer, Working
<1>3. /\ issued \in Nat /\ refresh \in {0, issued + 1}
      /\ \A i \in 1..issued : holder'[i] = holder[i]
      /\ holder'[issued + 1] = job[p].connection.client
    BY <1>1, <1>2, IssueFacts DEF FitInv
<1> DEFINE kept == IF refresh # 0 THEN refresh ELSE job[p].refresh
           new == [job[p] EXCEPT !.access = issued + 1, !.connection = NoRow, !.secret = NoClient,
                                 !.code = NoClient, !.refresh = kept]
<1>4. Continue(p, "loading", new)
    BY <1>1
<1>5. /\ new.copy = job[p].copy /\ new.status = job[p].status /\ new.scope = job[p].scope
      /\ new.access = issued + 1 /\ new.connection = NoRow /\ new.refresh = kept
    <2> HIDE DEF kept
    <2> QED BY <1>2 DEF Job
<1> HIDE DEF new
<1>6. OthersWait(p) /\ pc'[p] = "loading" /\ job'[p] = new
    BY <1>4, ContinueMoves
<1>7. UNCHANGED <<rows, vault, setting, disturbed, lostTokens>>
    BY DEF Answer, history
<1>8. NamesStay
    BY <1>5, <1>6, <1>7, NamesStayThen
<1>9. UsableInv'
    BY <1>1, <1>2, <1>5, <1>6, <1>7, <1>8, IssueUsable DEF FitInv
<1>10. ASSUME configured, job[p].scope \notin disturbed
       PROVE  JobMatches(vault', holder', "loading", new, rows'[job[p].scope])
    <2>1. JobMatches(vault, holder, pc[p], job[p], rows[job[p].scope])
        BY <1>2, <1>10, AtAwaitFit
    <2>2. /\ Matches(vault, holder, rows[job[p].scope])
          /\ job[p].connection.client = rows[job[p].scope].client
        BY <1>2, <2>1 DEF JobMatches, HoldingConnection
    <2>3. Matches(vault, holder', rows[job[p].scope])
        <3>1. /\ rows[job[p].scope] \in Row \cup {NoRow}
              /\ rows[job[p].scope].expires \in 0..issued
            BY <1>2, AtAwait
        <3> QED BY <1>3, <2>2, <3>1, SpeaksStill DEF Matches
    <2>4. new.status # "exchanging"
        BY <1>2, <1>5 DEF JobOK
    <2> QED BY <1>3, <1>5, <1>7, <2>2, <2>3, <2>4 DEF JobMatches, Loaded, HoldingConnection
<1>11. MatchInv'
    BY <1>2, <1>3, <1>5, <1>6, <1>7, <1>10, MatchStep DEF FitInv
<1> QED BY <1>9, <1>11 DEF FitInv

LEMMA LoseAnswerFits ==
    ASSUME IInv, FitInv, NEW p \in Processes, LoseAnswer(p)
    PROVE  FitInv'
<1>1. PICK refresh \in NewRefreshTokens(p) : Issue(p, refresh)
    BY DEF LoseAnswer
<1>2. /\ job[p] \in Job /\ job[p].scope \in Scopes
      /\ Working(p) /\ pc[p] = "asking" /\ Acceptable(p) /\ CanIssue
    BY AtAwait DEF LoseAnswer, Working
<1>3. /\ issued \in Nat /\ \A i \in 1..issued : holder'[i] = holder[i]
    BY <1>1, <1>2, IssueFacts DEF FitInv
<1>4. /\ UNCHANGED <<rows, vault, setting>> /\ lostTokens \subseteq lostTokens'
      /\ job[p].scope \in lostTokens' /\ disturbed \subseteq disturbed'
      /\ job[p].scope \in disturbed'
    BY DEF LoseAnswer
<1>5. ASSUME NEW step, NEW new, Continue(p, step, new), new.scope \in {NoScope, job[p].scope},
             new.copy.responseRef \in {NoRef, job[p].copy.responseRef},
             new.scope = NoScope => new.copy = NoRow,
             \/ step \in {"idle", "reading"} /\ new.refresh = 0 /\ new.connection = NoRow
             \/ step = pc[p] /\ new = job[p]
      PROVE  FitInv'
    <2>1. OthersWait(p) /\ pc'[p] = step /\ job'[p] = new
        BY <1>5, ContinueMoves
    <2>2. NamesStay
        BY <1>4, <1>5, <2>1, NoRowIsNone, NamesStayThen
    <2>3. UsableInv'
        BY <1>1, <1>2, <1>4, <1>5, <2>1, <2>2, IssueUsable DEF FitInv
    <2>4. MatchInv'
        BY <1>2, <1>3, <1>4, <1>5, <2>1, OAuthAssumption, MatchStep DEF FitInv
    <2> QED BY <2>3, <2>4 DEF FitInv
<1>6. CASE End(p)
    BY <1>5, <1>6, NoJobIsEmpty, NoRowIsNone DEF End
<1>7. CASE Announce(p, "failed")
    <2> DEFINE new == Announcement(p, "failed")
    <2>1. Continue(p, "reading", new)
        BY <1>7 DEF Announce, Announcement
    <2>2. /\ new.scope = job[p].scope /\ new.copy = NoRow /\ new.connection = NoRow
          /\ new.refresh = 0
        <3>1. NoJob \in Job
            BY EmptyHanded DEF IInv
        <3> QED BY <3>1, NoJobIsEmpty DEF Announcement, Job
    <2> HIDE DEF new
    <2> QED BY <1>2, <1>5, <2>1, <2>2, NoRowIsNone, OAuthAssumption
<1>8. CASE UNCHANGED <<pc, job>>
    <2>1. Continue(p, pc[p], job[p])
        BY <1>8 DEF Continue, IInv, TypeInv, OAuthTypeOK
    <2> QED BY <1>2, <1>5, <2>1, OAuthAssumption
<1> QED BY <1>6, <1>7, <1>8 DEF LoseAnswer, Refused

-----------------------------------------------------------------------------
(* Storing tokens fits.                                                      *)

LEMMA ReadToStoreFits ==
    ASSUME IInv, FitInv, NEW p \in Processes, ReadToStore(p)
    PROVE  FitInv'
<1> DEFINE s == job[p].scope
<1>1. /\ JobOK("loading", job[p], issued) /\ job[p] \in Job /\ Working(p) /\ s \in Scopes
      /\ pc[p] = "loading" /\ rows[s] \in Row \cup {NoRow}
    BY AtAwait DEF ReadToStore, Working
<1>2. UNCHANGED <<rows, vault, issued, holder, usable, setting, disturbed>>
    BY DEF ReadToStore, providerVars
<1>3. CASE Exists(s)
    <2> DEFINE new == WithCopy(p, rows[s])
    <2>1. Continue(p, "keeping", new) /\ lostTokens' = lostTokens
        BY <1>3 DEF ReadToStore, WithCopy
    <2>2. /\ new \in Job /\ new.copy = rows[s] /\ new.scope = s /\ new.status = job[p].status
          /\ new.connection = job[p].connection
          /\ new.access = job[p].access /\ new.refresh = job[p].refresh
        BY <1>1, WithCopyFields, WithCopyRest
    <2> HIDE DEF new
    <2>3. OthersWait(p) /\ pc'[p] = "keeping" /\ job'[p] = new
        BY <2>1, ContinueMoves
    <2>4. NamesStay
        BY <1>1, <1>2, <2>2, <2>3, NamesStayThen
    <2>5. JobFits("keeping", new)
        <3>1. JobFits("loading", job[p])
            BY <1>1, AtAwaitFit
        <3> QED BY <2>2, <3>1 DEF JobFits, Loaded
    <2>6. new.connection \in Row \cup {NoRow}
          /\ \A t \in Scopes : Keeps(t, new.connection.responseRef) => new.scope = t
        BY <1>1, <2>2, AtAwaitFit DEF Job
    <2>7. UsableInv'
        BY <1>1, <1>2, <2>1, <2>2, <2>3, <2>4, <2>5, <2>6, SameVaultSpares, UsableStep
           DEF FitInv, Loaded
    <2>8. configured /\ s \in Scopes \ disturbed' => JobMatches(vault', holder', "keeping", new, rows'[s])
        <3>1. configured /\ s \notin disturbed => JobMatches(vault, holder, "loading", job[p], rows[s])
            BY <1>1, AtAwaitFit
        <3> QED BY <1>1, <1>2, <2>2, <3>1 DEF JobMatches, JobOK, Loaded, HoldingConnection
    <2>9. MatchInv'
        BY <1>1, <1>2, <2>2, <2>3, <2>8, MatchStep DEF FitInv
    <2> QED BY <2>7, <2>9 DEF FitInv
<1>4. CASE ~Exists(s)
    <2>1. Stored(p) /\ lostTokens' = lostTokens \cup {s} /\ rows[s] = NoRow
        BY <1>4 DEF ReadToStore, Exists
    <2>2. CASE End(p)
        BY <1>1, <1>2, <2>1, <2>2, EndFits
    <2>3. CASE Announce(p, "completed")
        BY <1>1, <1>2, <2>1, <2>3, AnnounceFits
    <2> QED BY <2>1, <2>2, <2>3 DEF Stored
<1> QED BY <1>3, <1>4

\* The tokens go into a secret that only the connection of p keeps tokens under,
\* or that nothing refers to.
LEMMA KeepingFits ==
    ASSUME IInv, FitInv, NEW p \in Processes, pc[p] = "keeping", configured,
           NEW ref \in Refs, NEW secret,
           secret.access = job[p].access, secret.refresh = job[p].refresh,
           vault' = [vault EXCEPT ![ref] = secret],
           NEW new \in Job, Continue(p, "completing", new),
           new.scope = job[p].scope, new.connection = job[p].connection,
           new.status = job[p].status, new.access = job[p].access, new.refresh = job[p].refresh,
           new.copy.responseRef = ref, new.copy.client = job[p].copy.client,
           UNCHANGED <<rows, issued, holder, usable, setting, disturbed>>,
           \/ ref = job[p].copy.responseRef /\ lostTokens' = lostTokens
           \/ /\ ref \in FreshNames /\ lostTokens \subseteq lostTokens'
              /\ KeptElsewhere(job[p].scope) => job[p].scope \in lostTokens'
    PROVE  FitInv'
<1> DEFINE s == job[p].scope
<1>1. /\ JobOK("keeping", job[p], issued) /\ job[p] \in Job /\ Working(p) /\ s \in Scopes
      /\ issued \in Nat /\ rows[s] \in Row \cup {NoRow} /\ job[p].copy \in Row
    BY AtAwait DEF Working, JobOK, HoldingCopy
<1>2. \A r \in Refs : vault'[r] = IF r = ref THEN secret ELSE vault[r]
    BY DEF IInv, TypeInv, OAuthTypeOK
<1>3. OthersWait(p) /\ pc'[p] = "completing" /\ job'[p] = new
    BY ContinueMoves
<1>4. /\ JobFits("keeping", job[p]) /\ SecretsInv /\ HeldApart /\ ConnectionsOwn /\ KeptInv
      /\ \A q \in Processes : JobFits(pc[q], job[q])
    BY DEF FitInv, UsableInv
<1>5. (rotates' <=> rotates) /\ (configured' <=> configured) /\ ref # NoRef
    BY OAuthAssumption DEF rotates, configured
<1>6. job[p].refresh \in 0..issued /\ job[p].refresh \in usable \cup {0}
    BY <1>4 DEF JobFits, Loaded
<1>7. \A t \in Scopes, r \in Refs : Keeps(t, r)' => Keeps(t, r) \/ (t = s /\ r = ref)
    BY <1>3, <1>1 DEF Keeps, OthersWait
<1>8. \A t \in Scopes : Keeps(t, ref) => t = s
    <2>1. CASE ref = job[p].copy.responseRef
        BY <1>1, <1>5, <2>1, OwnCopy DEF IInv, VaultInv
    <2>2. CASE ref \in FreshNames
        BY <1>5, <2>2 DEF FreshNames, Referred, Keeps
    <2> QED BY <2>1, <2>2
<1>9. SecretsInv'
    <2>1. \A r \in Refs : vault'[r].refresh \in 0..issued
        BY <1>2, <1>4, <1>6 DEF SecretsInv
    <2>2. ~rotates => \A r \in Refs : vault'[r].refresh \in usable \cup {0}
        BY <1>2, <1>4, <1>6 DEF SecretsInv
    <2>3. rotates => \A r, q \in Refs :
              vault'[r].refresh = vault'[q].refresh => r = q \/ vault'[r].refresh = 0
        BY <1>2, <1>4 DEF SecretsInv, JobFits, Loaded
    <2> QED BY <1>5, <2>1, <2>2, <2>3 DEF SecretsInv
<1>10. ASSUME NEW q \in Processes PROVE JobFits(pc[q], job[q])'
    <2>1. CASE q = p
        BY <1>3, <1>5, <1>6, <2>1 DEF JobFits, Loaded
    <2>2. CASE q # p
        <3>1. JobFits(pc[q], job[q]) /\ pc'[q] = pc[q] /\ job'[q] = job[q]
            BY <1>3, <1>4, <2>2 DEF OthersWait
        <3>2. rotates /\ pc[q] \in Loaded \cup {"asking"} =>
                  job[p].refresh # job[q].refresh \/ job[p].refresh = 0
            BY <1>4, <2>2 DEF HeldApart, Loaded
        <3>3. pc[q] = "asking" /\ rotates =>
                  \A r \in Refs : vault'[r].refresh = job[q].refresh /\ job[q].refresh # 0 =>
                      r = job[q].connection.responseRef
            BY <1>2, <3>1, <3>2 DEF JobFits
        <3>4. pc[q] \in Loaded /\ rotates =>
                  \A r \in Refs : vault'[r].refresh = job[q].refresh => job[q].refresh = 0
            BY <1>2, <3>1, <3>2 DEF JobFits
        <3> QED BY <1>5, <3>1, <3>3, <3>4 DEF JobFits
    <2> QED BY <2>1, <2>2
<1>11. HeldApart'
    BY <1>3, <1>4, <1>5 DEF HeldApart, OthersWait, Loaded
<1>12. ConnectionsOwn'
    <2> SUFFICES ASSUME NEW q \in Processes, NEW t \in Scopes,
                        Keeps(t, job[q].connection.responseRef)'
                 PROVE  job'[q].scope = t
        BY DEF ConnectionsOwn
    <2>1. /\ job'[q].connection = job[q].connection /\ job'[q].scope = job[q].scope
          /\ job[q].connection \in Row \cup {NoRow}
        BY <1>3 DEF OthersWait, IInv, TypeInv, OAuthTypeOK, Job
    <2>2. job[q].connection.responseRef \in Refs
        BY <2>1, RefsOfRows DEF Keeps
    <2>3. CASE Keeps(t, job[q].connection.responseRef)
        BY <1>4, <2>1, <2>3 DEF ConnectionsOwn
    <2>4. CASE t = s /\ job[q].connection.responseRef = ref
        <3>1. ref \notin FreshNames
            BY <2>4 DEF FreshNames, Referred
        <3>2. Keeps(s, ref)
            BY <1>5, <3>1, OwnCopy
        <3> QED BY <1>1, <1>4, <2>1, <2>4, <3>2 DEF ConnectionsOwn
    <2> QED BY <1>7, <2>1, <2>2, <2>3, <2>4
<1>13. KeptInv'
    <2> SUFFICES ASSUME NEW t \in Scopes \ lostTokens'
                 PROVE  /\ \A r, q \in Refs : Keeps(t, r)' /\ Keeps(t, q)' => r = q
                        /\ \A r \in Refs : Keeps(t, r)' =>
                              \/ vault'[r].refresh \in usable \cup {0}
                              \/ \E q \in Processes : job'[q].scope = t /\ pc'[q] \in Loaded
        BY DEF KeptInv
    <2>1. t \in Scopes \ lostTokens
        OBVIOUS
    <2>2. t = s => \A r \in Refs : Keeps(t, r) => r = ref
        <3>1. CASE ref = job[p].copy.responseRef
            BY <1>4, <1>5, <2>1, <3>1, OwnCopy DEF KeptInv
        <3>2. CASE ~KeptElsewhere(s)
            BY <3>2 DEF KeptElsewhere, Keeps
        <3> QED BY <3>1, <3>2
    <2>3. \A r, q \in Refs : Keeps(t, r)' /\ Keeps(t, q)' => r = q
        BY <1>4, <1>7, <2>1, <2>2 DEF KeptInv
    <2>4. ASSUME NEW r \in Refs, Keeps(t, r)'
          PROVE  \/ vault'[r].refresh \in usable \cup {0}
                 \/ \E q \in Processes : job'[q].scope = t /\ pc'[q] \in Loaded
        <3>1. CASE r = ref
            BY <1>2, <1>6, <3>1
        <3>2. CASE r # ref
            <4>1. Keeps(t, r) /\ t # s /\ vault'[r] = vault[r]
                BY <1>2, <1>7, <2>2, <2>4, <3>2
            <4>2. CASE \E q \in Processes : job[q].scope = t /\ pc[q] \in Loaded
                <5>1. PICK q \in Processes : job[q].scope = t /\ pc[q] \in Loaded
                    BY <4>2
                <5> QED BY <1>3, <4>1, <5>1 DEF OthersWait
            <4> QED BY <1>4, <2>1, <4>1, <4>2 DEF KeptInv
        <3> QED BY <3>1, <3>2
    <2> QED BY <2>3, <2>4
<1>14. UsableInv'
    BY <1>9, <1>10, <1>11, <1>12, <1>13 DEF UsableInv
<1>15. configured /\ s \in Scopes \ disturbed' => JobMatches(vault', holder', "completing", new, rows'[s])
    <2>1. configured /\ s \notin disturbed => JobMatches(vault, holder, "keeping", job[p], rows[s])
        BY <1>1, AtAwaitFit DEF FitInv
    <2>2. vault'[ref].access = job[p].access /\ new.status # "exchanging"
        BY <1>1, <1>2 DEF JobOK
    <2> QED BY <1>1, <1>5, <2>1, <2>2 DEF JobMatches, Loaded, HoldingConnection
<1>16. MatchInv'
    BY <1>1, <1>2, <1>3, <1>8, <1>15, MatchStep DEF FitInv
<1> QED BY <1>14, <1>16 DEF FitInv

LEMMA KeepTokensFits ==
    ASSUME IInv, FitInv, NEW p \in Processes, KeepTokens(p)
    PROVE  FitInv'
<1> DEFINE row == job[p].copy
           response == [NoSecret EXCEPT !.access = job[p].access, !.refresh = job[p].refresh]
<1>1. /\ JobOK("keeping", job[p], issued) /\ job[p] \in Job /\ Working(p) /\ pc[p] = "keeping"
      /\ row \in Row /\ row.responseRef \in Refs \cup {NoRef}
    BY AtAwait DEF KeepTokens, Working, JobOK, HoldingCopy, Row
<1>2. response.access = job[p].access /\ response.refresh = job[p].refresh
    BY DEF NoSecret
<1>3. UNCHANGED <<rows, issued, holder, usable, setting>>
    BY DEF KeepTokens, providerVars
<1> HIDE DEF response
<1>4. CASE Abandon(p) /\ UNCHANGED vault
    BY <1>1, <1>4, AbandonFits DEF KeepTokens
<1>5. CASE ~configured /\ Stored(p) /\ UNCHANGED <<vault, disturbed, lostTokens>>
    <2>1. CASE End(p)
        BY <1>1, <1>3, <1>5, <2>1, EndFits
    <2>2. CASE Announce(p, "completed")
        BY <1>1, <1>3, <1>5, <2>2, AnnounceFits
    <2> QED BY <1>5, <2>1, <2>2 DEF Stored
<1>6. CASE /\ configured /\ Settable(row.responseRef) /\ SetSecret(row.responseRef, response)
           /\ GoTo(p, "completing") /\ UNCHANGED <<disturbed, lostTokens>>
    <2>1. row.responseRef \in Refs /\ vault' = [vault EXCEPT ![row.responseRef] = response]
          /\ Continue(p, "completing", job[p])
        BY <1>1, <1>6 DEF Settable, SetSecret, GoTo
    <2> QED BY <1>1, <1>2, <1>3, <1>6, <2>1, KeepingFits
<1>7. CASE /\ configured
           /\ \E ref \in FreshNames :
                 /\ SetSecret(ref, response)
                 /\ Continue(p, "completing", [job[p] EXCEPT !.copy.responseRef = ref])
           /\ lostTokens' = lostTokens \cup (IF KeptElsewhere(job[p].scope) THEN {job[p].scope} ELSE {})
           /\ UNCHANGED disturbed
    <2>1. PICK ref \in FreshNames :
              /\ SetSecret(ref, response)
              /\ Continue(p, "completing", [job[p] EXCEPT !.copy.responseRef = ref])
        BY <1>7
    <2> DEFINE copy == [row EXCEPT !.responseRef = ref]
               new == WithCopy(p, copy)
    <2>2. copy \in Row /\ copy.client = row.client /\ copy.responseRef = ref /\ ref \in Refs
        BY <1>1 DEF Row, FreshNames
    <2>3. Continue(p, "completing", new)
        BY <2>1 DEF WithCopy
    <2> HIDE DEF copy
    <2>4. /\ new \in Job /\ new.copy = copy /\ new.scope = job[p].scope
          /\ new.connection = job[p].connection /\ new.status = job[p].status
          /\ new.access = job[p].access /\ new.refresh = job[p].refresh
        BY <1>1, <2>2, WithCopyFields, WithCopyRest
    <2> HIDE DEF new
    <2>5. vault' = [vault EXCEPT ![ref] = response]
        BY <2>1 DEF SetSecret
    <2>6. /\ lostTokens \subseteq lostTokens' /\ disturbed' = disturbed
          /\ KeptElsewhere(job[p].scope) => job[p].scope \in lostTokens'
        BY <1>7
    <2> QED BY <1>1, <1>2, <1>3, <1>7, <2>1, <2>2, <2>3, <2>4, <2>5, <2>6, KeepingFits
<1> QED BY <1>4, <1>5, <1>6, <1>7 DEF KeepTokens, response

LEMMA CompleteFits ==
    ASSUME IInv, FitInv, NEW p \in Processes, Complete(p)
    PROVE  FitInv'
<1> DEFINE s == job[p].scope
           copy == [job[p].copy EXCEPT !.status = "completed", !.expires = job[p].access]
           row == Merged(rows[s], copy)
<1>1. /\ JobOK("completing", job[p], issued) /\ job[p] \in Job /\ Working(p) /\ s \in Scopes
      /\ rows[s] \in Row \cup {NoRow} /\ pc[p] = "completing" /\ s # NoScope
      /\ job[p].access # 0
    BY AtAwait, OAuthAssumption DEF Complete, Working, JobOK
<1>2. /\ copy \in Row /\ copy.expires = job[p].access /\ copy.status = "completed"
      /\ copy.responseRef = job[p].copy.responseRef /\ copy.client = job[p].copy.client
    BY <1>1 DEF JobOK, HoldingCopy, Row, Job, Statuses, OAuthStatus
<1>3. /\ Upsert(p, copy) /\ Stored(p)
      /\ UNCHANGED <<vault, issued, holder, usable, setting, disturbed, lostTokens>>
    BY DEF Complete, providerVars, history
<1> HIDE DEF copy
<1>4. configured /\ s \notin disturbed => Speaks(vault, holder, row) /\ row.client = copy.client
    <2>1. configured /\ s \notin disturbed => JobMatches(vault, holder, "completing", job[p], rows[s])
        BY <1>1, AtAwaitFit
    <2>2. /\ row.client = copy.client
          /\ row.responseRef = IF copy.responseRef = NoRef THEN rows[s].responseRef ELSE copy.responseRef
          /\ row.expires = IF copy.expires = 0 THEN rows[s].expires ELSE copy.expires
        BY <1>2, MergedTokens
    <2> HIDE DEF row
    <2> QED BY <1>1, <1>2, <2>1, <2>2 DEF JobMatches, Speaks
<1> HIDE DEF row
<1>5. CASE End(p)
    <2>1. Continue(p, "idle", NoJob) /\ NoJob \in Job
        BY <1>5, EmptyHanded DEF End, IInv
    <2> QED BY <1>1, <1>2, <1>3, <1>4, <2>1, NoJobIsEmpty, UpsertFits DEF Matches, Loaded, row
<1>6. CASE Announce(p, "completed")
    <2> DEFINE new == Announcement(p, "completed")
    <2>1. Continue(p, "reading", new)
        BY <1>6 DEF Announce, Announcement
    <2>2. /\ new \in Job /\ new.scope = s /\ new.copy = NoRow /\ new.connection = NoRow
          /\ new.refresh = 0 /\ new.status = "completed"
        <3>1. job[p].kind \in Kinds \cup {"none"} /\ "completed" \in Statuses
            BY <1>1 DEF Job, Statuses, OAuthStatus
        <3> QED BY <1>1, <3>1, NoJobIsEmpty, EmptyHanded DEF Announcement, Job, IInv
    <2> HIDE DEF new
    <2>3. configured /\ s \notin disturbed =>
              Matches(vault, holder, row) /\ JobMatches(vault, holder, "reading", new, row)
        BY <1>4, <2>2 DEF Matches, JobMatches, Loaded, HoldingConnection
    <2> QED BY <1>1, <1>2, <1>3, <2>1, <2>2, <2>3, UpsertFits DEF Loaded, row
<1> QED BY <1>3, <1>5, <1>6 DEF Stored

-----------------------------------------------------------------------------
(* Time and failures fit.                                                    *)

LEMMA NothingMoves ==
    ASSUME FitInv, UNCHANGED <<rows, vault, providerVars, setting, pc, job, history>>
    PROVE  FitInv'
<1>1. UNCHANGED <<rows, vault, issued, holder, usable, setting, pc, job, disturbed, lostTokens>>
    BY DEF providerVars, history
<1>2. (configured' <=> configured) /\ (rotates' <=> rotates)
    BY <1>1 DEF configured, rotates
<1>3. SecretsInv' /\ HeldApart' /\ \A p \in Processes : JobFits(pc[p], job[p])'
    BY <1>1, <1>2 DEF FitInv, UsableInv, SecretsInv, HeldApart, JobFits
<1>4. ConnectionsOwn' /\ KeptInv'
    BY <1>1 DEF FitInv, UsableInv, ConnectionsOwn, KeptInv, Keeps
<1>5. MatchInv'
    BY <1>1, <1>2 DEF FitInv, MatchInv
<1> QED BY <1>3, <1>4, <1>5 DEF FitInv, UsableInv

LEMMA FailFits ==
    ASSUME IInv, FitInv, NEW p \in Processes, Fail(p)
    PROVE  FitInv'
<1>1. UNCHANGED <<rows, vault, providerVars, soon, setting, deleted>>
    BY DEF Fail
<1>2. CASE Working(p) /\ Abandon(p)
    BY <1>1, <1>2, AbandonFits
<1>3. CASE disturbed' = disturbed \cup {job[p].scope} /\ UNCHANGED lostTokens /\ Working(p)
    <2>1. /\ JobOK(pc[p], job[p], issued) /\ job[p] \in Job
          /\ JobFits(pc[p], job[p]) /\ NoTokensKept /\ Spared(p)
        BY <1>1, <1>3, AtAwait, AtAwaitFit, SameVaultSpares
    <2>2. UNCHANGED <<rows, vault, issued, holder, usable, setting, lostTokens>>
          /\ disturbed \subseteq disturbed' /\ job[p].scope \in disturbed'
        BY <1>1, <1>3 DEF providerVars
    <2>3. CASE pc[p] = "removingSecret" /\ GoTo(p, "removingResponse")
        <3>1. ResponseDrawn(p, job[p]) /\ job[p].refresh = 0
            BY <2>1, <2>3 DEF ResponseDrawn, JobFits, Loaded
        <3> QED BY <1>3, <2>1, <2>2, <2>3, <3>1, GoOnFits DEF GoTo, Loaded
    <2>4. CASE /\ pc[p] = "removingResponse"
               /\ Continue(p, "removingRow", [job[p] EXCEPT !.copy = NoRow])
        BY <2>1, <2>2, <2>4, ToRemoveRowFits
    <2>5. CASE pc[p] = "fetching" /\ WithSecret(p, NoClient)
        BY <2>2, <2>5, WithSecretFits
    <2> QED BY <1>2, <1>3, <2>3, <2>4, <2>5 DEF Fail, Working
<1> QED BY <1>2, <1>3 DEF Fail, Working

LEMMA DieFits ==
    ASSUME IInv, FitInv, NEW p \in Processes, Die(p)
    PROVE  FitInv'
BY BreakOffFits DEF Die

-----------------------------------------------------------------------------
(* Every step fits.                                                          *)

LEMMA InitFits == OAuthInit => FitInv
<1> SUFFICES ASSUME OAuthInit PROVE FitInv
    OBVIOUS
<1>1. /\ \A p \in Processes : pc[p] = "idle" /\ job[p] = NoJob
      /\ \A s \in Scopes : rows[s] = NoRow
      /\ \A r \in Refs : vault[r] = NoSecret
      /\ issued = 0
    BY DEF OAuthInit
<1>2. \A s \in Scopes, r \in Refs : ~Keeps(s, r)
    BY <1>1, NoRowIsNone, NoJobIsEmpty DEF Keeps
<1>3. SecretsInv
    BY <1>1 DEF SecretsInv, NoSecret
<1>4. \A p \in Processes : JobFits(pc[p], job[p])
    BY <1>1, NoJobIsEmpty DEF JobFits, Loaded
<1>5. HeldApart
    BY <1>1 DEF HeldApart, Loaded
<1>6. ConnectionsOwn
    BY <1>1, <1>2, NoRowIsNone, NoJobIsEmpty DEF ConnectionsOwn
<1>7. KeptInv
    BY <1>2 DEF KeptInv
<1>8. MatchInv
    BY <1>1, NoRowIsNone, NoJobIsEmpty DEF MatchInv, Matches
<1> QED BY <1>3, <1>4, <1>5, <1>6, <1>7, <1>8 DEF FitInv, UsableInv

LEMMA RequestFits ==
    ASSUME IInv, FitInv, NEW p \in Processes, Request(p)
    PROVE  FitInv'
<1>1. setting.scope[p] \in Scopes /\ setting.clients \subseteq Clients /\ Global \in Scopes
    BY IssuedIsNat, OAuthAssumption DEF IInv, Setting
<1>2. CASE BeginSweep(p)
    BY <1>1, <1>2, BeginOthersFit
<1>3. CASE \E code \in Clients \cup {NoClient} : BeginCallback(p, code)
    BY <1>3, BeginCallbackFits
<1>4. CASE \E flow \in setting.flows, client \in setting.clients :
              BeginCreate(p, setting.scope[p], flow, client)
    BY <1>4, BeginCreateFits
<1>5. CASE \E client \in setting.clients \cup {NoClient} : BeginUpdate(p, setting.scope[p], client)
    BY <1>1, <1>5, BeginOthersFit
<1>6. CASE \/ BeginDelete(p, setting.scope[p]) \/ BeginRefresh(p, setting.scope[p])
           \/ BeginAuthorize(p, setting.scope[p]) \/ BeginCancel(p, setting.scope[p])
    BY <1>1, <1>6, BeginOthersFit
<1> QED BY <1>2, <1>3, <1>4, <1>5, <1>6 DEF Request

LEMMA NextFits == IInv /\ FitInv /\ [OAuthNext]_oauthVars => FitInv'
<1> SUFFICES ASSUME IInv, FitInv, [OAuthNext]_oauthVars PROVE FitInv'
    OBVIOUS
<1>1. ASSUME NEW p \in Processes, Progress(p) PROVE FitInv'
    BY <1>1, SetClientSecretFits, InsertFits, ReadToUpdateFits, ChangeSecretFits, WriteUpdateFits,
       ReadToDeleteFits, RemoveSecretFits, RemoveResponseFits, RemoveRowFits, ReadStatusFits,
       MarkStatusFits, FindFits, FetchSecretFits, FetchResponseFits, AnswerFits, RefuseFits,
       ReadToStoreFits, KeepTokensFits, CompleteFits DEF Progress
<1>2. ASSUME NEW p \in Processes, Disruption(p) PROVE FitInv'
    BY <1>2, FindUnreachableFits, LoseAnswerFits, FailFits, DieFits DEF Disruption
<1>3. ASSUME NEW t \in Tokens, Age(t) PROVE FitInv'
    BY <1>3, NothingMoves DEF Age
<1>4. CASE UNCHANGED oauthVars
    BY <1>4, NothingMoves DEF oauthVars
<1> QED BY <1>1, <1>2, <1>3, <1>4, RequestFits DEF OAuthNext

\* The refresh token a connection keeps is one the provider still accepts, unless
\* an answer was lost or two requests stored first answers at once; where requests
\* do not overlap, the row of a completed connection speaks of the token it keeps
\* (refresh_token, store_tokens, update_connection).
THEOREM TokensFitAlways == OAuthSpec => []TokensFit
<1>1. ASSUME IInv, FitInv PROVE StoredTokenUsable
    <2> SUFFICES ASSUME NEW s \in Scopes \ lostTokens, rows[s].responseRef # NoRef,
                        \A p \in Processes : job[p].scope = s => pc[p] \notin {"loading", "keeping"}
                 PROVE  vault[rows[s].responseRef].refresh \in usable \cup {0}
        BY DEF StoredTokenUsable
    <2>1. rows[s] \in Row \cup {NoRow}
        BY <1>1 DEF IInv, TypeInv, OAuthTypeOK
    <2>2. rows[s].responseRef \in Refs /\ Keeps(s, rows[s].responseRef)
        BY <2>1, RefsOfRows DEF Keeps
    <2> QED BY <1>1, <2>2 DEF FitInv, UsableInv, KeptInv, Loaded
<1>2. ASSUME FitInv PROVE TokensMatchRow
    BY <1>2 DEF TokensMatchRow, FitInv, MatchInv, Matches, Speaks
<1> QED BY <1>1, <1>2, InitHolds, NextHolds, InitFits, NextFits, PTL DEF OAuthSpec, TokensFit
=============================================================================
