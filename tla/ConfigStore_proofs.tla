--------------------------- MODULE ConfigStore_proofs ---------------------------
(***************************************************************************)
(* What holds of the configuration for any callers, values, secrets and keys: *)
(* rows stand for what they were last set to, a read answers with what the   *)
(* key stood for at one moment of it, and a revoked key stays revoked.       *)
(***************************************************************************)
EXTENDS ConfigStore, TLAPS

\* What a caller holds at the step where it is.
HoldingInv ==
    \A p \in Callers :
        /\ pc[p] \in {"store", "point", "create"} => call[p].value \in Values
        /\ pc[p] \in {"store", "point", "create", "remove", "resolve"} => call[p].name \in Names
        /\ pc[p] = "point" => vault[call[p].name] # NoSecret
        /\ pc[p] \in {"revoke", "touch"} => call[p].key \in Keys

\* SetsStay also while changes are under way: two of them are noted as overlapping, and one
\* alone finds its secret in Key Vault when it writes the row.
DueInv ==
    /\ \A s \in Scopes : Resolved(rows[s]) \in due[s]
    /\ \A p, q \in Changing : p # q => mixed = TRUE
    /\ \A p \in Callers : pc[p] = "point" /\ mixed = FALSE => vault[call[p].name] = call[p].value

\* The row that a lookup takes.
Taken == IF rows["org"] # Absent THEN rows["org"] ELSE rows["GLOBAL"]

\* What a reader is about to read is one of the values seen, before a second change.
ReadInv ==
    \A p \in Callers :
        /\ pc[p] = "global" /\ seen[p].changes < 2 => Resolved(rows["GLOBAL"]) \in seen[p].values
        /\ pc[p] = "global" /\ seen[p].changes = 0 => rows["org"] = Absent
        /\ pc[p] = "resolve" /\ seen[p].changes < 2 => vault[call[p].name] \in seen[p].values
        /\ pc[p] = "resolve" /\ seen[p].changes = 0 =>
              Taken.type = "secret_ref" /\ Taken.value = call[p].name
        /\ pc[p] = "answered" /\ seen[p].changes < 2 => call[p].value \in seen[p].values

StoreInv == ConfigTypeOK /\ HoldingInv /\ DueInv /\ ReadInv /\ RevokedStays

-----------------------------------------------------------------------------
(* Rows, calls and values.                                                   *)

LEMMA RowKinds ==
    /\ Absent \in Row
    /\ \A v \in Values : [type |-> "string", value |-> v] \in Row
    /\ \A n \in Names : [type |-> "secret_ref", value |-> n] \in Row
BY ConfigAssumption DEF Row, Types, Absent, Names

LEMMA ResolvedType ==
    ASSUME ConfigTypeOK, NEW s \in Scopes
    PROVE  Resolved(rows[s]) \in Outcomes
BY DEF ConfigTypeOK, Resolved, Outcomes, Row, Types

LEMMA LookupType == ConfigTypeOK => Lookup("org") \in Outcomes
BY ResolvedType DEF Lookup, Scopes

LEMMA CallKinds ==
    /\ NoCall \in Call
    /\ \A k \in Kinds, key \in Keys : [NoCall EXCEPT !.kind = k, !.key = key] \in Call
BY DEF NoCall, Call, Outcomes, Scopes

\* A write that is noted leaves what readers have seen a set of values.
LEMMA NotedType ==
    ASSUME ConfigTypeOK, Noted, Lookup("org")' \in Outcomes
    PROVE  seen' \in [Callers -> [changes: 0..2, values: SUBSET Outcomes]]
<1>1. ASSUME NEW q \in Callers
      PROVE  seen'[q] \in [changes: 0..2, values: SUBSET Outcomes]
    <2>1. seen[q] \in [changes: 0..2, values: SUBSET Outcomes]
        BY DEF ConfigTypeOK
    <2> QED BY <2>1 DEF Noted
<1> QED BY <1>1 DEF Noted

\* So do the values that rows may stand for.
LEMMA OweType ==
    ASSUME ConfigTypeOK, NEW p, NEW s \in Scopes, NEW O \in SUBSET Outcomes, Owe(p, s, O)
    PROVE  due' \in [Scopes -> SUBSET Outcomes] /\ mixed' \in BOOLEAN
BY DEF ConfigTypeOK, Owe

LEMMA OweSharersType ==
    ASSUME ConfigTypeOK, NEW p, NEW n, NEW o \in Outcomes, OweSharers(p, n, o)
    PROVE  due' \in [Scopes -> SUBSET Outcomes] /\ mixed' \in BOOLEAN
BY DEF ConfigTypeOK, OweSharers

-----------------------------------------------------------------------------
(* Steps by what they write.                                                 *)

\* A row of one scope, for a value or a secret that was stored.
WritesRow(s) ==
    /\ vault' = vault
    /\ rows' \in [Scopes -> Row] /\ \A t \in Scopes \ {s} : rows'[t] = rows[t]
    /\ rows'[s].type = "secret_ref" /\ rows'[s].value \in Generated
          => vault[rows'[s].value] # NoSecret

\* A value under one name, or its deletion.
WritesVault(n) ==
    /\ rows' = rows
    /\ vault' \in [Names -> Values \cup {NoSecret, Deleted}]
    /\ \A m \in Names \ {n} : vault'[m] = vault[m]
    /\ vault'[n] # NoSecret

Writes == (\E s \in Scopes : WritesRow(s)) \/ (\E n \in Names : WritesVault(n))

LEMMA WritesType ==
    ASSUME ConfigTypeOK, Writes \/ UNCHANGED <<rows, vault>>
    PROVE  /\ rows' \in [Scopes -> Row]
           /\ vault' \in [Names -> Values \cup {NoSecret, Deleted}]
           /\ \A s \in Scopes :
                 rows'[s].type = "secret_ref" /\ rows'[s].value \in Generated
                    => vault'[rows'[s].value] # NoSecret
           /\ \A n \in Names : vault[n] # NoSecret => vault'[n] # NoSecret
           /\ \A s \in Scopes : Resolved(rows[s])' \in Outcomes
           /\ Lookup("org")' \in Outcomes
<1>1. /\ rows \in [Scopes -> Row] /\ vault \in [Names -> Values \cup {NoSecret, Deleted}]
      /\ \A s \in Scopes :
            rows[s].type = "secret_ref" /\ rows[s].value \in Generated
               => vault[rows[s].value] # NoSecret
    BY DEF ConfigTypeOK
<1>2. /\ rows' \in [Scopes -> Row]
      /\ vault' \in [Names -> Values \cup {NoSecret, Deleted}]
    BY <1>1 DEF Writes, WritesRow, WritesVault
<1>3. \A n \in Names : vault[n] # NoSecret => vault'[n] # NoSecret
    BY DEF Writes, WritesRow, WritesVault
<1>4. ASSUME NEW s \in Scopes, rows'[s].type = "secret_ref", rows'[s].value \in Generated
      PROVE  vault'[rows'[s].value] # NoSecret
    BY <1>1, <1>3, <1>4 DEF Writes, WritesRow, WritesVault, Names
<1>5. \A s \in Scopes : Resolved(rows[s])' \in Outcomes
    BY <1>2 DEF Resolved, Outcomes, Row, Types
<1>6. Lookup("org")' \in Outcomes
    BY <1>5 DEF Lookup, Scopes
<1> QED BY <1>2, <1>3, <1>4, <1>5, <1>6

-----------------------------------------------------------------------------
(* Readers.                                                                  *)

\* A caller other than p, or p itself, that was reading goes on with it.
ReadersGoOn ==
    \A q \in Callers : pc'[q] \in {"global", "resolve", "answered"} =>
        pc'[q] = pc[q] /\ call'[q] = call[q]

LEMMA ReadsUnmoved ==
    ASSUME StoreInv, ReadersGoOn, UNCHANGED <<rows, vault>>,
           \A q \in Callers : pc'[q] \in {"global", "resolve", "answered"} => seen'[q] = seen[q]
    PROVE  ReadInv'
BY DEF StoreInv, ReadInv, ReadersGoOn, Resolved, Taken

\* What a write of one row, or of one secret, adds to what was seen is what a reader that
\* started before it may still be about to read.
LEMMA ReadsNoted ==
    ASSUME StoreInv, ReadersGoOn, Writes, Noted
    PROVE  ReadInv'
<1>1. ConfigTypeOK /\ ReadInv
    BY DEF StoreInv
<1>2. rows \in [Scopes -> Row] /\ rows' \in [Scopes -> Row]
    BY <1>1, WritesType DEF ConfigTypeOK
<1> SUFFICES ASSUME NEW q \in Callers, pc'[q] \in {"global", "resolve", "answered"}
             PROVE  /\ pc'[q] = "global" /\ seen'[q].changes < 2
                          => Resolved(rows["GLOBAL"])' \in seen'[q].values
                    /\ pc'[q] = "global" /\ seen'[q].changes = 0 => rows'["org"] = Absent
                    /\ pc'[q] = "resolve" /\ seen'[q].changes < 2
                          => vault'[call'[q].name] \in seen'[q].values
                    /\ pc'[q] = "resolve" /\ seen'[q].changes = 0 =>
                          Taken'.type = "secret_ref" /\ Taken'.value = call'[q].name
                    /\ pc'[q] = "answered" /\ seen'[q].changes < 2
                          => call'[q].value \in seen'[q].values
    BY DEF ReadInv
<1>3. pc'[q] = pc[q] /\ call'[q] = call[q] /\ seen[q].changes \in 0..2
    BY <1>1 DEF ReadersGoOn, ConfigTypeOK
<1>4. CASE pc[q] = "answered"
    BY <1>1, <1>3, <1>4 DEF ReadInv, Noted
<1>5. CASE pc[q] \in {"global", "resolve"}
    <2>1. /\ seen'[q].changes # 0
          /\ seen'[q].changes < 2 => seen[q].changes = 0
          /\ seen'[q].values = seen[q].values \cup {Lookup("org")'}
        BY <1>3, <1>5 DEF Noted
    <2> SUFFICES ASSUME seen[q].changes = 0
                 PROVE  /\ pc[q] = "global" => Resolved(rows["GLOBAL"])' \in seen'[q].values
                        /\ pc[q] = "resolve" => vault'[call[q].name] \in seen'[q].values
        BY <1>3, <1>5, <2>1
    <2>2. CASE pc[q] = "global"
        <3>1. rows["org"] = Absent /\ Resolved(rows["GLOBAL"]) \in seen[q].values
            BY <1>1, <2>2 DEF ReadInv
        <3>2. CASE rows'["org"] = Absent
            BY <2>1, <2>2, <3>2 DEF Lookup
        <3>3. CASE rows'["org"] # Absent
            <4>1. vault' = vault /\ rows'["GLOBAL"] = rows["GLOBAL"]
                BY <3>1, <3>3 DEF Writes, WritesRow, WritesVault, Scopes
            <4>2. Resolved(rows["GLOBAL"])' = Resolved(rows["GLOBAL"])
                BY <4>1 DEF Resolved
            <4> QED BY <2>1, <2>2, <3>1, <4>2
        <3> QED BY <3>2, <3>3
    <2>3. CASE pc[q] = "resolve"
        <3>1. /\ Taken.type = "secret_ref" /\ Taken.value = call[q].name
              /\ vault[call[q].name] \in seen[q].values
            BY <1>1, <2>3 DEF ReadInv
        <3>2. CASE vault' = vault
            BY <2>1, <2>3, <3>1, <3>2
        <3>3. CASE rows' = rows
            <4>1. Taken' = Taken
                BY <3>3 DEF Taken
            <4>2. Lookup("org")' = vault'[call[q].name]
                BY <3>1, <3>3 DEF Lookup, Taken, Resolved
            <4> QED BY <2>1, <2>3, <4>2
        <3> QED BY <3>2, <3>3 DEF Writes, WritesRow, WritesVault
    <2> QED BY <1>5, <2>2, <2>3
<1> QED BY <1>3, <1>4, <1>5

-----------------------------------------------------------------------------
(* Changes of the configuration.                                             *)

\* The row of s is written to stand for o.
LEMMA DueRow ==
    ASSUME StoreInv, NEW p \in Callers, NEW s \in Scopes, NEW o \in Outcomes,
           WritesRow(s), Owe(p, s, {o}),
           mixed = FALSE /\ Changing \ {p} = {} => Resolved(rows[s])' = o,
           Changing' = Changing \ {p},
           \A q \in Callers : pc'[q] = "point" => pc[q] = "point" /\ call'[q] = call[q]
    PROVE  DueInv'
<1>1. ConfigTypeOK /\ DueInv /\ mixed \in BOOLEAN
    BY DEF StoreInv, ConfigTypeOK
<1>2. \A t \in Scopes : Resolved(rows[t])' \in Outcomes
    BY <1>1, WritesType DEF Writes
<1>3. Resolved(rows[s])' \in due'[s]
    BY <1>1, <1>2 DEF Owe, ConfigTypeOK
<1>4. ASSUME NEW t \in Scopes, t # s PROVE Resolved(rows[t])' \in due'[t]
    BY <1>1, <1>4 DEF Owe, ConfigTypeOK, WritesRow, Resolved, DueInv
<1>5. mixed' = FALSE => Changing' = {}
    BY DEF Owe
<1>6. \A q, r \in Changing' : q # r => mixed' = TRUE
    BY <1>5 DEF Owe
<1>7. \A q \in Callers : pc'[q] = "point" /\ mixed' = FALSE => vault'[call'[q].name] = call'[q].value
    BY <1>5 DEF Changing
<1> QED BY <1>3, <1>4, <1>6, <1>7 DEF DueInv

\* Key Vault has o under the name n.
LEMMA DueVault ==
    ASSUME StoreInv, NEW p \in Callers, NEW n \in Names, NEW o \in Outcomes,
           WritesVault(n), vault'[n] = o, OweSharers(p, n, o),
           Changing' = Changing \ {p}
    PROVE  DueInv'
<1>1. ConfigTypeOK /\ DueInv
    BY DEF StoreInv
<1>2. \A t \in Scopes : Resolved(rows[t])' \in Outcomes
    BY <1>1, WritesType DEF Writes
<1>3. ASSUME NEW t \in Sharing(n) PROVE Resolved(rows[t])' \in due'[t]
    BY <1>2 DEF OweSharers, Sharing, Resolved, WritesVault
<1>4. ASSUME NEW t \in Scopes, t \notin Sharing(n) PROVE Resolved(rows[t])' \in due'[t]
    <2>1. rows[t] \in Row /\ rows'[t] = rows[t]
        BY <1>1 DEF ConfigTypeOK, WritesVault
    <2>2. Resolved(rows[t])' = Resolved(rows[t])
        BY <1>4, <2>1 DEF WritesVault, Resolved, Sharing, Row, Types
    <2> QED BY <1>1, <1>4, <2>2 DEF OweSharers, DueInv
<1>5. mixed' = FALSE => Changing' = {}
    BY DEF OweSharers
<1>6. \A q, r \in Changing' : q # r => mixed' = TRUE
    BY <1>5 DEF OweSharers
<1>7. \A q \in Callers : pc'[q] = "point" /\ mixed' = FALSE => vault'[call'[q].name] = call'[q].value
    BY <1>5 DEF Changing
<1> QED BY <1>3, <1>4, <1>6, <1>7 DEF DueInv

\* A caller begins a change.
LEMMA DueBegun ==
    ASSUME StoreInv, NEW p \in Callers, UNCHANGED <<rows, vault, due>>,
           mixed' = (mixed \/ Changing # {}),
           Changing' = Changing \cup {p}, 
           \A q \in Callers : pc'[q] = "point" => pc[q] = "point" /\ call'[q] = call[q]
    PROVE  DueInv'
<1>1. DueInv /\ mixed \in BOOLEAN
    BY DEF StoreInv, ConfigTypeOK
<1>2. \A q, r \in Changing' : q # r => mixed' = TRUE
    BY <1>1 DEF DueInv
<1> QED BY <1>1, <1>2 DEF DueInv, Resolved

\* A caller gives up, or nothing of a change happens.
LEMMA DueLeft ==
    ASSUME StoreInv, NEW p \in Callers, UNCHANGED <<rows, vault>>,
           \A s \in Scopes : due[s] \subseteq due'[s],
           \/ mixed' = (mixed /\ Changing # {p}) /\ Changing' = Changing \ {p}
           \/ mixed' = mixed /\ Changing' = Changing,
           \A q \in Callers : pc'[q] = "point" => pc[q] = "point" /\ call'[q] = call[q]
    PROVE  DueInv'
<1>1. DueInv /\ mixed \in BOOLEAN
    BY DEF StoreInv, ConfigTypeOK
<1>2. \A s \in Scopes : Resolved(rows[s])' \in due'[s]
    BY <1>1 DEF DueInv, Resolved
<1>3. \A q, r \in Changing' : q # r => mixed' = TRUE
    BY <1>1 DEF DueInv
<1>4. \A q \in Callers : pc'[q] = "point" /\ mixed' = FALSE => vault'[call'[q].name] = call'[q].value
    BY <1>1 DEF DueInv, Changing
<1> QED BY <1>2, <1>3, <1>4 DEF DueInv

-----------------------------------------------------------------------------
(* Steps by what they leave alone.                                           *)

\* A write of a row or a secret, or none.
LEMMA TypeStep ==
    ASSUME ConfigTypeOK, Writes \/ UNCHANGED <<rows, vault>>,
           keys' \in [Keys -> {"none", "valid", "revoked"}], sealed' \subseteq Keys,
           pc' \in [Callers -> Steps], call' \in [Callers -> Call],
           scene' = scene, calls' \in 0..MaxCalls, breaks' \in 0..MaxBreaks,
           due' \in [Scopes -> SUBSET Outcomes], mixed' \in BOOLEAN,
           seen' \in [Callers -> [changes: 0..2, values: SUBSET Outcomes]]
    PROVE  ConfigTypeOK'
BY WritesType DEF ConfigTypeOK

LEMMA BoundsType ==
    ASSUME ConfigTypeOK
    PROVE  /\ UNCHANGED bounds => scene' = scene /\ calls' \in 0..MaxCalls /\ breaks' \in 0..MaxBreaks
           /\ \A k : Asked(k) => scene' = scene /\ calls' \in 0..MaxCalls
           /\ \A k : Counted(k) => breaks' \in 0..MaxBreaks
           /\ breaks < MaxBreaks => breaks + 1 \in 0..MaxBreaks
BY ConfigAssumption DEF ConfigTypeOK, bounds, Asked, Counted

\* What p holds after the step; the others keep what they hold.
LEMMA HoldingStep ==
    ASSUME StoreInv, NEW p \in Callers, Writes \/ UNCHANGED <<rows, vault>>,
           \A q \in Callers \ {p} : pc'[q] = pc[q] /\ call'[q] = call[q],
           pc'[p] \in {"store", "point", "create"} => call'[p].value \in Values,
           pc'[p] \in {"store", "point", "create", "remove", "resolve"} => call'[p].name \in Names,
           pc'[p] = "point" => vault'[call'[p].name] # NoSecret,
           pc'[p] \in {"revoke", "touch"} => call'[p].key \in Keys
    PROVE  HoldingInv'
<1>1. HoldingInv /\ ConfigTypeOK
    BY DEF StoreInv
<1>2. \A n \in Names : vault[n] # NoSecret => vault'[n] # NoSecret
    BY <1>1, WritesType
<1> QED BY <1>1, <1>2 DEF HoldingInv

LEMMA KeysUnmoved ==
    ASSUME StoreInv, UNCHANGED <<keys, sealed>>,
           \A q \in Callers : pc'[q] = "touch" => pc[q] = "touch" /\ call'[q] = call[q]
    PROVE  RevokedStays'
BY DEF StoreInv, RevokedStays, Accepting

\* p stops what it was doing.
LEMMA Answered ==
    ASSUME ConfigTypeOK, NEW p \in Callers, Answer(p)
    PROVE  /\ pc' \in [Callers -> Steps] /\ call' \in [Callers -> Call]
           /\ pc'[p] = "idle"
           /\ \A q \in Callers \ {p} : pc'[q] = pc[q] /\ call'[q] = call[q]
           /\ Changing' = Changing \ {p}
<1>1. pc \in [Callers -> Steps] /\ call \in [Callers -> Call]
    BY DEF ConfigTypeOK
<1>2. /\ pc' \in [Callers -> Steps] /\ call' \in [Callers -> Call]
      /\ pc'[p] = "idle"
      /\ \A q \in Callers \ {p} : pc'[q] = pc[q] /\ call'[q] = call[q]
    BY <1>1, CallKinds DEF Answer, Goto, Steps
<1> QED BY <1>2 DEF Changing

\* p starts, with the record it works on.
LEMMA Began ==
    ASSUME ConfigTypeOK, NEW p \in Callers, NEW step \in Steps, NEW record \in Call,
           pc[p] = "idle", Goto(p, step), call' = [call EXCEPT ![p] = record]
    PROVE  /\ pc' \in [Callers -> Steps] /\ call' \in [Callers -> Call]
           /\ pc'[p] = step /\ call'[p] = record
           /\ \A q \in Callers \ {p} : pc'[q] = pc[q] /\ call'[q] = call[q]
           /\ step \in {"store", "create", "remove"} => Changing' = Changing \cup {p}
           /\ step \notin {"store", "point", "create", "remove"} => Changing' = Changing
<1>1. /\ pc' \in [Callers -> Steps] /\ call' \in [Callers -> Call]
      /\ pc'[p] = step /\ call'[p] = record
      /\ \A q \in Callers \ {p} : pc'[q] = pc[q] /\ call'[q] = call[q]
    BY DEF Goto, ConfigTypeOK
<1> QED BY <1>1 DEF Changing

-----------------------------------------------------------------------------
(* Rows that are written at once.                                            *)

\* What the three of them have in common.
LEMMA RowWritten ==
    ASSUME StoreInv, NEW p \in Callers, NEW s \in Scopes, NEW r \in Row, NEW o \in Outcomes,
           NEW kind, pc[p] = "idle", Counted(kind), rows' = [rows EXCEPT ![s] = r], Owe(p, s, {o}),
           UNCHANGED <<vault, keys, pc, call, sealed>>, Noted,
           r.type = "secret_ref" /\ r.value \in Generated => vault[r.value] # NoSecret,
           Resolved(r) = o
    PROVE  StoreInv'
<1>1. ConfigTypeOK
    BY DEF StoreInv
<1>2. WritesRow(s) /\ rows'[s] = r
    BY <1>1 DEF WritesRow, ConfigTypeOK
<1>3. Changing' = Changing /\ Changing \ {p} = Changing
    BY DEF Changing
<1>4. Resolved(rows[s])' = o
    BY <1>2 DEF Resolved
<1>5. DueInv'
    BY <1>2, <1>3, <1>4, DueRow
<1>6. ReadInv'
    BY <1>2, ReadsNoted DEF Writes, ReadersGoOn
<1>7. ConfigTypeOK'
    BY <1>1, <1>2, WritesType, TypeStep, NotedType, OweType, BoundsType
       DEF Writes, Counted, ConfigTypeOK
<1>8. HoldingInv' /\ RevokedStays'
    BY <1>2, HoldingStep, KeysUnmoved DEF Writes, StoreInv, HoldingInv
<1> QED BY <1>5, <1>6, <1>7, <1>8 DEF StoreInv

LEMMA SetPlainHolds ==
    ASSUME StoreInv, NEW p \in Callers, NEW s \in Scopes, NEW v \in Values, SetPlain(p, s, v)
    PROVE  StoreInv'
<1> DEFINE r == [type |-> "string", value |-> v]
<1>1. r \in Row /\ Resolved(r) = v /\ v \in Outcomes
    BY RowKinds DEF Resolved, Outcomes
<1> QED BY <1>1, RowWritten DEF SetPlain

LEMMA SetRefHolds ==
    ASSUME StoreInv, NEW p \in Callers, NEW s \in Scopes, NEW n \in Names, SetRef(p, s, n)
    PROVE  StoreInv'
<1> DEFINE r == [type |-> "secret_ref", value |-> n]
<1>1. r \in Row /\ Resolved(r) = vault[n] /\ vault[n] \in Outcomes
    BY RowKinds DEF Resolved, Outcomes, StoreInv, ConfigTypeOK
<1> QED BY <1>1, RowWritten DEF SetRef

LEMMA DeleteRowHolds ==
    ASSUME StoreInv, NEW p \in Callers, NEW s \in Scopes, DeleteRow(p, s)
    PROVE  StoreInv'
<1>1. Absent \in Row /\ Resolved(Absent) = NoRow /\ NoRow \in Outcomes /\ Absent.type = "none"
    BY RowKinds DEF Resolved, Outcomes, Absent
<1> QED BY <1>1, RowWritten DEF DeleteRow

-----------------------------------------------------------------------------
(* Changes that take two steps.                                              *)

\* What the three that begin have in common.
LEMMA ChangeBegun ==
    ASSUME StoreInv, NEW p \in Callers, NEW step \in {"store", "create", "remove"},
           NEW record \in Call, record.name \in Names,
           step # "remove" => record.value \in Values,
           pc[p] = "idle", Goto(p, step), call' = [call EXCEPT ![p] = record],
           scene' = scene, calls' \in 0..MaxCalls, breaks' \in 0..MaxBreaks,
           mixed' = (mixed \/ Changing # {}), UNCHANGED <<storeVars, due, seen, sealed>>
    PROVE  StoreInv'
<1>1. ConfigTypeOK /\ step \in Steps
    BY DEF StoreInv, Steps
<1>2. /\ pc' \in [Callers -> Steps] /\ call' \in [Callers -> Call]
      /\ pc'[p] = step /\ call'[p] = record
      /\ \A q \in Callers \ {p} : pc'[q] = pc[q] /\ call'[q] = call[q]
      /\ Changing' = Changing \cup {p}
    BY <1>1, Began
<1>3. ConfigTypeOK'
    BY <1>1, <1>2, TypeStep DEF storeVars, ConfigTypeOK
<1>4. HoldingInv' /\ RevokedStays'
    BY <1>2, HoldingStep, KeysUnmoved DEF storeVars
<1>5. DueInv'
    BY <1>2, DueBegun DEF storeVars
<1>6. ReadInv'
    BY <1>2, ReadsUnmoved DEF storeVars, ReadersGoOn
<1> QED BY <1>3, <1>4, <1>5, <1>6 DEF StoreInv

LEMMA SetSecretHolds ==
    ASSUME StoreInv, NEW p \in Callers, NEW s \in Scopes, NEW v \in Values, SetSecret(p, s, v)
    PROVE  StoreInv'
<1> DEFINE name == IF rows[s].type = "secret_ref" THEN rows[s].value
                   ELSE CHOOSE n \in Fresh : TRUE
           record == [NoCall EXCEPT !.kind = "setSecret", !.scope = s, !.value = v, !.name = name]
<1>1. ConfigTypeOK
    BY DEF StoreInv
<1>2. name \in Names
    <2>1. CASE rows[s].type = "secret_ref"
        BY <1>1, <2>1 DEF ConfigTypeOK, Row, Types
    <2>2. CASE rows[s].type # "secret_ref"
        BY <2>2 DEF SetSecret, Fresh, Names
    <2> QED BY <2>1, <2>2
<1>3. call' = [call EXCEPT ![p] = record]
    BY DEF SetSecret, Begin
<1> HIDE DEF name
<1>4. record \in Call /\ record.name \in Names /\ record.value \in Values
    BY <1>2 DEF NoCall, Call, Outcomes, Kinds
<1> HIDE DEF record
<1>5. pc[p] = "idle" /\ Goto(p, "store") /\ Counted("setSecret")
    BY DEF SetSecret, Begin
<1>6. scene' = scene /\ calls' \in 0..MaxCalls /\ breaks' \in 0..MaxBreaks
    BY <1>1, <1>5, BoundsType DEF Counted
<1> QED BY <1>3, <1>4, <1>5, <1>6, ChangeBegun DEF SetSecret

LEMMA CreateSecretHolds ==
    ASSUME StoreInv, NEW p \in Callers, NEW n \in Names, NEW v \in Values, CreateSecret(p, n, v)
    PROVE  StoreInv'
<1> DEFINE record == [NoCall EXCEPT !.kind = "createSecret", !.name = n, !.value = v]
<1>1. ConfigTypeOK
    BY DEF StoreInv
<1>2. record \in Call /\ record.name \in Names /\ record.value \in Values
    BY DEF NoCall, Call, Outcomes, Kinds, Scopes
<1>3. call' = [call EXCEPT ![p] = record]
    BY DEF CreateSecret
<1> HIDE DEF record
<1>4. scene' = scene /\ calls' \in 0..MaxCalls /\ breaks' \in 0..MaxBreaks
    BY <1>1, BoundsType DEF CreateSecret, ConfigTypeOK
<1> QED BY <1>2, <1>3, <1>4, ChangeBegun DEF CreateSecret

LEMMA DeleteSecretHolds ==
    ASSUME StoreInv, NEW p \in Callers, NEW n \in Names, DeleteSecret(p, n)
    PROVE  StoreInv'
<1> DEFINE record == [NoCall EXCEPT !.kind = "deleteSecret", !.name = n]
<1>1. ConfigTypeOK
    BY DEF StoreInv
<1>2. record \in Call /\ record.name \in Names
    BY DEF NoCall, Call, Outcomes, Kinds, Scopes
<1>3. call' = [call EXCEPT ![p] = record]
    BY DEF DeleteSecret, Begin
<1> HIDE DEF record
<1>4. pc[p] = "idle" /\ Goto(p, "remove") /\ Counted("deleteSecret")
    BY DEF DeleteSecret, Begin
<1>5. scene' = scene /\ calls' \in 0..MaxCalls /\ breaks' \in 0..MaxBreaks
    BY <1>1, <1>4, BoundsType DEF Counted
<1> QED BY <1>2, <1>3, <1>4, <1>5, ChangeBegun DEF DeleteSecret

\* Key Vault refuses, or there is nothing to remove.
LEMMA ChangeLeft ==
    ASSUME StoreInv, NEW p \in Callers, Answer(p), UNCHANGED <<storeVars, bounds, due, seen, sealed>>,
           mixed' = (mixed /\ Changing # {p})
    PROVE  StoreInv'
<1>1. ConfigTypeOK
    BY DEF StoreInv
<1>2. /\ pc' \in [Callers -> Steps] /\ call' \in [Callers -> Call]
      /\ pc'[p] = "idle"
      /\ \A q \in Callers \ {p} : pc'[q] = pc[q] /\ call'[q] = call[q]
      /\ Changing' = Changing \ {p}
    BY <1>1, Answered
<1>3. ConfigTypeOK'
    BY <1>1, <1>2, TypeStep, BoundsType DEF storeVars, ConfigTypeOK
<1>4. HoldingInv' /\ RevokedStays'
    BY <1>2, HoldingStep, KeysUnmoved DEF storeVars
<1>5. DueInv'
    BY <1>2, DueLeft DEF storeVars
<1>6. ReadInv'
    BY <1>2, ReadsUnmoved DEF storeVars, ReadersGoOn
<1> QED BY <1>3, <1>4, <1>5, <1>6 DEF StoreInv

LEMMA StoreSecretHolds ==
    ASSUME StoreInv, NEW p \in Callers, StoreSecret(p)
    PROVE  StoreInv'
<1>1. ConfigTypeOK /\ HoldingInv /\ DueInv
    BY DEF StoreInv
<1>2. pc[p] = "store" /\ p \in Changing /\ call[p].name \in Names /\ call[p].value \in Values
    BY <1>1 DEF StoreSecret, HoldingInv, Changing
<1>3. CASE vault[call[p].name] = Deleted
    BY <1>3, ChangeLeft DEF StoreSecret, storeVars
<1>4. CASE vault[call[p].name] # Deleted
    <2> DEFINE n == call[p].name
               v == call[p].value
    <2>1. /\ vault' = [vault EXCEPT ![n] = v] /\ rows' = rows /\ Goto(p, "point") /\ Noted
          /\ due' = [s \in Scopes |-> IF s \in Sharing(n) THEN due[s] \cup {v} ELSE due[s]]
          /\ UNCHANGED <<rows, keys, bounds, sealed, call, mixed>>
        BY <1>4 DEF StoreSecret
    <2>2. v # NoSecret /\ v \in Outcomes
        BY <1>2, ConfigAssumption DEF Outcomes
    <2>3. WritesVault(n) /\ vault'[n] = v
        BY <1>1, <1>2, <2>1, <2>2 DEF WritesVault, ConfigTypeOK
    <2>4. /\ pc' \in [Callers -> Steps] /\ pc'[p] = "point"
          /\ \A q \in Callers \ {p} : pc'[q] = pc[q]
          /\ Changing' = Changing
        <3>1. /\ pc' \in [Callers -> Steps] /\ pc'[p] = "point"
              /\ \A q \in Callers \ {p} : pc'[q] = pc[q]
            BY <1>1, <2>1 DEF Goto, ConfigTypeOK, Steps
        <3> QED BY <1>2, <3>1 DEF Changing
    <2>5. due' \in [Scopes -> SUBSET Outcomes]
        BY <1>1, <2>1, <2>2 DEF ConfigTypeOK
    <2>6. ConfigTypeOK'
        BY <1>1, <1>2, <2>1, <2>3, <2>4, <2>5, WritesType, TypeStep, NotedType, BoundsType
           DEF Writes, ConfigTypeOK
    <2>7. HoldingInv' /\ RevokedStays'
        BY <1>2, <2>1, <2>2, <2>3, <2>4, HoldingStep, KeysUnmoved DEF Writes
    <2>8. ReadInv'
        BY <1>2, <2>1, <2>3, <2>4, ReadsNoted DEF Writes, ReadersGoOn
    <2>9. DueInv'
        <3>1. ASSUME NEW t \in Scopes PROVE Resolved(rows[t])' \in due'[t]
            <4>1. rows[t] \in Row /\ rows'[t] = rows[t] /\ Resolved(rows[t]) \in due[t]
                BY <1>1, <2>1 DEF ConfigTypeOK, DueInv
            <4>2. CASE t \in Sharing(n)
                BY <2>1, <2>3, <4>1, <4>2 DEF Resolved, Sharing
            <4>3. CASE t \notin Sharing(n)
                <5>1. Resolved(rows[t])' = Resolved(rows[t])
                    BY <2>3, <4>1, <4>3 DEF WritesVault, Resolved, Sharing, Row, Types
                <5> QED BY <2>1, <4>1, <4>3, <5>1
            <4> QED BY <4>2, <4>3
        <3>2. ASSUME NEW q \in Callers, pc'[q] = "point", mixed' = FALSE
              PROVE  vault'[call'[q].name] = call'[q].value
            <4>1. q = p
                BY <1>1, <1>2, <2>1, <2>4, <3>2 DEF DueInv, Changing
            <4> QED BY <2>1, <2>3, <4>1
        <3> QED BY <1>1, <2>1, <2>4, <3>1, <3>2 DEF DueInv
    <2> QED BY <2>6, <2>7, <2>8, <2>9 DEF StoreInv
<1> QED BY <1>3, <1>4

LEMMA PointRowHolds ==
    ASSUME StoreInv, NEW p \in Callers, PointRow(p)
    PROVE  StoreInv'
<1>1. ConfigTypeOK /\ HoldingInv /\ DueInv
    BY DEF StoreInv
<1>2. PICK s \in Scopes, n \in Names, v \in Values :
          s = call[p].scope /\ n = call[p].name /\ v = call[p].value
    BY <1>1 DEF PointRow, HoldingInv, ConfigTypeOK, Call
<1> DEFINE r == [type |-> "secret_ref", value |-> n]
<1>3. vault[n] # NoSecret /\ (mixed = FALSE => vault[n] = v) /\ v \in Outcomes /\ r \in Row
    BY <1>1, <1>2, RowKinds DEF PointRow, HoldingInv, DueInv, Outcomes
<1>4. WritesRow(s) /\ rows'[s] = r
    BY <1>1, <1>2, <1>3 DEF WritesRow, ConfigTypeOK, PointRow
<1>5. /\ pc' \in [Callers -> Steps] /\ call' \in [Callers -> Call]
      /\ pc'[p] = "idle"
      /\ \A q \in Callers \ {p} : pc'[q] = pc[q] /\ call'[q] = call[q]
      /\ Changing' = Changing \ {p}
    BY <1>1, Answered DEF PointRow
<1>6. mixed = FALSE => Resolved(rows[s])' = v
    BY <1>3, <1>4 DEF Resolved, WritesRow
<1>7. Owe(p, s, {v}) /\ Noted /\ UNCHANGED <<vault, keys, bounds, sealed>>
    BY <1>2 DEF PointRow
<1> HIDE DEF r
<1>8. DueInv'
    BY <1>3, <1>4, <1>5, <1>6, <1>7, DueRow
<1>9. ReadInv'
    BY <1>4, <1>5, <1>7, ReadsNoted DEF Writes, ReadersGoOn
<1>10. ConfigTypeOK'
    BY <1>1, <1>3, <1>4, <1>5, <1>7, WritesType, TypeStep, NotedType, OweType, BoundsType
       DEF Writes, ConfigTypeOK
<1>11. HoldingInv' /\ RevokedStays'
    BY <1>4, <1>5, <1>7, HoldingStep, KeysUnmoved DEF Writes
<1> QED BY <1>8, <1>9, <1>10, <1>11 DEF StoreInv

\* A secret that exists is written, or deleted, with what its rows stand for.
LEMMA SecretWritten ==
    ASSUME StoreInv, NEW p \in Callers, NEW n \in Names, NEW o \in Values \cup {Deleted},
           vault' = [vault EXCEPT ![n] = o], OweSharers(p, n, o), Noted,
           UNCHANGED <<rows, keys, sealed>>,
           scene' = scene, calls' \in 0..MaxCalls, breaks' \in 0..MaxBreaks,
           Answer(p) \/ (pc[p] = "idle" /\ UNCHANGED <<pc, call>>)
    PROVE  StoreInv'
<1>1. ConfigTypeOK /\ HoldingInv
    BY DEF StoreInv
<1>2. o # NoSecret /\ o \in Outcomes
    BY ConfigAssumption DEF Outcomes, NoSecret, Deleted
<1>3. WritesVault(n) /\ vault'[n] = o
    BY <1>1, <1>2 DEF WritesVault, ConfigTypeOK
<1>4. /\ pc' \in [Callers -> Steps] /\ call' \in [Callers -> Call]
      /\ pc'[p] = "idle"
      /\ \A q \in Callers \ {p} : pc'[q] = pc[q] /\ call'[q] = call[q]
      /\ Changing' = Changing \ {p}
    <2>1. CASE Answer(p)
        BY <1>1, <2>1, Answered
    <2>2. CASE pc[p] = "idle" /\ UNCHANGED <<pc, call>>
        BY <1>1, <2>2 DEF ConfigTypeOK, Changing
    <2> QED BY <2>1, <2>2
<1>5. DueInv'
    BY <1>2, <1>3, <1>4, DueVault
<1>6. ReadInv'
    BY <1>3, <1>4, ReadsNoted DEF Writes, ReadersGoOn
<1>7. ConfigTypeOK'
    BY <1>1, <1>2, <1>3, <1>4, WritesType, TypeStep, NotedType, OweSharersType
       DEF Writes, ConfigTypeOK
<1>8. HoldingInv' /\ RevokedStays'
    BY <1>3, <1>4, HoldingStep, KeysUnmoved DEF Writes
<1> QED BY <1>5, <1>6, <1>7, <1>8 DEF StoreInv

LEMMA CreatedHolds ==
    ASSUME StoreInv, NEW p \in Callers, Created(p)
    PROVE  StoreInv'
<1>1. ConfigTypeOK /\ call[p].name \in Names /\ call[p].value \in Values
    BY DEF StoreInv, HoldingInv, Created
<1>2. UNCHANGED bounds => scene' = scene /\ calls' \in 0..MaxCalls /\ breaks' \in 0..MaxBreaks
    BY <1>1, BoundsType
<1>3. CASE vault[call[p].name] = Deleted
    BY <1>3, ChangeLeft DEF Created, storeVars
<1>4. CASE vault[call[p].name] # Deleted
    BY <1>1, <1>2, <1>4, SecretWritten DEF Created
<1> QED BY <1>3, <1>4

LEMMA RemoveSecretHolds ==
    ASSUME StoreInv, NEW p \in Callers, RemoveSecret(p)
    PROVE  StoreInv'
<1>1. ConfigTypeOK /\ call[p].name \in Names
    BY DEF StoreInv, HoldingInv, RemoveSecret
<1>2. UNCHANGED bounds => scene' = scene /\ calls' \in 0..MaxCalls /\ breaks' \in 0..MaxBreaks
    BY <1>1, BoundsType
<1>3. CASE vault[call[p].name] \notin Values
    BY <1>3, ChangeLeft DEF RemoveSecret, storeVars
<1>4. CASE vault[call[p].name] \in Values
    BY <1>1, <1>2, <1>4, SecretWritten DEF RemoveSecret
<1> QED BY <1>3, <1>4

LEMMA UpdateSecretHolds ==
    ASSUME StoreInv, NEW p \in Callers, NEW n \in Names, NEW v \in Values, UpdateSecret(p, n, v)
    PROVE  StoreInv'
<1>1. scene' = scene /\ calls' \in 0..MaxCalls /\ breaks' \in 0..MaxBreaks
    BY BoundsType DEF StoreInv, UpdateSecret, Counted
<1> QED BY <1>1, SecretWritten DEF UpdateSecret

-----------------------------------------------------------------------------
(* Reads.                                                                    *)

\* A reader goes to its next step, with what it has to know there.
LEMMA ReaderMoves ==
    ASSUME StoreInv, NEW p \in Callers, UNCHANGED <<storeVars, due, mixed, sealed>>,
           scene' = scene, calls' \in 0..MaxCalls, breaks' \in 0..MaxBreaks,
           pc[p] \in {"idle", "global", "resolve", "answered"},
           NEW step \in {"idle", "global", "resolve", "answered"}, Goto(p, step),
           call' \in [Callers -> Call],
           \A q \in Callers \ {p} : call'[q] = call[q],
           seen' \in [Callers -> [changes: 0..2, values: SUBSET Outcomes]],
           \A q \in Callers \ {p} : seen'[q] = seen[q],
           step = "global" /\ seen'[p].changes < 2 => Resolved(rows["GLOBAL"]) \in seen'[p].values,
           step = "global" /\ seen'[p].changes = 0 => rows["org"] = Absent,
           step = "resolve" => call'[p].name \in Names,
           step = "resolve" /\ seen'[p].changes < 2 => vault[call'[p].name] \in seen'[p].values,
           step = "resolve" /\ seen'[p].changes = 0 =>
               Taken.type = "secret_ref" /\ Taken.value = call'[p].name,
           step = "answered" /\ seen'[p].changes < 2 => call'[p].value \in seen'[p].values
    PROVE  StoreInv'
<1>1. ConfigTypeOK /\ DueInv /\ ReadInv
    BY DEF StoreInv
<1>2. /\ pc' \in [Callers -> Steps] /\ pc'[p] = step
      /\ \A q \in Callers \ {p} : pc'[q] = pc[q]
    BY <1>1 DEF Goto, ConfigTypeOK, Steps
<1>3. Changing' = Changing
    BY <1>2 DEF Changing
<1>4. ConfigTypeOK'
    BY <1>1, <1>2, TypeStep DEF storeVars, ConfigTypeOK
<1>5. HoldingInv' /\ RevokedStays'
    BY <1>2, HoldingStep, KeysUnmoved DEF storeVars
<1>6. DueInv'
    BY <1>1, <1>2, <1>3, DueLeft DEF storeVars
<1>7. Resolved(rows["GLOBAL"])' = Resolved(rows["GLOBAL"]) /\ Taken' = Taken
    BY DEF storeVars, Resolved, Taken
<1>8. ReadInv'
    BY <1>1, <1>2, <1>7 DEF storeVars, ReadInv
<1> QED BY <1>4, <1>5, <1>6, <1>8 DEF StoreInv

\* A row that was read, and what it stands for.
LEMMA TakenRow ==
    ASSUME ConfigTypeOK, NEW p \in Callers, NEW s \in Scopes, TakeRow(p, rows[s])
    PROVE  /\ call' \in [Callers -> Call] /\ \A q \in Callers \ {p} : call'[q] = call[q]
           /\ \/ /\ rows[s].type = "secret_ref" /\ call'[p].name = rows[s].value
                 /\ call'[p].name \in Names /\ vault[call'[p].name] = Resolved(rows[s])
                 /\ Goto(p, "resolve")
              \/ /\ call'[p].value = Resolved(rows[s])
                 /\ Goto(p, "answered")
<1>1. rows[s] \in Row /\ Resolved(rows[s]) \in Outcomes /\ call[p] \in Call
    BY ResolvedType DEF ConfigTypeOK
<1>2. CASE rows[s].type = "secret_ref"
    <2>1. rows[s].value \in Names /\ Resolved(rows[s]) = vault[rows[s].value]
        BY <1>1, <1>2 DEF Row, Types, Resolved
    <2>2. call' = [call EXCEPT ![p] = [call[p] EXCEPT !.kind = "get", !.name = rows[s].value]]
        BY <1>2 DEF TakeRow, ConfigTypeOK, Call
    <2>3. [call[p] EXCEPT !.kind = "get", !.name = rows[s].value] \in Call
        BY <1>1, <2>1 DEF Call, Kinds
    <2>4. call' \in [Callers -> Call] /\ \A q \in Callers \ {p} : call'[q] = call[q]
        BY <2>2, <2>3 DEF ConfigTypeOK
    <2>5. call'[p].name = rows[s].value
        BY <1>1, <2>2 DEF ConfigTypeOK, Call
    <2> QED BY <1>2, <2>1, <2>4, <2>5 DEF TakeRow
<1>3. CASE rows[s].type # "secret_ref"
    <2>1. call' = [call EXCEPT ![p] = [call[p] EXCEPT !.kind = "get", !.value = Resolved(rows[s])]]
        BY <1>3 DEF TakeRow, ConfigTypeOK, Call
    <2>2. [call[p] EXCEPT !.kind = "get", !.value = Resolved(rows[s])] \in Call
        BY <1>1 DEF Call, Kinds
    <2>3. call' \in [Callers -> Call] /\ \A q \in Callers \ {p} : call'[q] = call[q]
        BY <2>1, <2>2 DEF ConfigTypeOK
    <2>4. call'[p].value = Resolved(rows[s])
        BY <1>1, <2>1 DEF ConfigTypeOK, Call
    <2> QED BY <1>3, <2>3, <2>4 DEF TakeRow
<1> QED BY <1>2, <1>3

LEMMA GetHolds ==
    ASSUME StoreInv, NEW p \in Callers, Get(p)
    PROVE  StoreInv'
<1>1. ConfigTypeOK /\ "org" \in Scopes /\ "GLOBAL" \in Scopes
    BY DEF StoreInv, Scopes
<1>2. scene' = scene /\ calls' \in 0..MaxCalls /\ breaks' \in 0..MaxBreaks
    BY <1>1, BoundsType DEF Get, Counted
<1>3. /\ seen' \in [Callers -> [changes: 0..2, values: SUBSET Outcomes]]
      /\ \A q \in Callers \ {p} : seen'[q] = seen[q]
      /\ seen'[p] = [changes |-> 0, values |-> {Lookup("org")}]
    BY <1>1, LookupType DEF Get, ConfigTypeOK
<1>4. CASE rows["org"] # Absent
    <2>1. Lookup("org") = Resolved(rows["org"]) /\ Taken = rows["org"]
        BY <1>4 DEF Lookup, Taken
    <2>2. TakeRow(p, rows["org"])
        BY <1>4 DEF Get
    <2> QED BY <1>1, <1>2, <1>3, <2>1, <2>2, TakenRow, ReaderMoves DEF Get
<1>5. CASE rows["org"] = Absent
    <2>1. Lookup("org") = Resolved(rows["GLOBAL"])
        BY <1>5 DEF Lookup
    <2>2. call' \in [Callers -> Call] /\ \A q \in Callers \ {p} : call'[q] = call[q]
        <3>1. call[p] \in Call
            BY <1>1 DEF ConfigTypeOK
        <3>2. [call[p] EXCEPT !.kind = "get"] \in Call
            BY <3>1 DEF Call, Kinds
        <3> QED BY <1>1, <1>5, <3>2 DEF Get, ConfigTypeOK
    <2> QED BY <1>2, <1>3, <1>5, <2>1, <2>2, ReaderMoves DEF Get
<1> QED BY <1>4, <1>5

LEMMA FallBackHolds ==
    ASSUME StoreInv, NEW p \in Callers, FallBack(p)
    PROVE  StoreInv'
<1>1. /\ ConfigTypeOK /\ "GLOBAL" \in Scopes /\ TakeRow(p, rows["GLOBAL"])
      /\ seen[p].changes < 2 => Resolved(rows["GLOBAL"]) \in seen[p].values
      /\ seen[p].changes = 0 => Taken = rows["GLOBAL"]
    BY DEF StoreInv, ReadInv, FallBack, Scopes, Taken
<1>2. scene' = scene /\ calls' \in 0..MaxCalls /\ breaks' \in 0..MaxBreaks
    BY <1>1, BoundsType DEF FallBack
<1>3. seen' \in [Callers -> [changes: 0..2, values: SUBSET Outcomes]] /\ seen' = seen
    BY <1>1 DEF FallBack, ConfigTypeOK
<1> QED BY <1>1, <1>2, <1>3, TakenRow, ReaderMoves DEF FallBack

LEMMA ResolveHolds ==
    ASSUME StoreInv, NEW p \in Callers, Resolve(p)
    PROVE  StoreInv'
<1>1. /\ ConfigTypeOK /\ call[p] \in Call /\ vault[call[p].name] \in Outcomes
      /\ seen[p].changes < 2 => vault[call[p].name] \in seen[p].values
    BY DEF StoreInv, ReadInv, HoldingInv, ConfigTypeOK, Resolve, Outcomes
<1>2. scene' = scene /\ calls' \in 0..MaxCalls /\ breaks' \in 0..MaxBreaks
    BY <1>1, BoundsType DEF Resolve
<1>3. /\ call' \in [Callers -> Call] /\ \A q \in Callers \ {p} : call'[q] = call[q]
      /\ call'[p].value = vault[call[p].name]
    <2>1. call' = [call EXCEPT ![p] = [call[p] EXCEPT !.value = vault[call[p].name]]]
        BY DEF Resolve
    <2>2. [call[p] EXCEPT !.value = vault[call[p].name]] \in Call
        BY <1>1 DEF Call
    <2> QED BY <1>1, <2>1, <2>2 DEF ConfigTypeOK, Call
<1>4. seen' \in [Callers -> [changes: 0..2, values: SUBSET Outcomes]] /\ seen' = seen
    BY <1>1 DEF Resolve, ConfigTypeOK
<1> QED BY <1>1, <1>2, <1>3, <1>4, ReaderMoves DEF Resolve

LEMMA ReturnHolds ==
    ASSUME StoreInv, NEW p \in Callers, Return(p)
    PROVE  StoreInv'
<1>1. ConfigTypeOK /\ NothingSeen \in [changes: 0..2, values: SUBSET Outcomes]
    BY DEF StoreInv, NothingSeen
<1>2. scene' = scene /\ calls' \in 0..MaxCalls /\ breaks' \in 0..MaxBreaks
    BY <1>1, BoundsType DEF Return
<1>3. call' \in [Callers -> Call] /\ \A q \in Callers \ {p} : call'[q] = call[q]
    BY <1>1, Answered DEF Return
<1>4. /\ seen' \in [Callers -> [changes: 0..2, values: SUBSET Outcomes]]
      /\ \A q \in Callers \ {p} : seen'[q] = seen[q]
    BY <1>1 DEF Return, ConfigTypeOK
<1> QED BY <1>2, <1>3, <1>4, ReaderMoves DEF Return, Answer

-----------------------------------------------------------------------------
(* Workflow keys, and calls that break off.                                  *)

\* A step of p between "idle" and the steps with keys: rows and secrets are as they were.
LEMMA KeyStep ==
    ASSUME StoreInv, NEW p \in Callers, UNCHANGED <<rows, vault, due, mixed, seen>>,
           keys' \in [Keys -> {"none", "valid", "revoked"}], sealed' \subseteq Keys,
           scene' = scene, calls' \in 0..MaxCalls, breaks' \in 0..MaxBreaks,
           pc[p] \in {"idle", "revoke", "touch"}, pc'[p] \in {"idle", "revoke", "touch"},
           pc' \in [Callers -> Steps], call' \in [Callers -> Call],
           \A q \in Callers \ {p} : pc'[q] = pc[q] /\ call'[q] = call[q],
           pc'[p] # "idle" => call'[p].key \in Keys,
           RevokedStays'
    PROVE  StoreInv'
<1>1. ConfigTypeOK
    BY DEF StoreInv
<1>2. Changing' = Changing
    BY DEF Changing
<1>3. ConfigTypeOK'
    BY <1>1, TypeStep DEF ConfigTypeOK
<1>4. HoldingInv'
    BY HoldingStep
<1>5. DueInv'
    BY <1>2, DueLeft
<1>6. ReadInv'
    BY ReadsUnmoved DEF ReadersGoOn
<1> QED BY <1>3, <1>4, <1>5, <1>6 DEF StoreInv

LEMMA CreateKeyHolds ==
    ASSUME StoreInv, NEW p \in Callers, NEW k \in Keys, CreateKey(p, k)
    PROVE  StoreInv'
<1>1. ConfigTypeOK /\ RevokedStays
    BY DEF StoreInv
<1>2. scene' = scene /\ calls' \in 0..MaxCalls /\ breaks' \in 0..MaxBreaks
    BY <1>1, BoundsType DEF CreateKey, Counted
<1>3. k \notin sealed
    BY <1>1 DEF CreateKey, RevokedStays
<1>4. RevokedStays'
    BY <1>1, <1>3 DEF CreateKey, RevokedStays, Accepting, ConfigTypeOK
<1> QED BY <1>1, <1>2, <1>4, KeyStep DEF CreateKey, ConfigTypeOK

\* Revoke and Validate take a key that is valid, or will revoke one.
LEMMA KeyTaken ==
    ASSUME StoreInv, NEW p \in Callers, NEW k \in Keys, NEW kind \in Kinds,
           NEW step \in {"revoke", "touch"}, step = "touch" => keys[k] = "valid",
           Begin(p, kind, step, [NoCall EXCEPT !.kind = kind, !.key = k]),
           UNCHANGED <<storeVars, due, mixed, seen, sealed>>
    PROVE  StoreInv'
<1> DEFINE record == [NoCall EXCEPT !.kind = kind, !.key = k]
<1>1. ConfigTypeOK /\ RevokedStays /\ step \in Steps
    BY DEF StoreInv, Steps
<1>2. record \in Call /\ record.key = k
    BY CallKinds DEF NoCall
<1>3. pc[p] = "idle" /\ Goto(p, step) /\ call' = [call EXCEPT ![p] = record] /\ Counted(kind)
    BY DEF Begin
<1> HIDE DEF record
<1>4. /\ pc' \in [Callers -> Steps] /\ call' \in [Callers -> Call]
      /\ pc'[p] = step /\ call'[p] = record
      /\ \A q \in Callers \ {p} : pc'[q] = pc[q] /\ call'[q] = call[q]
    BY <1>1, <1>2, <1>3, Began
<1>5. scene' = scene /\ calls' \in 0..MaxCalls /\ breaks' \in 0..MaxBreaks
    BY <1>1, <1>3, BoundsType DEF Counted
<1>6. RevokedStays'
    BY <1>1, <1>2, <1>4 DEF storeVars, RevokedStays, Accepting
<1> QED BY <1>1, <1>2, <1>3, <1>4, <1>5, <1>6, KeyStep DEF storeVars, ConfigTypeOK

LEMMA KeyCallHolds ==
    ASSUME StoreInv, NEW p \in Callers, NEW k \in Keys, Revoke(p, k) \/ Validate(p, k)
    PROVE  StoreInv'
<1>1. "revoke" \in Kinds /\ "validate" \in Kinds
    BY DEF Kinds
<1> QED BY <1>1, KeyTaken DEF Revoke, Validate

\* A key is revoked for good when nobody is about to write it back.
LEMMA WriteRevokedHolds ==
    ASSUME StoreInv, NEW p \in Callers, WriteRevoked(p)
    PROVE  StoreInv'
<1> DEFINE k == call[p].key
<1>1. ConfigTypeOK /\ RevokedStays /\ k \in Keys
    BY DEF StoreInv, HoldingInv, WriteRevoked
<1>2. scene' = scene /\ calls' \in 0..MaxCalls /\ breaks' \in 0..MaxBreaks
    BY <1>1, BoundsType DEF WriteRevoked
<1>3. /\ pc' \in [Callers -> Steps] /\ call' \in [Callers -> Call] /\ pc'[p] = "idle"
      /\ \A q \in Callers \ {p} : pc'[q] = pc[q] /\ call'[q] = call[q]
    BY <1>1, Answered DEF WriteRevoked
<1>4. /\ keys' = [keys EXCEPT ![k] = "revoked"]
      /\ sealed' = IF Accepting(k) = {} THEN sealed \cup {k} ELSE sealed
    BY DEF WriteRevoked
<1>5. RevokedStays'
    <2> SUFFICES ASSUME NEW j \in sealed' PROVE keys'[j] = "revoked" /\ Accepting(j)' = {}
        BY DEF RevokedStays
    <2>1. Accepting(j) = {} /\ j \in Keys /\ (j = k \/ keys[j] = "revoked")
        BY <1>1, <1>4 DEF RevokedStays, ConfigTypeOK
    <2>2. Accepting(j)' = {}
        BY <1>3, <2>1 DEF Accepting
    <2> QED BY <1>1, <1>4, <2>1, <2>2 DEF ConfigTypeOK
<1>6. keys' \in [Keys -> {"none", "valid", "revoked"}] /\ sealed' \subseteq Keys
    BY <1>1, <1>4 DEF ConfigTypeOK
<1> HIDE DEF k
<1> QED BY <1>2, <1>3, <1>5, <1>6, KeyStep DEF WriteRevoked

LEMMA TouchHolds ==
    ASSUME StoreInv, NEW p \in Callers, Touch(p)
    PROVE  StoreInv'
<1> DEFINE k == call[p].key
<1>1. ConfigTypeOK /\ RevokedStays /\ k \in Keys
    BY DEF StoreInv, HoldingInv, Touch
<1>2. scene' = scene /\ calls' \in 0..MaxCalls /\ breaks' \in 0..MaxBreaks
    BY <1>1, BoundsType DEF Touch
<1>3. /\ pc' \in [Callers -> Steps] /\ call' \in [Callers -> Call] /\ pc'[p] = "idle"
      /\ \A q \in Callers \ {p} : pc'[q] = pc[q] /\ call'[q] = call[q]
    BY <1>1, Answered DEF Touch
<1>4. k \notin sealed
    BY <1>1 DEF Touch, RevokedStays, Accepting
<1>5. keys' = [keys EXCEPT ![k] = "valid"] /\ sealed' = sealed
    BY DEF Touch
<1>6. RevokedStays'
    <2>1. \A j \in sealed : keys'[j] = keys[j]
        BY <1>1, <1>4, <1>5 DEF ConfigTypeOK
    <2> QED BY <1>1, <1>3, <1>5, <2>1 DEF RevokedStays, Accepting
<1>7. keys' \in [Keys -> {"none", "valid", "revoked"}] /\ sealed' \subseteq Keys
    BY <1>1, <1>5 DEF ConfigTypeOK
<1> HIDE DEF k
<1> QED BY <1>2, <1>3, <1>6, <1>7, KeyStep DEF Touch

LEMMA BreakHolds ==
    ASSUME StoreInv, NEW p \in Callers, Break(p)
    PROVE  StoreInv'
<1>1. ConfigTypeOK /\ NothingSeen \in [changes: 0..2, values: SUBSET Outcomes]
    BY DEF StoreInv, NothingSeen
<1>2. scene' = scene /\ calls' \in 0..MaxCalls /\ breaks' \in 0..MaxBreaks
    BY <1>1, BoundsType DEF Break, ConfigTypeOK
<1>3. /\ pc' \in [Callers -> Steps] /\ call' \in [Callers -> Call] /\ pc'[p] = "idle"
      /\ \A q \in Callers \ {p} : pc'[q] = pc[q] /\ call'[q] = call[q]
      /\ Changing' = Changing \ {p}
    BY <1>1, Answered DEF Break
<1>4. /\ seen' \in [Callers -> [changes: 0..2, values: SUBSET Outcomes]]
      /\ \A q \in Callers \ {p} : seen'[q] = seen[q]
    BY <1>1 DEF Break, ConfigTypeOK
<1>5. /\ due' \in [Scopes -> SUBSET Outcomes]
      /\ \A s \in Scopes : due[s] \subseteq due'[s]
    <2>1. call[p].scope \in Scopes /\ call[p].value \in Outcomes /\ due \in [Scopes -> SUBSET Outcomes]
        BY <1>1 DEF ConfigTypeOK, Call
    <2>2. CASE UNCHANGED due
        BY <2>1, <2>2
    <2>3. CASE due' = [due EXCEPT ![call[p].scope] = IF mixed THEN Outcomes
                                                     ELSE @ \cup {call[p].value}]
        <3>1. (IF mixed THEN Outcomes ELSE due[call[p].scope] \cup {call[p].value})
                 \in {Outcomes, due[call[p].scope] \cup {call[p].value}}
            OBVIOUS
        <3>2. PICK O \in SUBSET Outcomes :
                  due' = [due EXCEPT ![call[p].scope] = O] /\ due[call[p].scope] \subseteq O
            BY <2>1, <2>3, <3>1
        <3> QED BY <2>1, <3>2
    <2> QED BY <2>2, <2>3 DEF Break
<1>6. /\ mixed' \in BOOLEAN
      /\ \/ mixed' = (mixed /\ Changing # {p}) /\ Changing' = Changing \ {p}
         \/ mixed' = mixed /\ Changing' = Changing
    BY <1>1, <1>3 DEF Break, ConfigTypeOK
<1>7. ConfigTypeOK'
    BY <1>1, <1>2, <1>3, <1>4, <1>5, <1>6, TypeStep DEF Break, storeVars, ConfigTypeOK
<1>8. HoldingInv' /\ RevokedStays'
    BY <1>3, HoldingStep, KeysUnmoved DEF Break, storeVars
<1>9. DueInv'
    BY <1>3, <1>5, <1>6, DueLeft DEF Break, storeVars
<1>10. ReadInv'
    BY <1>3, <1>4, ReadsUnmoved DEF Break, storeVars, ReadersGoOn
<1> QED BY <1>7, <1>8, <1>9, <1>10 DEF StoreInv

-----------------------------------------------------------------------------
(* The theorems.                                                             *)

LEMMA InitHolds == ConfigInit => StoreInv
<1> SUFFICES ASSUME ConfigInit PROVE StoreInv
    OBVIOUS
<1>1. Absent \in Row /\ NoCall \in Call /\ NoRow \in Outcomes
    BY RowKinds, CallKinds DEF Outcomes
<1>2. ConfigTypeOK
    <2>1. NothingSeen \in [changes: 0..2, values: SUBSET Outcomes]
        BY DEF NothingSeen
    <2>2. /\ rows \in [Scopes -> Row] /\ vault \in [Names -> Values \cup {NoSecret, Deleted}]
          /\ keys \in [Keys -> {"none", "valid", "revoked"}]
          /\ \A s \in Scopes : rows[s].type # "secret_ref"
        BY <1>1 DEF ConfigInit, Absent
    <2>3. /\ pc \in [Callers -> Steps] /\ call \in [Callers -> Call]
          /\ seen \in [Callers -> [changes: 0..2, values: SUBSET Outcomes]]
        BY <1>1, <2>1 DEF ConfigInit, Steps
    <2>4. due \in [Scopes -> SUBSET Outcomes] /\ sealed \subseteq Keys
        BY <1>1 DEF ConfigInit
    <2>5. mixed \in BOOLEAN
        BY DEF ConfigInit
    <2>6. scene \in Scenes /\ calls \in 0..MaxCalls /\ breaks \in 0..MaxBreaks
        BY ConfigAssumption DEF ConfigInit
    <2> QED BY <2>2, <2>3, <2>4, <2>5, <2>6 DEF ConfigTypeOK
<1>3. HoldingInv /\ ReadInv /\ RevokedStays
    BY DEF ConfigInit, HoldingInv, ReadInv, RevokedStays
<1>4. DueInv
    BY DEF ConfigInit, DueInv, Changing, Resolved, Absent
<1> QED BY <1>2, <1>3, <1>4 DEF StoreInv

LEMMA NextHolds == StoreInv /\ [ConfigNext]_configVars => StoreInv'
<1> SUFFICES ASSUME StoreInv, [ConfigNext]_configVars PROVE StoreInv'
    OBVIOUS
<1>1. CASE ConfigNext
    BY <1>1, SetSecretHolds, SetPlainHolds, SetRefHolds, DeleteRowHolds, CreateSecretHolds,
       UpdateSecretHolds, DeleteSecretHolds, CreateKeyHolds, KeyCallHolds, StoreSecretHolds,
       PointRowHolds, CreatedHolds, RemoveSecretHolds, GetHolds, FallBackHolds, ResolveHolds,
       ReturnHolds, WriteRevokedHolds, TouchHolds, BreakHolds DEF ConfigNext
<1>2. CASE UNCHANGED configVars
    <2> USE <1>2 DEF configVars, storeVars, bounds
    <2>1. ConfigTypeOK'
        BY DEF StoreInv, ConfigTypeOK
    <2>2. HoldingInv' /\ RevokedStays'
        BY DEF StoreInv, HoldingInv, RevokedStays, Accepting
    <2>3. DueInv' /\ ReadInv'
        BY DEF StoreInv, DueInv, ReadInv, Changing, Resolved, Taken
    <2> QED BY <2>1, <2>2, <2>3 DEF StoreInv
<1> QED BY <1>1, <1>2

\* Whatever requests and workflows set, delete and break off, over rows that share secrets,
\* a row stands for what it was last set to (set_config_handler, ConfigRepository.set_config,
\* KeyVaultClient.set_secret), unless changes overlapped.
THEOREM ConfigInvAlways == ConfigSpec => []ConfigInv
<1>1. StoreInv => ConfigInv
    BY DEF StoreInv, DueInv, ConfigInv, SetsStay
<1> QED BY <1>1, InitHolds, NextHolds, PTL DEF ConfigSpec

\* config.get asks the organization, GLOBAL and Key Vault one after the other, and answers with
\* what the key stood for at one moment between, if it changed at most once (get_config).
THEOREM ReadsOneMomentAlways == ConfigSpec => []ReadsOneMoment
<1>1. StoreInv => ReadsOneMoment
    BY DEF StoreInv, ReadInv, ReadsOneMoment
<1> QED BY <1>1, InitHolds, NextHolds, PTL DEF ConfigSpec

\* A revoked workflow key is not accepted again (validate_workflow_key), unless a validation was
\* between its query and its write when the key was revoked.
THEOREM RevokedStaysAlways == ConfigSpec => []RevokedStays
<1>1. StoreInv => RevokedStays
    BY DEF StoreInv
<1> QED BY <1>1, InitHolds, NextHolds, PTL DEF ConfigSpec
=============================================================================
