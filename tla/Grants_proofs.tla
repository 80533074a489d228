---------------------------- MODULE Grants_proofs ----------------------------
(***************************************************************************)
(* Theorems about Grants for every set of objects and values.              *)
(***************************************************************************)
EXTENDS Grants, FiniteSetTheorems, TLAPS

-----------------------------------------------------------------------------
(* Type correctness *)

LEMMA BumpType ==
  ASSUME TypeOK, NEW g \in Groups, NEW A
  PROVE  BumpedRevision(g, A) \in Nat /\ BumpedRevision(g, A) >= grant[g].rev
<1>1. IsFiniteSet(A \cap grant[g].accounts)
  <2>1. A \cap grant[g].accounts \subseteq Accounts
    BY DEF TypeOK, GrantRow
  <2> QED
    BY <2>1, FS_Subset, ObjectsAssumption
<1>2. Cardinality(A \cap grant[g].accounts) \in Nat
  BY <1>1, FS_CardinalityType
<1>3. grant[g].rev \in Nat
  BY DEF TypeOK, GrantRow
<1> QED
  BY <1>2, <1>3 DEF BumpedRevision

LEMMA ClearedType ==
  ASSUME TypeOK, NEW a \in Accounts, NEW v \in Creds \cup {None}, NEW e \in BOOLEAN
  PROVE  Cleared(a, v, e) \in AccountRow
<1>1. account[a] \in AccountRow
  BY DEF TypeOK
<1> QED
  BY <1>1 DEF Cleared, AccountRow, LiveAccount

LEMMA UnconfirmedType ==
  ASSUME TypeOK, NEW A
  PROVE  Unconfirmed(A) \in [Groups -> GrantRow]
<1>1. ASSUME NEW g \in Groups
      PROVE  [live |-> TRUE, rev |-> BumpedRevision(g, A), enabled |-> grant[g].enabled,
               clients |-> grant[g].clients, accounts |-> grant[g].accounts,
               versions |-> WithoutVersions(g, A), code |-> grant[g].code] \in GrantRow
  <2>1. grant[g] \in GrantRow
    BY DEF TypeOK
  <2>2. WithoutVersions(g, A) \in [Accounts -> Specs \cup {None}]
    BY <2>1 DEF WithoutVersions, GrantRow
  <2>3. BumpedRevision(g, A) \in Nat
    BY BumpType
  <2> HIDE DEF WithoutVersions, BumpedRevision
  <2> QED
    BY <2>1, <2>2, <2>3 DEF GrantRow
<1>2. \A g \in Groups : grant[g] \in GrantRow
  BY DEF TypeOK
<1> QED
  BY <1>1, <1>2 DEF Unconfirmed

\* Every step keeps the shape of the tables and of the objects in memory.
THEOREM TypeCorrect == Spec => []TypeOK
<1>1. Init => TypeOK
  <2> SUFFICES ASSUME Init PROVE TypeOK
    OBVIOUS
  <2>1. asset \in [Assets -> AssetRow]
    BY DEF Init, PresentAsset, LiveAsset, AssetRow
  <2>2. account \in [Accounts -> AccountRow]
    BY DEF Init, PresentAccount, LiveAccount, AccountRow
  <2>3. client \in [Clients -> ClientRow]
    BY DEF Init, PresentClient, LiveClient, ClientRow
  <2>4. grant \in [Groups -> GrantRow]
    BY DEF Init, GrantRow, NoVersions
  <2>5. refresh \in [Accounts -> Refresh]
    BY DEF Init, NoRefresh, Refresh
  <2>6. call \in [Calls -> Call]
    BY DEF Init, NoCall, Call
  <2>7. source \in [Accounts -> Config]
    BY DEF Init, Config
  <2>8. edits \in 0 .. MaxEdits
    BY ValuesAssumption DEF Init
  <2> QED
    BY <2>1, <2>2, <2>3, <2>4, <2>5, <2>6, <2>7, <2>8 DEF Init, TypeOK
<1>2. TypeOK /\ [Next]_vars => TypeOK'
  <2> SUFFICES ASSUME TypeOK, [Next]_vars PROVE TypeOK'
    OBVIOUS
  <2> USE ObjectsAssumption, ValuesAssumption
  <2>1. ASSUME Edit PROVE edits' \in 0 .. MaxEdits
    BY <2>1 DEF Edit, TypeOK
  <2>2. ASSUME NEW s \in Assets, EditAsset(s) PROVE TypeOK'
    <3>1. ASSUME NEW v \in Conns, NEW e \in BOOLEAN, CreateAsset(s, v, e) PROVE TypeOK'
      BY <2>1, <3>1 DEF CreateAsset, TypeOK, AssetRow, LiveAsset, history
    <3>2. ASSUME NEW v \in Conns, NEW e \in BOOLEAN, UpdateAsset(s, v, e) PROVE TypeOK'
      <4>1. asset' \in [Assets -> AssetRow]
        BY <3>2 DEF UpdateAsset, TypeOK, AssetRow, LiveAsset
      <4>2. account' \in [Accounts -> AccountRow]
        <5>1. \A a \in Accounts : account[a] \in AccountRow
          BY DEF TypeOK
        <5>2. \A a \in Accounts : Cleared(a, account[a].cred, account[a].enabled) \in AccountRow
          BY <5>1, ClearedType DEF AccountRow
        <5> QED
          BY <3>2, <5>1, <5>2 DEF UpdateAsset, TypeOK
      <4>3. grant' \in [Groups -> GrantRow]
        BY <3>2, UnconfirmedType DEF UpdateAsset, TypeOK
      <4> QED
        BY <2>1, <3>2, <4>1, <4>2, <4>3 DEF UpdateAsset, TypeOK, history
    <3>3. ASSUME DeleteAsset(s) PROVE TypeOK'
      BY <2>1, <3>3 DEF DeleteAsset, TypeOK, AssetRow, LiveAsset, history
    <3> QED
      BY <2>2, <3>1, <3>2, <3>3 DEF EditAsset
  <2>3. ASSUME NEW a \in Accounts, EditAccount(a) PROVE TypeOK'
    <3>1. ASSUME NEW v \in Creds, NEW e \in BOOLEAN, CreateAccount(a, v, e) PROVE TypeOK'
      BY <2>1, <3>1 DEF CreateAccount, TypeOK, AccountRow, LiveAccount, history
    <3>2. ASSUME NEW v \in Creds, NEW r \in BOOLEAN, NEW e \in BOOLEAN,
                 UpdateAccount(a, v, r, e)
          PROVE  TypeOK'
      <4>1. account' \in [Accounts -> AccountRow]
        <5>1. CASE r
          <6>1. Cleared(a, v, e) \in AccountRow
            BY ClearedType
          <6> QED
            BY <3>2, <5>1, <6>1 DEF UpdateAccount, TypeOK
        <5>2. CASE ~r
          <6>1. LiveAccount(account[a].rev + 1, e, account[a].cred, account[a].catalog,
                            account[a].fresh) \in AccountRow
            <7>1. account[a] \in AccountRow
              BY DEF TypeOK
            <7> QED
              BY <7>1 DEF LiveAccount, AccountRow
          <6> QED
            BY <3>2, <5>2, <6>1 DEF UpdateAccount, TypeOK
        <5> QED
          BY <5>1, <5>2
      <4>2. grant' \in [Groups -> GrantRow]
        BY <3>2, UnconfirmedType DEF UpdateAccount, TypeOK
      <4> QED
        BY <2>1, <3>2, <4>1, <4>2 DEF UpdateAccount, TypeOK, history
    <3>3. ASSUME DeleteAccount(a) PROVE TypeOK'
      BY <2>1, <3>3 DEF DeleteAccount, TypeOK, AccountRow, history
    <3> QED
      BY <2>3, <3>1, <3>2, <3>3 DEF EditAccount
  <2>4. ASSUME NEW a \in Accounts, AgeCatalog(a) PROVE TypeOK'
    BY <2>4 DEF AgeCatalog, TypeOK, AccountRow, history
  <2>5. ASSUME NEW a \in Accounts, RefreshStep(a) PROVE TypeOK'
    <3>1. ASSUME account_snapshot(a) PROVE TypeOK'
      <4>1. refresh' \in [Accounts -> Refresh]
        <5>1. asset[AssetOf[a]] \in AssetRow /\ account[a] \in AccountRow
          BY DEF TypeOK
        <5> QED
          BY <3>1, <5>1 DEF account_snapshot, TypeOK, Refresh, AssetRowOf, AssetRow, AccountRow
      <4> QED
        BY <3>1, <4>1 DEF account_snapshot, TypeOK, tables, history
    <3>2. ASSUME begin(a) PROVE TypeOK'
      <4>1. [refresh[a] EXCEPT !.phase = "begun"] \in Refresh
        <5>1. refresh[a] \in Refresh
          BY DEF TypeOK
        <5> QED
          BY <5>1 DEF Refresh
      <4>2. NoRefresh \in Refresh
        BY DEF NoRefresh, Refresh
      <4>3. refresh' \in [Accounts -> Refresh]
        BY <3>2, <4>1, <4>2 DEF begin, TypeOK
      <4> QED
        BY <3>2, <4>3 DEF begin, TypeOK, tables, history
    <3>3. ASSUME NEW p \in Specs \cup {None}, discover(a, p) PROVE TypeOK'
      <4>1. [refresh[a] EXCEPT !.phase = "found", !.spec = p] \in Refresh
        <5>1. refresh[a] \in Refresh
          BY DEF TypeOK
        <5> QED
          BY <5>1 DEF Refresh
      <4>2. refresh' \in [Accounts -> Refresh]
        BY <3>3, <4>1 DEF discover, TypeOK
      <4> QED
        BY <3>3, <4>2 DEF discover, TypeOK, tables, history
    <3>4. ASSUME SaveCatalog(a) PROVE TypeOK'
      <4>1. refresh[a] \in Refresh
        BY DEF TypeOK
      <4>2. account' \in [Accounts -> AccountRow]
        <5>1. account[a] \in AccountRow /\ refresh[a].spec \in Specs \cup {None}
          BY <4>1 DEF TypeOK, Refresh
        <5>2. [account[a] EXCEPT !.catalog = refresh[a].spec, !.fresh = TRUE] \in AccountRow
          BY <5>1 DEF AccountRow
        <5> QED
          BY <3>4, <5>2 DEF SaveCatalog, TypeOK
      <4>3. source' \in [Accounts -> Config]
        BY <3>4, <4>1 DEF SaveCatalog, TypeOK, Refresh, Config
      <4>4. refresh' \in [Accounts -> Refresh]
        BY <3>4 DEF SaveCatalog, TypeOK, Refresh, NoRefresh
      <4> QED
        BY <3>4, <4>2, <4>3, <4>4 DEF SaveCatalog, TypeOK
    <3>5. ASSUME RefreshFails(a) PROVE TypeOK'
      BY <3>5 DEF RefreshFails, TypeOK, Refresh, NoRefresh, tables, history
    <3> QED
      BY <2>5, <3>1, <3>2, <3>3, <3>4, <3>5 DEF RefreshStep
  <2>6. ASSUME NEW c \in Clients, EditClient(c) PROVE TypeOK'
    <3>1. ASSUME NEW e \in BOOLEAN, SaveClient(c, e) PROVE TypeOK'
      <4>1. client[c] \in ClientRow
        BY DEF TypeOK
      <4>2. LiveClient(client[c].rev + 1, e, client[c].token) \in ClientRow
        BY <4>1 DEF LiveClient, ClientRow
      <4>3. LiveClient(1, e, client[c].token + 1) \in ClientRow
        BY <4>1 DEF LiveClient, ClientRow
      <4>4. client' \in [Clients -> ClientRow]
        BY <3>1, <4>2, <4>3 DEF SaveClient, TypeOK
      <4> QED
        BY <2>1, <3>1, <4>4 DEF SaveClient, TypeOK, history
    <3>2. ASSUME rotate(c) PROVE TypeOK'
      BY <2>1, <3>2 DEF rotate, TypeOK, ClientRow, history
    <3>3. ASSUME DeleteClient(c) PROVE TypeOK'
      BY <2>1, <3>3 DEF DeleteClient, TypeOK, ClientRow, history
    <3> QED
      BY <2>6, <3>1, <3>2, <3>3 DEF EditClient
  <2>7. ASSUME NEW c \in Clients, Expire(c) PROVE TypeOK'
    BY <2>7 DEF Expire, TypeOK, ClientRow, history
  <2>8. ASSUME NEW g \in Groups, EditGrant(g) PROVE TypeOK'
    <3>1. ASSUME NEW C \in SUBSET Clients, NEW A \in SUBSET Accounts, NEW e \in BOOLEAN,
                 NEW vg \in BOOLEAN, NEW cg \in BOOLEAN, SaveGrant(g, C, A, e, vg, cg)
          PROVE  TypeOK'
      <4>1. \A a \in A : account[a].catalog \in Specs
        BY <3>1 DEF SaveGrant, Accepted, TypeOK, AccountRow
      <4>2. A # {} => artifact \in Artifacts
        BY <3>1 DEF SaveGrant, Accepted, TypeOK
      <4>3. Expected(A) \in [Accounts -> Specs \cup {None}]
        BY <4>1 DEF Expected
      <4>4. ExpectedCode(A) \in Artifacts \cup {None}
        BY <4>2 DEF ExpectedCode
      <4>5. grant' \in [Groups -> GrantRow]
        BY <3>1, <4>3, <4>4 DEF SaveGrant, TypeOK, GrantRow
      <4>6. \A a \in A : [group |-> g, account |-> a, spec |-> account[a].catalog,
                           conn |-> AssetRowOf(a).conn, cred |-> account[a].cred] \in Approval
        <5> SUFFICES ASSUME NEW a \in A
                     PROVE  AssetRowOf(a).conn \in Conns \cup {None} /\ account[a].cred \in Creds \cup {None}
          BY <4>1 DEF Approval
        <5>1. asset[AssetOf[a]] \in AssetRow /\ account[a] \in AccountRow
          BY DEF TypeOK
        <5> QED
          BY <5>1 DEF AssetRowOf, AssetRow, AccountRow
      <4>7. confirmed' \subseteq Approval
        BY <3>1, <4>6 DEF SaveGrant, TypeOK
      <4>8. confirmedCode' \subseteq CodeApproval
        BY <3>1, <4>2 DEF SaveGrant, TypeOK, CodeApproval
      <4> QED
        BY <2>1, <3>1, <4>5, <4>7, <4>8 DEF SaveGrant, TypeOK
    <3>2. ASSUME NEW e \in BOOLEAN, ReviseGrant(g, e) PROVE TypeOK'
      <4>1. [live |-> TRUE, rev |-> grant[g].rev + 1, enabled |-> e, clients |-> grant[g].clients,
             accounts |-> grant[g].accounts, versions |-> grant[g].versions,
             code |-> grant[g].code] \in GrantRow
        <5>1. grant[g] \in GrantRow
          BY DEF TypeOK
        <5> QED
          BY <5>1 DEF GrantRow
      <4>2. grant' \in [Groups -> GrantRow]
        BY <3>2, <4>1 DEF ReviseGrant, TypeOK
      <4> QED
        BY <2>1, <3>2, <4>2 DEF ReviseGrant, TypeOK, history
    <3>3. ASSUME DeleteGrant(g) PROVE TypeOK'
      <4>1. [grant[g] EXCEPT !.live = FALSE] \in GrantRow
        <5>1. grant[g] \in GrantRow
          BY DEF TypeOK
        <5> QED
          BY <5>1 DEF GrantRow
      <4>2. grant' \in [Groups -> GrantRow]
        BY <3>3, <4>1 DEF DeleteGrant, TypeOK
      <4> QED
        BY <2>1, <3>3, <4>2 DEF DeleteGrant, TypeOK, history
    <3> QED
      BY <2>8, <3>1, <3>2, <3>3 DEF EditGrant
  <2>9. ASSUME NEW k \in Calls, CallStep(k) PROVE TypeOK'
    <3>1. ASSUME NEW c \in Clients, authenticate(k, c) PROVE TypeOK'
      <4>1. client[c].token \in Nat
        BY DEF TypeOK, ClientRow
      <4> QED
        BY <3>1, <4>1 DEF authenticate, TypeOK, Call, NoCall, tables, history
    <3>2. ASSUME NEW a \in Accounts, prepare(k, a) PROVE TypeOK'
      <4>1. asset[AssetOf[a]] \in AssetRow /\ account[a] \in AccountRow
        BY DEF TypeOK
      <4>2. call' \in [Calls -> Call]
        BY <3>2, <4>1 DEF prepare, TypeOK, Call, AssetRowOf, AssetRow, AccountRow
      <4> QED
        BY <3>2, <4>2 DEF prepare, TypeOK, tables, history
    <3>3. ASSUME denied(k) PROVE TypeOK'
      <4>1. [call[k] EXCEPT !.phase = "done"] \in Call
        <5>1. call[k] \in Call
          BY DEF TypeOK
        <5> QED
          BY <5>1 DEF Call
      <4>2. call' \in [Calls -> Call]
        BY <3>3, <4>1 DEF denied, TypeOK
      <4> QED
        BY <3>3, <4>2 DEF denied, TypeOK, tables, history
    <3>4. ASSUME execute(k) PROVE TypeOK'
      <4>1. [call[k] EXCEPT !.phase = "done", !.ran = artifact] \in Call
        <5>1. call[k] \in Call /\ artifact \in Artifacts \cup {None}
          BY DEF TypeOK
        <5> QED
          BY <5>1 DEF Call
      <4>2. call' \in [Calls -> Call]
        BY <3>4, <4>1 DEF execute, TypeOK
      <4> QED
        BY <3>4, <4>2 DEF execute, TypeOK, tables, history
    <3> QED
      BY <2>9, <3>1, <3>2, <3>3, <3>4 DEF CallStep
  <2>10. ASSUME NEW h \in Artifacts \cup {None}, SwitchPlugin(h) PROVE TypeOK'
    BY <2>10 DEF SwitchPlugin, TypeOK, tables, history
  <2>11. CASE UNCHANGED vars
    BY <2>11 DEF vars, TypeOK
  <2> QED
    BY <2>2, <2>3, <2>4, <2>5, <2>6, <2>7, <2>8, <2>9, <2>10, <2>11 DEF Next
<1> QED
  BY <1>1, <1>2, PTL DEF Spec

-----------------------------------------------------------------------------
(* Strengthened invariants *)

\* An identity that was deleted is reserved; a row that exists has a revision.
DeletedReserved ==
  /\ \A s \in Assets : IF asset[s].live THEN asset[s].rev > 0
                                         ELSE asset[s].rev = 0 \/ s \in reserved
  /\ \A a \in Accounts : IF account[a].live THEN account[a].rev > 0
                                             ELSE account[a].rev = 0 \/ a \in reserved

\* A refresh under way saw revisions that existed, and if they are still the
\* current ones it works on the current configuration.
SnapshotsMatch ==
  \A a \in Accounts : refresh[a].phase # "idle" =>
    /\ refresh[a].accountRev \in 1 .. account[a].rev
    /\ refresh[a].assetRev \in 1 .. AssetRowOf(a).rev
    /\ SnapshotCurrent(a) => /\ refresh[a].conn = AssetRowOf(a).conn
                             /\ refresh[a].cred = account[a].cred

RefreshInv == DeletedReserved /\ SnapshotsMatch /\ CatalogIsCurrent

\* A group has versions of its members only, each one submitted by an
\* administrator under the configuration the member has now.
VersionsConfirmed ==
  \A g \in Groups : grant[g].live =>
    /\ \A a \in Accounts : grant[g].versions[a] # None =>
         /\ a \in grant[g].accounts
         /\ [group |-> g, account |-> a, spec |-> grant[g].versions[a],
             conn |-> AssetRowOf(a).conn, cred |-> account[a].cred] \in confirmed
    /\ grant[g].code # None => [group |-> g, code |-> grant[g].code] \in confirmedCode

ConfirmInv == VersionsConfirmed /\ CallsConfirmed

-----------------------------------------------------------------------------
(* References *)

\* The flags and members that ReferencesLive is about.
SameReferences ==
  /\ \A s \in Assets : asset'[s].live = asset[s].live
  /\ \A a \in Accounts : account'[a].live = account[a].live
  /\ \A c \in Clients : client'[c].live = client[c].live
  /\ \A g \in Groups : /\ grant'[g].live = grant[g].live
                       /\ grant'[g].accounts = grant[g].accounts
                       /\ grant'[g].clients = grant[g].clients

LEMMA ReferencesFrame ==
  ASSUME TypeOK, ReferencesLive, SameReferences
  PROVE  ReferencesLive'
<1>1. \A g \in Groups : grant[g].accounts \subseteq Accounts /\ grant[g].clients \subseteq Clients
  BY DEF TypeOK, GrantRow
<1> QED
  BY <1>1, ObjectsAssumption DEF ReferencesLive, SameReferences, AssetRowOf

\* What a change of the configuration of some accounts leaves alone.
LEMMA UnconfirmedKeeps ==
  ASSUME TypeOK, NEW A, grant' = Unconfirmed(A), NEW g \in Groups
  PROVE  /\ grant'[g].live = grant[g].live
         /\ grant'[g].accounts = grant[g].accounts
         /\ grant'[g].clients = grant[g].clients
         /\ grant'[g].code = grant[g].code
         /\ grant'[g].enabled = grant[g].enabled
         /\ grant[g].live => grant'[g].versions = WithoutVersions(g, A)
<1>1. CASE grant[g].live
  <2>1. grant[g].live = TRUE
    BY <1>1 DEF TypeOK, GrantRow
  <2> QED
    BY <1>1, <2>1 DEF Unconfirmed
<1>2. CASE ~grant[g].live
  BY <1>2 DEF Unconfirmed
<1> QED
  BY <1>1, <1>2

\* No transaction leaves a group with a member, or an account with an asset,
\* that does not exist.
THEOREM MembersExist == Spec => []ReferencesLive
<1>1. Init => ReferencesLive
  <2> SUFFICES ASSUME Init PROVE ReferencesLive
    OBVIOUS
  <2>1. \A g \in Groups : ~grant[g].live
    BY DEF Init
  <2>2. \A a \in Accounts : account[a].live => AssetRowOf(a).live
    <3>1. \A a \in Accounts : account[a].live <=> a \in Present
      <4>1. PICK v \in Creds : account = [a \in Accounts |-> PresentAccount(a, v)]
        BY DEF Init
      <4>2. \A a \in Accounts : account[a] = PresentAccount(a, v)
        BY <4>1
      <4> QED
        BY <4>2 DEF PresentAccount, LiveAccount
    <3>2. \A s \in Assets : asset[s].live <=> s \in Present
      <4>1. PICK v \in Conns : asset = [s \in Assets |-> PresentAsset(s, v)]
        BY DEF Init
      <4>2. \A s \in Assets : asset[s] = PresentAsset(s, v)
        BY <4>1
      <4> QED
        BY <4>2 DEF PresentAsset, LiveAsset
    <3> QED
      BY <3>1, <3>2, ObjectsAssumption DEF AssetRowOf
  <2> QED
    BY <2>1, <2>2 DEF ReferencesLive
<1>2. TypeOK /\ ReferencesLive /\ [Next]_vars => ReferencesLive'
  <2> SUFFICES ASSUME TypeOK, ReferencesLive, [Next]_vars PROVE ReferencesLive'
    OBVIOUS
  <2> USE ObjectsAssumption
  <2>0. /\ \A g \in Groups : grant[g].accounts \subseteq Accounts /\ grant[g].clients \subseteq Clients
        /\ \A s \in Assets : asset[s].live \in BOOLEAN
        /\ \A a \in Accounts : account[a].live \in BOOLEAN
        /\ \A c \in Clients : client[c].live \in BOOLEAN
    BY DEF TypeOK, GrantRow, AssetRow, AccountRow, ClientRow
  <2>1. ASSUME NEW s \in Assets, NEW v \in Conns, NEW e \in BOOLEAN, CreateAsset(s, v, e)
        PROVE  ReferencesLive'
    <3>1. asset'[s].live /\ \A t \in Assets \ {s} : asset'[t] = asset[t]
      BY <2>1 DEF CreateAsset, LiveAsset, TypeOK
    <3>2. UNCHANGED <<account, client, grant>>
      BY <2>1 DEF CreateAsset
    <3> QED
      BY <3>1, <3>2 DEF ReferencesLive, AssetRowOf
  <2>2. ASSUME NEW s \in Assets, NEW v \in Conns, NEW e \in BOOLEAN, UpdateAsset(s, v, e)
        PROVE  ReferencesLive'
    <3>1. \A t \in Assets : asset'[t].live = asset[t].live
      <4>1. \A t \in Assets \ {s} : asset'[t] = asset[t]
        BY <2>2 DEF UpdateAsset, TypeOK
      <4>2. asset'[s].live /\ asset'[s].live \in BOOLEAN
        BY <2>2 DEF UpdateAsset, LiveAsset, TypeOK
      <4> QED
        BY <2>0, <2>2, <4>1, <4>2 DEF UpdateAsset
    <3>2. \A a \in Accounts : account'[a].live = account[a].live
      <4>1. \A a \in Accounts :
              account'[a] = account[a] \/
                (account[a].live /\ account'[a] = Cleared(a, account[a].cred, account[a].enabled))
        BY <2>2 DEF UpdateAsset
      <4>2. \A a \in Accounts : Cleared(a, account[a].cred, account[a].enabled).live = TRUE
        BY DEF Cleared, LiveAccount
      <4> QED
        BY <2>0, <4>1, <4>2
    <3>3. \A g \in Groups : /\ grant'[g].live = grant[g].live
                           /\ grant'[g].accounts = grant[g].accounts
                           /\ grant'[g].clients = grant[g].clients
      BY <2>2, UnconfirmedKeeps DEF UpdateAsset
    <3>4. UNCHANGED client
      BY <2>2 DEF UpdateAsset
    <3> QED
      BY <3>1, <3>2, <3>3, <3>4, ReferencesFrame DEF SameReferences
  <2>3. ASSUME NEW s \in Assets, DeleteAsset(s) PROVE ReferencesLive'
    <3>1. \A t \in Assets \ {s} : asset'[t] = asset[t]
      BY <2>3 DEF DeleteAsset, TypeOK
    <3>2. \A a \in Accounts : account[a].live => AssetOf[a] # s
      BY <2>3 DEF DeleteAsset, AssetUnused, AccountsOf
    <3> QED
      BY <2>3, <3>1, <3>2 DEF DeleteAsset, ReferencesLive, AssetRowOf
  <2>4. ASSUME NEW a \in Accounts, NEW v \in Creds, NEW e \in BOOLEAN, CreateAccount(a, v, e)
        PROVE  ReferencesLive'
    <3>1. account'[a].live /\ \A b \in Accounts \ {a} : account'[b] = account[b]
      BY <2>4 DEF CreateAccount, LiveAccount, TypeOK
    <3>2. UNCHANGED <<asset, client, grant>> /\ AssetRowOf(a).live
      BY <2>4 DEF CreateAccount
    <3> QED
      BY <2>0, <3>1, <3>2 DEF ReferencesLive, AssetRowOf
  <2>5. ASSUME NEW a \in Accounts, NEW v \in Creds, NEW r \in BOOLEAN, NEW e \in BOOLEAN,
               UpdateAccount(a, v, r, e)
        PROVE  ReferencesLive'
    <3>1. \A b \in Accounts : account'[b].live = account[b].live
      <4>1. \A b \in Accounts \ {a} : account'[b] = account[b]
        BY <2>5 DEF UpdateAccount, TypeOK
      <4>2. account'[a].live = TRUE
        <5>1. CASE r
          <6>1. account'[a] = Cleared(a, v, e)
            BY <2>5, <5>1 DEF UpdateAccount, TypeOK
          <6> QED
            BY <6>1 DEF Cleared, LiveAccount
        <5>2. CASE ~r
          BY <2>5, <5>2 DEF UpdateAccount, LiveAccount, TypeOK
        <5> QED
          BY <5>1, <5>2
      <4> QED
        BY <2>0, <2>5, <4>1, <4>2 DEF UpdateAccount
    <3>2. \A g \in Groups : /\ grant'[g].live = grant[g].live
                           /\ grant'[g].accounts = grant[g].accounts
                           /\ grant'[g].clients = grant[g].clients
      BY <2>5, UnconfirmedKeeps DEF UpdateAccount
    <3>3. UNCHANGED <<asset, client>>
      BY <2>5 DEF UpdateAccount
    <3> QED
      BY <3>1, <3>2, <3>3, ReferencesFrame DEF SameReferences
  <2>6. ASSUME NEW a \in Accounts, DeleteAccount(a) PROVE ReferencesLive'
    <3>1. \A b \in Accounts \ {a} : account'[b] = account[b]
      BY <2>6 DEF DeleteAccount, TypeOK
    <3>2. ~account'[a].live
      BY <2>6 DEF DeleteAccount, TypeOK, AccountRow
    <3> QED
      BY <2>0, <2>6, <3>1, <3>2 DEF DeleteAccount, AccountUnused, ReferencesLive, AssetRowOf
  <2>7. ASSUME NEW a \in Accounts, AgeCatalog(a) \/ SaveCatalog(a) PROVE ReferencesLive'
    <3>1. \A b \in Accounts : account'[b].live = account[b].live
      BY <2>7 DEF AgeCatalog, SaveCatalog, TypeOK, AccountRow
    <3>2. UNCHANGED <<asset, client, grant>>
      BY <2>7 DEF AgeCatalog, SaveCatalog
    <3> QED
      BY <3>1, <3>2, ReferencesFrame DEF SameReferences
  <2>8. ASSUME NEW c \in Clients, NEW e \in BOOLEAN, SaveClient(c, e) PROVE ReferencesLive'
    <3>1. client'[c].live /\ \A d \in Clients \ {c} : client'[d] = client[d]
      BY <2>8 DEF SaveClient, LiveClient, TypeOK
    <3>2. UNCHANGED <<asset, account, grant>>
      BY <2>8 DEF SaveClient
    <3> QED
      BY <2>0, <3>1, <3>2 DEF ReferencesLive, AssetRowOf
  <2>9. ASSUME NEW c \in Clients, rotate(c) \/ Expire(c) PROVE ReferencesLive'
    <3>1. \A d \in Clients : client'[d].live = client[d].live
      <4>1. \A d \in Clients \ {c} : client'[d] = client[d]
        BY <2>9 DEF rotate, Expire, TypeOK
      <4>2. CASE rotate(c)
        <5>1. client'[c].live /\ client'[c].live \in BOOLEAN
          BY <4>2 DEF rotate, TypeOK
        <5> QED
          BY <2>0, <4>1, <4>2, <5>1 DEF rotate
      <4>3. CASE Expire(c)
        <5>1. client'[c] = [client[c] EXCEPT !.expired = TRUE]
          BY <4>3 DEF Expire, TypeOK
        <5>2. client'[c].live = client[c].live
          BY <5>1 DEF TypeOK, ClientRow
        <5> QED
          BY <4>1, <5>2
      <4> QED
        BY <2>9, <4>2, <4>3
    <3>2. UNCHANGED <<asset, account, grant>>
      BY <2>9 DEF rotate, Expire
    <3> QED
      BY <3>1, <3>2, ReferencesFrame DEF SameReferences
  <2>10. ASSUME NEW c \in Clients, DeleteClient(c) PROVE ReferencesLive'
    <3>1. \A d \in Clients \ {c} : client'[d] = client[d]
      BY <2>10 DEF DeleteClient, TypeOK
    <3> QED
      BY <2>0, <2>10, <3>1 DEF DeleteClient, ClientUnused, ReferencesLive, AssetRowOf
  <2>11. ASSUME NEW g \in Groups, NEW C \in SUBSET Clients, NEW A \in SUBSET Accounts,
                NEW e \in BOOLEAN, NEW vg \in BOOLEAN, NEW cg \in BOOLEAN,
                SaveGrant(g, C, A, e, vg, cg)
         PROVE  ReferencesLive'
    <3>1. grant'[g].clients = C /\ grant'[g].accounts = A
      BY <2>11 DEF SaveGrant, TypeOK
    <3>2. \A h \in Groups \ {g} : grant'[h] = grant[h]
      BY <2>11 DEF SaveGrant, TypeOK
    <3>3. (\A c \in C : client[c].live) /\ (\A a \in A : account[a].live)
      BY <2>11 DEF SaveGrant
    <3>4. UNCHANGED <<asset, account, client>>
      BY <2>11 DEF SaveGrant
    <3> QED
      BY <3>1, <3>2, <3>3, <3>4 DEF ReferencesLive, AssetRowOf
  <2>12. ASSUME NEW g \in Groups, NEW e \in BOOLEAN, ReviseGrant(g, e) PROVE ReferencesLive'
    <3>1. grant'[g].clients = grant[g].clients /\ grant'[g].accounts = grant[g].accounts
      BY <2>12 DEF ReviseGrant, TypeOK
    <3>2. \A h \in Groups \ {g} : grant'[h] = grant[h]
      BY <2>12 DEF ReviseGrant, TypeOK
    <3>3. UNCHANGED <<asset, account, client>> /\ grant[g].live
      BY <2>12 DEF ReviseGrant
    <3> QED
      BY <3>1, <3>2, <3>3 DEF ReferencesLive, AssetRowOf
  <2>13. ASSUME NEW g \in Groups, DeleteGrant(g) PROVE ReferencesLive'
    <3>1. ~grant'[g].live
      BY <2>13 DEF DeleteGrant, TypeOK, GrantRow
    <3>2. \A h \in Groups \ {g} : grant'[h] = grant[h]
      BY <2>13 DEF DeleteGrant, TypeOK
    <3>3. UNCHANGED <<asset, account, client>>
      BY <2>13 DEF DeleteGrant
    <3> QED
      BY <3>1, <3>2, <3>3 DEF ReferencesLive, AssetRowOf
  <2>14. ASSUME UNCHANGED tables PROVE ReferencesLive'
    BY <2>14 DEF tables, ReferencesLive, AssetRowOf
  <2>15. ASSUME NEW a \in Accounts, RefreshStep(a) PROVE UNCHANGED tables \/ SaveCatalog(a)
    BY <2>15 DEF RefreshStep, account_snapshot, begin, discover, RefreshFails
  <2>16. ASSUME NEW k \in Calls, CallStep(k) PROVE UNCHANGED tables
    BY <2>16 DEF CallStep, authenticate, prepare, denied, execute
  <2>17. ASSUME NEW h \in Artifacts \cup {None}, SwitchPlugin(h) PROVE UNCHANGED tables
    BY <2>17 DEF SwitchPlugin
  <2>18. CASE UNCHANGED vars
    BY <2>14, <2>18 DEF vars, tables
  <2> QED
    BY <2>1, <2>2, <2>3, <2>4, <2>5, <2>6, <2>7, <2>8, <2>9, <2>10, <2>11, <2>12, <2>13,
       <2>14, <2>15, <2>16, <2>17, <2>18
       DEF Next, EditAsset, EditAccount, EditClient, EditGrant
<1> QED
  BY <1>1, <1>2, TypeCorrect, PTL DEF Spec

-----------------------------------------------------------------------------
(* Catalogs *)

LEMMA RowTypes ==
  ASSUME TypeOK
  PROVE  /\ \A s \in Assets : asset[s].rev \in Nat /\ asset[s].live \in BOOLEAN
         /\ \A a \in Accounts : /\ account[a].rev \in Nat
                                /\ account[a].live \in BOOLEAN
                                /\ refresh[a] \in Refresh
                                /\ AssetOf[a] \in Assets
BY ObjectsAssumption DEF TypeOK, AssetRow, AccountRow

LEMMA RefreshFrame ==
  ASSUME RefreshInv, UNCHANGED <<asset, account, refresh, source>>, reserved \subseteq reserved'
  PROVE  RefreshInv'
BY DEF RefreshInv, DeletedReserved, SnapshotsMatch, CatalogIsCurrent, SnapshotCurrent, AssetRowOf

\* A row that did not exist has no refresh under way.
LEMMA NoRefreshOfNew ==
  ASSUME TypeOK, RefreshInv, NEW a \in Accounts,
         AssetRowOf(a).rev = 0 \/ account[a].rev = 0
  PROVE  refresh[a].phase = "idle"
<1>1. \A n : n \notin 1 .. 0
  OBVIOUS
<1> QED
  BY <1>1 DEF RefreshInv, SnapshotsMatch

LEMMA RefreshInvAsset ==
  ASSUME TypeOK, ReferencesLive, RefreshInv, NEW s \in Assets, EditAsset(s)
  PROVE  RefreshInv'
<1> USE RowTypes
<1>1. ASSUME NEW v \in Conns, NEW e \in BOOLEAN, CreateAsset(s, v, e) PROVE RefreshInv'
  <2>1. asset'[s].live /\ asset'[s].rev = 1 /\ \A t \in Assets \ {s} : asset'[t] = asset[t]
    BY <1>1 DEF CreateAsset, LiveAsset, TypeOK
  <2>2. UNCHANGED <<account, refresh, reserved, source>>
    BY <1>1 DEF CreateAsset, history
  <2>3. ~asset[s].live /\ asset[s].rev = 0
    BY <1>1 DEF CreateAsset, NotReserved, RefreshInv, DeletedReserved
  <2>4. \A a \in Accounts : AssetOf[a] = s => ~account[a].live /\ refresh[a].phase = "idle"
    BY <2>3, NoRefreshOfNew DEF ReferencesLive, AssetRowOf
  <2>5. DeletedReserved'
    BY <2>1, <2>2 DEF RefreshInv, DeletedReserved
  <2>6. SnapshotsMatch'
    BY <2>1, <2>2, <2>4 DEF RefreshInv, SnapshotsMatch, SnapshotCurrent, AssetRowOf
  <2>7. CatalogIsCurrent'
    BY <2>1, <2>2, <2>4 DEF RefreshInv, CatalogIsCurrent, AssetRowOf
  <2> QED
    BY <2>5, <2>6, <2>7 DEF RefreshInv
<1>2. ASSUME NEW v \in Conns, NEW e \in BOOLEAN, UpdateAsset(s, v, e) PROVE RefreshInv'
  <2>1. /\ asset'[s].live /\ asset'[s].rev = asset[s].rev + 1 /\ asset'[s].conn = v
        /\ asset[s].live
        /\ \A t \in Assets \ {s} : asset'[t] = asset[t]
    BY <1>2 DEF UpdateAsset, LiveAsset, TypeOK
  <2>2. UNCHANGED <<refresh, reserved, source>>
    BY <1>2 DEF UpdateAsset, history
  <2>3. ASSUME NEW a \in Accounts
        PROVE  \/ account'[a] = account[a] /\ (AssetOf[a] # s \/ ~account[a].live \/ v = asset[s].conn)
               \/ /\ AssetOf[a] = s /\ account[a].live /\ account'[a].live
                  /\ account'[a].rev = account[a].rev + 1
                  /\ account'[a].cred = account[a].cred /\ account'[a].catalog = None
    BY <1>2 DEF UpdateAsset, Cleared, LiveAccount
  <2>4. DeletedReserved'
    BY <2>1, <2>2, <2>3 DEF RefreshInv, DeletedReserved
  <2>5. SnapshotsMatch'
    <3> SUFFICES ASSUME NEW a \in Accounts, refresh[a].phase # "idle"
                 PROVE  /\ refresh[a].accountRev \in 1 .. account'[a].rev
                        /\ refresh[a].assetRev \in 1 .. AssetRowOf(a)'.rev
                        /\ SnapshotCurrent(a)' => /\ refresh[a].conn = AssetRowOf(a)'.conn
                                                  /\ refresh[a].cred = account'[a].cred
      BY <2>2 DEF SnapshotsMatch
    <3>1. /\ refresh[a].accountRev \in 1 .. account[a].rev
          /\ refresh[a].assetRev \in 1 .. AssetRowOf(a).rev
          /\ SnapshotCurrent(a) => /\ refresh[a].conn = AssetRowOf(a).conn
                                   /\ refresh[a].cred = account[a].cred
      BY DEF RefreshInv, SnapshotsMatch
    <3>2. CASE AssetOf[a] = s
      <4>1. refresh[a].assetRev < AssetRowOf(a)'.rev /\ refresh[a].assetRev \in 1 .. AssetRowOf(a)'.rev
        BY <2>1, <3>1, <3>2 DEF AssetRowOf
      <4>2. refresh[a].accountRev \in 1 .. account'[a].rev
        BY <2>3, <3>1
      <4>3. ~SnapshotCurrent(a)'
        BY <2>2, <4>1 DEF SnapshotCurrent
      <4> QED
        BY <4>1, <4>2, <4>3
    <3>3. CASE AssetOf[a] # s
      BY <2>1, <2>2, <2>3, <3>1, <3>3 DEF SnapshotCurrent, AssetRowOf
    <3> QED
      BY <3>2, <3>3
  <2>6. CatalogIsCurrent'
    BY <2>1, <2>2, <2>3 DEF RefreshInv, CatalogIsCurrent, AssetRowOf
  <2> QED
    BY <2>4, <2>5, <2>6 DEF RefreshInv
<1>3. ASSUME DeleteAsset(s) PROVE RefreshInv'
  <2>1. /\ \A t \in Assets : asset'[t].rev = asset[t].rev /\ asset'[t].conn = asset[t].conn
        /\ ~asset'[s].live
        /\ \A t \in Assets \ {s} : asset'[t] = asset[t]
    <3>1. asset'[s] = [asset[s] EXCEPT !.live = FALSE] /\ asset[s] \in AssetRow
      BY <1>3 DEF DeleteAsset, TypeOK
    <3>2. asset'[s].rev = asset[s].rev /\ asset'[s].conn = asset[s].conn /\ ~asset'[s].live
      BY <3>1 DEF AssetRow
    <3>3. \A t \in Assets \ {s} : asset'[t] = asset[t]
      BY <1>3 DEF DeleteAsset, TypeOK
    <3> QED
      BY <3>2, <3>3
  <2>2. UNCHANGED <<account, refresh, source>> /\ reserved' = reserved \cup {s}
    BY <1>3 DEF DeleteAsset, history
  <2>3. DeletedReserved'
    BY <2>1, <2>2 DEF RefreshInv, DeletedReserved
  <2>4. SnapshotsMatch' /\ CatalogIsCurrent'
    BY <2>1, <2>2 DEF RefreshInv, SnapshotsMatch, SnapshotCurrent, CatalogIsCurrent, AssetRowOf
  <2> QED
    BY <2>3, <2>4 DEF RefreshInv
<1> QED
  BY <1>1, <1>2, <1>3 DEF EditAsset

LEMMA RefreshInvAccount ==
  ASSUME TypeOK, RefreshInv, NEW a \in Accounts, EditAccount(a)
  PROVE  RefreshInv'
<1> USE RowTypes
<1>1. ASSUME NEW v \in Creds, NEW e \in BOOLEAN, CreateAccount(a, v, e) PROVE RefreshInv'
  <2>1. /\ account'[a].live /\ account'[a].rev = 1 /\ account'[a].catalog = None
        /\ \A b \in Accounts \ {a} : account'[b] = account[b]
    BY <1>1 DEF CreateAccount, LiveAccount, TypeOK
  <2>2. UNCHANGED <<asset, refresh, reserved, source>>
    BY <1>1 DEF CreateAccount, history
  <2>3. account[a].rev = 0
    BY <1>1 DEF CreateAccount, NotReserved, RefreshInv, DeletedReserved
  <2>4. refresh[a].phase = "idle"
    BY <2>3, NoRefreshOfNew
  <2>5. DeletedReserved'
    BY <2>1, <2>2 DEF RefreshInv, DeletedReserved
  <2>6. SnapshotsMatch'
    BY <2>1, <2>2, <2>4 DEF RefreshInv, SnapshotsMatch, SnapshotCurrent, AssetRowOf
  <2>7. CatalogIsCurrent'
    BY <2>1, <2>2 DEF RefreshInv, CatalogIsCurrent, AssetRowOf
  <2> QED
    BY <2>5, <2>6, <2>7 DEF RefreshInv
<1>2. ASSUME NEW v \in Creds, NEW r \in BOOLEAN, NEW e \in BOOLEAN, UpdateAccount(a, v, r, e)
      PROVE  RefreshInv'
  <2>1. \A b \in Accounts \ {a} : account'[b] = account[b]
    BY <1>2 DEF UpdateAccount, TypeOK
  <2>2. UNCHANGED <<asset, refresh, reserved, source>>
    BY <1>2 DEF UpdateAccount, history
  <2>3. /\ account'[a].live /\ account[a].live /\ account'[a].rev = account[a].rev + 1
        /\ \/ account'[a].catalog = None
           \/ account'[a].catalog = account[a].catalog /\ account'[a].cred = account[a].cred
    <3>1. CASE r
      BY <1>2, <3>1 DEF UpdateAccount, Cleared, LiveAccount, TypeOK
    <3>2. CASE ~r
      BY <1>2, <3>2 DEF UpdateAccount, LiveAccount, TypeOK
    <3> QED
      BY <3>1, <3>2
  <2>4. DeletedReserved'
    BY <2>1, <2>2, <2>3 DEF RefreshInv, DeletedReserved
  <2>5. SnapshotsMatch'
    <3> SUFFICES ASSUME NEW b \in Accounts, refresh[b].phase # "idle"
                 PROVE  /\ refresh[b].accountRev \in 1 .. account'[b].rev
                        /\ refresh[b].assetRev \in 1 .. AssetRowOf(b).rev
                        /\ SnapshotCurrent(b)' => /\ refresh[b].conn = AssetRowOf(b).conn
                                                  /\ refresh[b].cred = account'[b].cred
      BY <2>2 DEF SnapshotsMatch, AssetRowOf
    <3>1. /\ refresh[b].accountRev \in 1 .. account[b].rev
          /\ refresh[b].assetRev \in 1 .. AssetRowOf(b).rev
          /\ SnapshotCurrent(b) => /\ refresh[b].conn = AssetRowOf(b).conn
                                   /\ refresh[b].cred = account[b].cred
      BY DEF RefreshInv, SnapshotsMatch
    <3>2. CASE b = a
      <4>1. refresh[b].accountRev < account'[b].rev /\ refresh[b].accountRev \in 1 .. account'[b].rev
        BY <2>3, <3>1, <3>2
      <4>2. ~SnapshotCurrent(b)'
        BY <2>2, <4>1 DEF SnapshotCurrent
      <4> QED
        BY <3>1, <4>1, <4>2
    <3>3. CASE b # a
      BY <2>1, <2>2, <3>1, <3>3 DEF SnapshotCurrent, AssetRowOf
    <3> QED
      BY <3>2, <3>3
  <2>6. CatalogIsCurrent'
    BY <2>1, <2>2, <2>3 DEF RefreshInv, CatalogIsCurrent, AssetRowOf
  <2> QED
    BY <2>4, <2>5, <2>6 DEF RefreshInv
<1>3. ASSUME DeleteAccount(a) PROVE RefreshInv'
  <2>1. /\ \A b \in Accounts \ {a} : account'[b] = account[b]
        /\ ~account'[a].live /\ account'[a].rev = account[a].rev
    <3>1. account'[a] = [account[a] EXCEPT !.live = FALSE] /\ account[a] \in AccountRow
      BY <1>3 DEF DeleteAccount, TypeOK
    <3>2. ~account'[a].live /\ account'[a].rev = account[a].rev
      BY <3>1 DEF AccountRow
    <3>3. \A b \in Accounts \ {a} : account'[b] = account[b]
      BY <1>3 DEF DeleteAccount, TypeOK
    <3> QED
      BY <3>2, <3>3
  <2>2. UNCHANGED <<asset, refresh, source>> /\ reserved' = reserved \cup {a}
    BY <1>3 DEF DeleteAccount, history
  <2>3. DeletedReserved'
    BY <2>1, <2>2 DEF RefreshInv, DeletedReserved
  <2>4. SnapshotsMatch'
    BY <2>1, <2>2 DEF RefreshInv, SnapshotsMatch, SnapshotCurrent, AssetRowOf
  <2>5. CatalogIsCurrent'
    BY <2>1, <2>2 DEF RefreshInv, CatalogIsCurrent, AssetRowOf
  <2> QED
    BY <2>3, <2>4, <2>5 DEF RefreshInv
<1> QED
  BY <1>1, <1>2, <1>3 DEF EditAccount

LEMMA RefreshInvStep ==
  ASSUME TypeOK, ReferencesLive, RefreshInv, NEW a \in Accounts, AgeCatalog(a) \/ RefreshStep(a)
  PROVE  RefreshInv'
<1> USE RowTypes
<1>1. \A b \in Accounts \ {a} : refresh'[b] = refresh[b] /\ account'[b] = account[b]
                                 /\ source'[b] = source[b]
  <2>1. CASE AgeCatalog(a)
    BY <2>1 DEF AgeCatalog, TypeOK, history
  <2>2. CASE account_snapshot(a) \/ begin(a) \/ RefreshFails(a) \/ \E p \in Specs \cup {None} : discover(a, p)
    BY <2>2 DEF account_snapshot, begin, RefreshFails, discover, TypeOK, tables, history
  <2>3. CASE SaveCatalog(a)
    BY <2>3 DEF SaveCatalog, TypeOK
  <2> QED
    BY <2>1, <2>2, <2>3 DEF RefreshStep
<1>2. UNCHANGED <<asset, reserved>>
  BY DEF AgeCatalog, RefreshStep, account_snapshot, begin, discover, SaveCatalog, RefreshFails, tables
<1>3. ASSUME /\ account'[a].live = account[a].live
             /\ account'[a].rev = account[a].rev
             /\ account'[a].cred = account[a].cred
             /\ \/ refresh'[a].phase = "idle"
                \/ /\ refresh'[a].accountRev = refresh[a].accountRev
                   /\ refresh'[a].assetRev = refresh[a].assetRev
                   /\ refresh'[a].conn = refresh[a].conn /\ refresh'[a].cred = refresh[a].cred
                   /\ refresh[a].phase # "idle"
             /\ \/ account'[a].catalog = account[a].catalog /\ source'[a] = source[a]
                \/ source'[a].conn = AssetRowOf(a).conn /\ source'[a].cred = account[a].cred
      PROVE  RefreshInv'
  <2>1. DeletedReserved'
    BY <1>1, <1>2, <1>3 DEF RefreshInv, DeletedReserved
  <2>2. SnapshotsMatch'
    BY <1>1, <1>2, <1>3 DEF RefreshInv, SnapshotsMatch, SnapshotCurrent, AssetRowOf
  <2>3. CatalogIsCurrent'
    BY <1>1, <1>2, <1>3 DEF RefreshInv, CatalogIsCurrent, AssetRowOf
  <2> QED
    BY <2>1, <2>2, <2>3 DEF RefreshInv
<1>4. CASE AgeCatalog(a)
  <2>1. account'[a] = [account[a] EXCEPT !.fresh = FALSE] /\ account[a] \in AccountRow
    BY <1>4 DEF AgeCatalog, TypeOK
  <2>2. /\ account'[a].live = account[a].live /\ account'[a].rev = account[a].rev
        /\ account'[a].cred = account[a].cred /\ account'[a].catalog = account[a].catalog
    BY <2>1 DEF AccountRow
  <2>3. UNCHANGED <<refresh, source>>
    BY <1>4 DEF AgeCatalog, history
  <2> QED
    BY <1>3, <2>2, <2>3
<1>5. CASE account_snapshot(a)
  <2>1. /\ refresh'[a].accountRev = account[a].rev /\ refresh'[a].assetRev = AssetRowOf(a).rev
        /\ refresh'[a].conn = AssetRowOf(a).conn /\ refresh'[a].cred = account[a].cred
        /\ account[a].live
    BY <1>5 DEF account_snapshot, TypeOK
  <2>2. UNCHANGED <<account, source>>
    BY <1>5 DEF account_snapshot, tables, history
  <2>3. account[a].rev >= 1 /\ AssetRowOf(a).rev >= 1
    BY <2>1 DEF ReferencesLive, AssetRowOf, RefreshInv, DeletedReserved
  <2>4. DeletedReserved' /\ CatalogIsCurrent'
    BY <1>2, <2>2 DEF RefreshInv, DeletedReserved, CatalogIsCurrent, AssetRowOf
  <2>5. SnapshotsMatch'
    BY <1>1, <1>2, <2>1, <2>2, <2>3 DEF RefreshInv, SnapshotsMatch, SnapshotCurrent, AssetRowOf
  <2> QED
    BY <2>4, <2>5 DEF RefreshInv
<1>6. CASE begin(a) \/ RefreshFails(a) \/ \E p \in Specs \cup {None} : discover(a, p)
  <2>1. UNCHANGED <<account, source>>
    BY <1>6 DEF begin, RefreshFails, discover, tables, history
  <2>2. \/ refresh'[a].phase = "idle"
        \/ /\ refresh'[a].accountRev = refresh[a].accountRev
           /\ refresh'[a].assetRev = refresh[a].assetRev
           /\ refresh'[a].conn = refresh[a].conn /\ refresh'[a].cred = refresh[a].cred
           /\ refresh[a].phase # "idle"
    <3>1. CASE begin(a)
      <4>1. refresh'[a] = NoRefresh \/ refresh'[a] = [refresh[a] EXCEPT !.phase = "begun"]
        BY <3>1 DEF begin, TypeOK
      <4> QED
        BY <3>1, <4>1 DEF begin, NoRefresh, Refresh
    <3>2. CASE RefreshFails(a)
      BY <3>2 DEF RefreshFails, NoRefresh, TypeOK
    <3>3. ASSUME NEW p \in Specs \cup {None}, discover(a, p) PROVE <2>2!2
      <4>1. refresh'[a] = [refresh[a] EXCEPT !.phase = "found", !.spec = p]
        BY <3>3 DEF discover, TypeOK
      <4>2. refresh[a] \in Refresh /\ refresh[a].phase = "begun"
        BY <3>3 DEF discover
      <4> HIDE RowTypes
      <4> QED
        BY <4>1, <4>2 DEF Refresh
    <3> QED
      BY <1>6, <3>1, <3>2, <3>3
  <2> QED
    BY <1>3, <2>1, <2>2
<1>7. CASE SaveCatalog(a)
  <2>1. refresh'[a].phase = "idle"
    BY <1>7 DEF SaveCatalog, NoRefresh, TypeOK
  <2>2. CASE SnapshotCurrent(a)
    <3>1. account'[a] = [account[a] EXCEPT !.catalog = refresh[a].spec, !.fresh = TRUE]
          /\ account[a] \in AccountRow
      BY <1>7, <2>2 DEF SaveCatalog, TypeOK
    <3>2. /\ account'[a].live = account[a].live /\ account'[a].rev = account[a].rev
          /\ account'[a].cred = account[a].cred
      BY <3>1 DEF AccountRow
    <3>3. source'[a].conn = refresh[a].conn /\ source'[a].cred = refresh[a].cred
      BY <1>7, <2>2 DEF SaveCatalog, TypeOK
    <3>4. refresh[a].conn = AssetRowOf(a).conn /\ refresh[a].cred = account[a].cred
      BY <1>7, <2>2 DEF SaveCatalog, RefreshInv, SnapshotsMatch
    <3> QED
      BY <1>3, <2>1, <3>2, <3>3, <3>4
  <2>3. CASE ~SnapshotCurrent(a)
    <3>1. UNCHANGED <<account, source>>
      BY <1>7, <2>3 DEF SaveCatalog
    <3> QED
      BY <1>3, <2>1, <3>1
  <2> QED
    BY <2>2, <2>3
<1> QED
  BY <1>4, <1>5, <1>6, <1>7 DEF RefreshStep

LEMMA RefreshInvariant == Spec => []RefreshInv
<1>1. Init => RefreshInv
  <2> SUFFICES ASSUME Init PROVE RefreshInv
    OBVIOUS
  <2>1. ASSUME NEW s \in Assets PROVE IF asset[s].live THEN asset[s].rev > 0 ELSE asset[s].rev = 0
    <3>1. PICK v \in Conns : asset = [t \in Assets |-> PresentAsset(t, v)]
      BY DEF Init
    <3>2. asset[s] = PresentAsset(s, v)
      BY <3>1
    <3> QED
      BY <3>2 DEF PresentAsset, LiveAsset
  <2>2. ASSUME NEW a \in Accounts
        PROVE  /\ IF account[a].live THEN account[a].rev > 0 ELSE account[a].rev = 0
               /\ account[a].catalog = None
    <3>1. PICK v \in Creds : account = [b \in Accounts |-> PresentAccount(b, v)]
      BY DEF Init
    <3>2. account[a] = PresentAccount(a, v)
      BY <3>1
    <3> QED
      BY <3>2 DEF PresentAccount, LiveAccount
  <2>3. \A a \in Accounts : refresh[a].phase = "idle"
    BY DEF Init, NoRefresh
  <2> QED
    BY <2>1, <2>2, <2>3 DEF RefreshInv, DeletedReserved, SnapshotsMatch, CatalogIsCurrent
<1>2. TypeOK /\ ReferencesLive /\ RefreshInv /\ [Next]_vars => RefreshInv'
  <2> SUFFICES ASSUME TypeOK, ReferencesLive, RefreshInv, [Next]_vars PROVE RefreshInv'
    OBVIOUS
  <2>1. ASSUME NEW c \in Clients, EditClient(c) \/ Expire(c) PROVE RefreshInv'
    BY <2>1, RefreshFrame DEF EditClient, SaveClient, rotate, DeleteClient, Expire, history
  <2>2. ASSUME NEW g \in Groups, EditGrant(g) PROVE RefreshInv'
    BY <2>2, RefreshFrame DEF EditGrant, SaveGrant, ReviseGrant, DeleteGrant, history
  <2>3. ASSUME NEW k \in Calls, CallStep(k) PROVE RefreshInv'
    BY <2>3, RefreshFrame DEF CallStep, authenticate, prepare, denied, execute, tables, history
  <2>4. ASSUME NEW h \in Artifacts \cup {None}, SwitchPlugin(h) PROVE RefreshInv'
    BY <2>4, RefreshFrame DEF SwitchPlugin, tables, history
  <2>5. CASE UNCHANGED vars
    BY <2>5, RefreshFrame DEF vars
  <2> QED
    BY <2>1, <2>2, <2>3, <2>4, <2>5, RefreshInvAsset, RefreshInvAccount, RefreshInvStep DEF Next
<1> QED
  BY <1>1, <1>2, TypeCorrect, MembersExist, PTL DEF Spec

\* No interleaving of edits, deletions and slow discoveries leaves a catalog of
\* an earlier configuration in the table.
THEOREM CatalogsAreCurrent == Spec => []CatalogIsCurrent
<1>1. RefreshInv => CatalogIsCurrent
  BY DEF RefreshInv
<1> QED
  BY <1>1, RefreshInvariant, PTL

-----------------------------------------------------------------------------
(* Confirmations *)

\* Nothing is confirmed anew: groups keep a part of their versions, and only for
\* accounts whose configuration stays.
NothingNew ==
  /\ UNCHANGED <<call, confirmed, confirmedCode>>
  /\ \A g \in Groups : grant'[g].live =>
       /\ grant[g].live
       /\ grant'[g].accounts = grant[g].accounts
       /\ grant'[g].code = grant[g].code
       /\ \A a \in Accounts : grant'[g].versions[a] # None =>
            /\ grant'[g].versions[a] = grant[g].versions[a]
            /\ asset'[AssetOf[a]].conn = asset[AssetOf[a]].conn
            /\ account'[a].cred = account[a].cred

LEMMA ConfirmFrame ==
  ASSUME ConfirmInv, NothingNew
  PROVE  ConfirmInv'
<1>1. VersionsConfirmed'
  <2> SUFFICES ASSUME NEW g \in Groups, grant'[g].live
               PROVE  /\ \A a \in Accounts : grant'[g].versions[a] # None =>
                           /\ a \in grant'[g].accounts
                           /\ [group |-> g, account |-> a, spec |-> grant'[g].versions[a],
                               conn |-> asset'[AssetOf[a]].conn, cred |-> account'[a].cred]
                                 \in confirmed'
                      /\ grant'[g].code # None =>
                           [group |-> g, code |-> grant'[g].code] \in confirmedCode'
    BY DEF VersionsConfirmed, AssetRowOf
  <2>1. /\ \A a \in Accounts : grant[g].versions[a] # None =>
             /\ a \in grant[g].accounts
             /\ [group |-> g, account |-> a, spec |-> grant[g].versions[a],
                 conn |-> asset[AssetOf[a]].conn, cred |-> account[a].cred] \in confirmed
        /\ grant[g].code # None => [group |-> g, code |-> grant[g].code] \in confirmedCode
    BY DEF ConfirmInv, VersionsConfirmed, AssetRowOf, NothingNew
  <2> QED
    BY <2>1 DEF NothingNew
<1>2. CallsConfirmed'
  BY DEF ConfirmInv, CallsConfirmed, NothingNew
<1> QED
  BY <1>1, <1>2 DEF ConfirmInv

\* A member of a group with a version is a live account of a live asset.
LEMMA VersionedMember ==
  ASSUME TypeOK, ReferencesLive, ConfirmInv, NEW g \in Groups, grant[g].live,
         NEW a \in Accounts, grant[g].versions[a] # None
  PROVE  a \in grant[g].accounts /\ account[a].live /\ asset[AssetOf[a]].live
BY DEF ConfirmInv, VersionsConfirmed, ReferencesLive, AssetRowOf

LEMMA ConfirmInvAsset ==
  ASSUME TypeOK, ReferencesLive, ConfirmInv, NEW s \in Assets, EditAsset(s)
  PROVE  ConfirmInv'
<1> USE RowTypes
<1>0. UNCHANGED <<call, confirmed, confirmedCode>>
  BY DEF EditAsset, CreateAsset, UpdateAsset, DeleteAsset, history
<1>1. ASSUME NEW v \in Conns, NEW e \in BOOLEAN, CreateAsset(s, v, e) PROVE ConfirmInv'
  <2>1. \A t \in Assets \ {s} : asset'[t] = asset[t]
    BY <1>1 DEF CreateAsset, TypeOK
  <2>2. ~asset[s].live /\ UNCHANGED <<account, grant>>
    BY <1>1 DEF CreateAsset
  <2>3. NothingNew
    BY <1>0, <2>1, <2>2, VersionedMember DEF NothingNew
  <2> QED
    BY <2>3, ConfirmFrame
<1>2. ASSUME NEW v \in Conns, NEW e \in BOOLEAN, UpdateAsset(s, v, e) PROVE ConfirmInv'
  <2>1. (\A t \in Assets \ {s} : asset'[t] = asset[t]) /\ asset'[s].conn = v
    BY <1>2 DEF UpdateAsset, LiveAsset, TypeOK
  <2>2. CASE v = asset[s].conn
    <3>1. UNCHANGED <<account, grant>>
      BY <1>2, <2>2 DEF UpdateAsset
    <3>2. NothingNew
      BY <1>0, <2>1, <2>2, <3>1 DEF NothingNew
    <3> QED
      BY <3>2, ConfirmFrame
  <2>3. CASE v # asset[s].conn
    <3>1. grant' = Unconfirmed(AccountsOf(s))
      BY <1>2, <2>3 DEF UpdateAsset
    <3>2. \A a \in Accounts : account'[a].cred = account[a].cred
      BY <1>2, <2>3 DEF UpdateAsset, Cleared, LiveAccount
    <3>3. ASSUME NEW g \in Groups, grant'[g].live
          PROVE  /\ grant[g].live
                 /\ grant'[g].accounts = grant[g].accounts
                 /\ grant'[g].code = grant[g].code
                 /\ \A a \in Accounts : grant'[g].versions[a] # None =>
                      /\ grant'[g].versions[a] = grant[g].versions[a]
                      /\ asset'[AssetOf[a]].conn = asset[AssetOf[a]].conn
      <4>1. /\ grant[g].live /\ grant'[g].accounts = grant[g].accounts
            /\ grant'[g].code = grant[g].code
            /\ grant'[g].versions = WithoutVersions(g, AccountsOf(s))
        BY <3>1, <3>3, UnconfirmedKeeps
      <4>2. ASSUME NEW a \in Accounts, grant'[g].versions[a] # None
            PROVE  grant'[g].versions[a] = grant[g].versions[a] /\ AssetOf[a] # s
        <5>1. /\ grant'[g].versions[a] = grant[g].versions[a]
              /\ a \notin AccountsOf(s) \cap grant[g].accounts
          BY <4>1, <4>2 DEF WithoutVersions
        <5>2. a \in grant[g].accounts
          BY <4>1, <4>2, <5>1, VersionedMember
        <5> QED
          BY <5>1, <5>2 DEF AccountsOf
      <4> QED
        BY <2>1, <4>1, <4>2
    <3>4. NothingNew
      BY <1>0, <3>2, <3>3 DEF NothingNew
    <3> QED
      BY <3>4, ConfirmFrame
  <2> QED
    BY <2>2, <2>3
<1>3. ASSUME DeleteAsset(s) PROVE ConfirmInv'
  <2>1. \A t \in Assets : asset'[t].conn = asset[t].conn
    <3>1. \A t \in Assets : asset'[t] = asset[t] \/ asset'[t] = [asset[t] EXCEPT !.live = FALSE]
      BY <1>3 DEF DeleteAsset, TypeOK
    <3>2. \A t \in Assets : asset[t] \in AssetRow
      BY DEF TypeOK
    <3> QED
      BY <3>1, <3>2 DEF AssetRow
  <2>2. UNCHANGED <<account, grant>>
    BY <1>3 DEF DeleteAsset
  <2>3. NothingNew
    BY <1>0, <2>1, <2>2 DEF NothingNew
  <2> QED
    BY <2>3, ConfirmFrame
<1> QED
  BY <1>1, <1>2, <1>3 DEF EditAsset

LEMMA ConfirmInvAccount ==
  ASSUME TypeOK, ReferencesLive, ConfirmInv, NEW a \in Accounts,
         EditAccount(a) \/ AgeCatalog(a) \/ SaveCatalog(a)
  PROVE  ConfirmInv'
<1> USE RowTypes
<1>0. UNCHANGED <<asset, call, confirmed, confirmedCode>>
  BY DEF EditAccount, CreateAccount, UpdateAccount, DeleteAccount, AgeCatalog, SaveCatalog, history
<1>1. \A b \in Accounts \ {a} : account'[b] = account[b]
  BY DEF EditAccount, CreateAccount, UpdateAccount, DeleteAccount, AgeCatalog, SaveCatalog, TypeOK
<1>2. ASSUME UNCHANGED grant, account'[a].cred = account[a].cred \/ ~account[a].live
      PROVE  ConfirmInv'
  <2>1. NothingNew
    BY <1>0, <1>1, <1>2, VersionedMember DEF NothingNew
  <2> QED
    BY <2>1, ConfirmFrame
<1>3. ASSUME NEW v \in Creds, NEW e \in BOOLEAN, CreateAccount(a, v, e) PROVE ConfirmInv'
  BY <1>2, <1>3 DEF CreateAccount
<1>4. ASSUME NEW v \in Creds, NEW r \in BOOLEAN, NEW e \in BOOLEAN, UpdateAccount(a, v, r, e)
      PROVE  ConfirmInv'
  <2>1. CASE ~r
    BY <1>2, <1>4, <2>1 DEF UpdateAccount, LiveAccount, TypeOK
  <2>2. CASE r
    <3>1. grant' = Unconfirmed({a})
      BY <1>4, <2>2 DEF UpdateAccount
    <3>2. ASSUME NEW g \in Groups, grant'[g].live
          PROVE  /\ grant[g].live
                 /\ grant'[g].accounts = grant[g].accounts
                 /\ grant'[g].code = grant[g].code
                 /\ \A b \in Accounts : grant'[g].versions[b] # None =>
                      grant'[g].versions[b] = grant[g].versions[b] /\ b # a
      <4>1. /\ grant[g].live /\ grant'[g].accounts = grant[g].accounts
            /\ grant'[g].code = grant[g].code
            /\ grant'[g].versions = WithoutVersions(g, {a})
        BY <3>1, <3>2, UnconfirmedKeeps
      <4>2. ASSUME NEW b \in Accounts, grant'[g].versions[b] # None
            PROVE  grant'[g].versions[b] = grant[g].versions[b] /\ b # a
        <5>1. grant'[g].versions[b] = grant[g].versions[b] /\ b \notin {a} \cap grant[g].accounts
          BY <4>1, <4>2 DEF WithoutVersions
        <5>2. b \in grant[g].accounts
          BY <4>1, <4>2, <5>1, VersionedMember
        <5> QED
          BY <5>1, <5>2
      <4> QED
        BY <4>1, <4>2
    <3>3. NothingNew
      BY <1>0, <1>1, <3>2 DEF NothingNew
    <3> QED
      BY <3>3, ConfirmFrame
  <2> QED
    BY <2>1, <2>2
<1>5. ASSUME DeleteAccount(a) \/ AgeCatalog(a) \/ SaveCatalog(a) PROVE ConfirmInv'
  <2>1. account[a] \in AccountRow
    BY DEF TypeOK
  <2>2. \/ account'[a] = account[a]
        \/ account'[a] = [account[a] EXCEPT !.live = FALSE]
        \/ account'[a] = [account[a] EXCEPT !.fresh = FALSE]
        \/ account'[a] = [account[a] EXCEPT !.catalog = refresh[a].spec, !.fresh = TRUE]
    BY <1>5 DEF DeleteAccount, AgeCatalog, SaveCatalog, TypeOK
  <2>3. account'[a].cred = account[a].cred
    BY <2>1, <2>2 DEF AccountRow
  <2>4. UNCHANGED grant
    BY <1>5 DEF DeleteAccount, AgeCatalog, SaveCatalog
  <2> QED
    BY <1>2, <2>3, <2>4
<1> QED
  BY <1>3, <1>4, <1>5 DEF EditAccount

LEMMA ConfirmInvGrant ==
  ASSUME TypeOK, ConfirmInv, NEW g \in Groups, EditGrant(g)
  PROVE  ConfirmInv'
<1>0. UNCHANGED <<asset, account, call>> /\ \A h \in Groups \ {g} : grant'[h] = grant[h]
  BY DEF EditGrant, SaveGrant, ReviseGrant, DeleteGrant, TypeOK
<1>1. ASSUME NEW C \in SUBSET Clients, NEW A \in SUBSET Accounts, NEW e \in BOOLEAN,
             NEW vg \in BOOLEAN, NEW cg \in BOOLEAN, SaveGrant(g, C, A, e, vg, cg)
      PROVE  ConfirmInv'
  <2>1. /\ grant'[g].accounts = A
        /\ grant'[g].versions = Expected(A)
        /\ grant'[g].code = ExpectedCode(A)
    BY <1>1 DEF SaveGrant, TypeOK
  <2>2. confirmed \subseteq confirmed' /\ confirmedCode \subseteq confirmedCode'
    BY <1>1 DEF SaveGrant
  <2>3. ASSUME NEW a \in Accounts, grant'[g].versions[a] # None
        PROVE  /\ a \in A
               /\ [group |-> g, account |-> a, spec |-> grant'[g].versions[a],
                   conn |-> AssetRowOf(a).conn, cred |-> account[a].cred] \in confirmed'
    <3>1. a \in A /\ grant'[g].versions[a] = account[a].catalog
      BY <2>1, <2>3 DEF Expected
    <3>2. CASE vg
      BY <1>1, <3>1, <3>2 DEF SaveGrant
    <3>3. CASE ~vg
      <4>1. grant[g].live /\ grant[g].versions[a] = account[a].catalog
        BY <1>1, <3>1, <3>3 DEF SaveGrant, Accepted, VersionsRetained
      <4>2. [group |-> g, account |-> a, spec |-> grant[g].versions[a],
             conn |-> AssetRowOf(a).conn, cred |-> account[a].cred] \in confirmed
        BY <2>3, <3>1, <4>1 DEF ConfirmInv, VersionsConfirmed
      <4> QED
        BY <2>2, <3>1, <4>1, <4>2
    <3> QED
      BY <3>2, <3>3
  <2>4. grant'[g].code # None => [group |-> g, code |-> grant'[g].code] \in confirmedCode'
    <3> SUFFICES ASSUME grant'[g].code # None
                 PROVE  [group |-> g, code |-> grant'[g].code] \in confirmedCode'
      OBVIOUS
    <3>1. A # {} /\ grant'[g].code = artifact
      BY <2>1 DEF ExpectedCode
    <3>2. CASE cg
      BY <1>1, <3>1, <3>2 DEF SaveGrant
    <3>3. CASE ~cg
      <4>1. grant[g].live /\ grant[g].code = artifact
        BY <1>1, <3>1, <3>3 DEF SaveGrant, Accepted, CodeRetained
      <4>2. [group |-> g, code |-> artifact] \in confirmedCode
        BY <3>1, <4>1 DEF ConfirmInv, VersionsConfirmed
      <4> QED
        BY <2>2, <3>1, <4>2
    <3> QED
      BY <3>2, <3>3
  <2>5. VersionsConfirmed'
    <3> SUFFICES ASSUME NEW h \in Groups, grant'[h].live
                 PROVE  /\ \A a \in Accounts : grant'[h].versions[a] # None =>
                             /\ a \in grant'[h].accounts
                             /\ [group |-> h, account |-> a, spec |-> grant'[h].versions[a],
                                 conn |-> AssetRowOf(a).conn, cred |-> account[a].cred]
                                   \in confirmed'
                        /\ grant'[h].code # None =>
                             [group |-> h, code |-> grant'[h].code] \in confirmedCode'
      BY <1>0 DEF VersionsConfirmed, AssetRowOf
    <3>1. CASE h = g
      BY <2>1, <2>3, <2>4, <3>1
    <3>2. CASE h # g
      BY <1>0, <2>2, <3>2 DEF ConfirmInv, VersionsConfirmed
    <3> QED
      BY <3>1, <3>2
  <2>6. CallsConfirmed'
    BY <1>0, <2>2 DEF ConfirmInv, CallsConfirmed
  <2> QED
    BY <2>5, <2>6 DEF ConfirmInv
<1>2. ASSUME NEW e \in BOOLEAN, ReviseGrant(g, e) PROVE ConfirmInv'
  <2>1. /\ grant[g].live /\ grant'[g].accounts = grant[g].accounts
        /\ grant'[g].versions = grant[g].versions /\ grant'[g].code = grant[g].code
    BY <1>2 DEF ReviseGrant, TypeOK
  <2>2. UNCHANGED <<confirmed, confirmedCode>>
    BY <1>2 DEF ReviseGrant, history
  <2>3. NothingNew
    BY <1>0, <2>1, <2>2 DEF NothingNew
  <2> QED
    BY <2>3, ConfirmFrame
<1>3. ASSUME DeleteGrant(g) PROVE ConfirmInv'
  <2>1. ~grant'[g].live
    <3>1. grant'[g] = [grant[g] EXCEPT !.live = FALSE] /\ grant[g] \in GrantRow
      BY <1>3 DEF DeleteGrant, TypeOK
    <3> QED
      BY <3>1 DEF GrantRow
  <2>2. UNCHANGED <<confirmed, confirmedCode>>
    BY <1>3 DEF DeleteGrant, history
  <2>3. NothingNew
    BY <1>0, <2>1, <2>2 DEF NothingNew
  <2> QED
    BY <2>3, ConfirmFrame
<1> QED
  BY <1>1, <1>2, <1>3 DEF EditGrant

LEMMA ConfirmInvCall ==
  ASSUME TypeOK, ConfirmInv, NEW k \in Calls, CallStep(k)
  PROVE  ConfirmInv'
<1>0. /\ UNCHANGED <<asset, account, grant, confirmed, confirmedCode>>
      /\ \A j \in Calls \ {k} : call'[j] = call[j]
  BY DEF CallStep, authenticate, prepare, denied, execute, tables, history, TypeOK
<1>1. VersionsConfirmed'
  BY <1>0 DEF ConfirmInv, VersionsConfirmed, AssetRowOf
<1>2. ASSUME NEW a \in Accounts, prepare(k, a) PROVE CallsConfirmed'
  <2>1. /\ call'[k].account = a /\ call'[k].spec = account[a].catalog
        /\ call'[k].conn = AssetRowOf(a).conn /\ call'[k].cred = account[a].cred
        /\ call'[k].artifact = artifact
    BY <1>2 DEF prepare, TypeOK
  <2>2. artifact # None /\ account[a].catalog # None
    BY <1>2 DEF prepare, entries
  <2>3. PICK g \in Groups : /\ grant[g].live /\ grant[g].code = artifact
                            /\ grant[g].versions[a] = account[a].catalog
    BY <1>2 DEF prepare, entries, Granting, CodeMatches
  <2>4. /\ [group |-> g, account |-> a, spec |-> account[a].catalog,
            conn |-> AssetRowOf(a).conn, cred |-> account[a].cred] \in confirmed
        /\ [group |-> g, code |-> artifact] \in confirmedCode
    BY <2>2, <2>3 DEF ConfirmInv, VersionsConfirmed
  <2>5. ASSUME NEW j \in Calls, call'[j].phase = "allowed"
        PROVE  \E h \in Groups :
                 /\ [group |-> h, account |-> call'[j].account, spec |-> call'[j].spec,
                     conn |-> call'[j].conn, cred |-> call'[j].cred] \in confirmed
                 /\ [group |-> h, code |-> call'[j].artifact] \in confirmedCode
    <3>1. CASE j = k
      BY <2>1, <2>4, <3>1
    <3>2. CASE j # k
      BY <1>0, <2>5, <3>2 DEF ConfirmInv, CallsConfirmed
    <3> QED
      BY <3>1, <3>2
  <2> QED
    BY <1>0, <2>5 DEF CallsConfirmed
<1>3. ASSUME call'[k].phase # "allowed" PROVE CallsConfirmed'
  BY <1>0, <1>3 DEF ConfirmInv, CallsConfirmed
<1>4. ASSUME NEW c \in Clients, authenticate(k, c) PROVE call'[k].phase # "allowed"
  <2>1. call'[k] = [NoCall EXCEPT !.phase = "known", !.client = c, !.token = client[c].token]
    BY <1>4 DEF authenticate, TypeOK
  <2> QED
    BY <2>1 DEF NoCall
<1>5. ASSUME denied(k) \/ execute(k) PROVE call'[k].phase # "allowed"
  <2>1. \/ call'[k] = [call[k] EXCEPT !.phase = "done"]
        \/ call'[k] = [call[k] EXCEPT !.phase = "done", !.ran = artifact]
    BY <1>5 DEF denied, execute, TypeOK
  <2>2. call[k] \in Call
    BY DEF TypeOK
  <2> QED
    BY <2>1, <2>2 DEF Call
<1> QED
  BY <1>1, <1>2, <1>3, <1>4, <1>5 DEF CallStep, ConfirmInv

LEMMA ConfirmInvariant == Spec => []ConfirmInv
<1>1. Init => ConfirmInv
  BY DEF Init, ConfirmInv, VersionsConfirmed, CallsConfirmed, NoCall
<1>2. TypeOK /\ ReferencesLive /\ ConfirmInv /\ [Next]_vars => ConfirmInv'
  <2> SUFFICES ASSUME TypeOK, ReferencesLive, ConfirmInv, [Next]_vars PROVE ConfirmInv'
    OBVIOUS
  <2>1. ASSUME UNCHANGED <<asset, account, grant, call, confirmed, confirmedCode>>
        PROVE  ConfirmInv'
    <3>1. NothingNew
      BY <2>1 DEF NothingNew
    <3> QED
      BY <3>1, ConfirmFrame
  <2>2. ASSUME NEW c \in Clients, EditClient(c) \/ Expire(c) PROVE ConfirmInv'
    BY <2>1, <2>2 DEF EditClient, SaveClient, rotate, DeleteClient, Expire, history
  <2>3. ASSUME NEW a \in Accounts, RefreshStep(a) PROVE ConfirmInv'
    <3>1. CASE SaveCatalog(a)
      BY <3>1, ConfirmInvAccount
    <3>2. CASE ~SaveCatalog(a)
      BY <2>1, <2>3, <3>2
         DEF RefreshStep, account_snapshot, begin, discover, RefreshFails, tables, history
    <3> QED
      BY <3>1, <3>2
  <2>4. ASSUME NEW h \in Artifacts \cup {None}, SwitchPlugin(h) PROVE ConfirmInv'
    BY <2>1, <2>4 DEF SwitchPlugin, tables, history
  <2>5. CASE UNCHANGED vars
    BY <2>1, <2>5 DEF vars
  <2> QED
    BY <2>2, <2>3, <2>4, <2>5, ConfirmInvAsset, ConfirmInvAccount, ConfirmInvGrant,
       ConfirmInvCall DEF Next
<1> QED
  BY <1>1, <1>2, TypeCorrect, MembersExist, PTL DEF Spec

\* Only what an administrator confirmed for the configuration in force, and for
\* the code in force, is let through.
THEOREM OnlyConfirmedCalls == Spec => []CallsConfirmed
<1>1. ConfirmInv => CallsConfirmed
  BY DEF ConfirmInv
<1> QED
  BY <1>1, ConfirmInvariant, PTL

-----------------------------------------------------------------------------
(* Admission of calls *)

\* A call in front of prepare has run nothing, and carries a token its client had or has.
TokensPast ==
  \A k \in Calls : call[k].phase = "known" =>
    /\ call[k].client \in Clients /\ call[k].ran = None
    /\ call[k].token <= client[call[k].client].token

\* What a step may do to a client: the token it had is kept or left for good.
TokenKept(c) ==
  \/ client'[c].token = client[c].token /\ (client'[c].live => client[c].live)
  \/ client'[c].token > client[c].token

LEMMA ClientStep ==
  ASSUME TypeOK, [Next]_vars
  PROVE  \A c \in Clients : TokenKept(c)
<1> USE DEF TokenKept
<1>1. \A c \in Clients : client[c] \in ClientRow
  BY DEF TypeOK
<1>2. ASSUME UNCHANGED client PROVE \A c \in Clients : TokenKept(c)
  BY <1>2
<1>3. ASSUME NEW c \in Clients, EditClient(c) \/ Expire(c) PROVE \A d \in Clients : TokenKept(d)
  <2>1. \A d \in Clients \ {c} : client'[d] = client[d]
    BY <1>3 DEF EditClient, SaveClient, rotate, DeleteClient, Expire, TypeOK
  <2>2. ASSUME NEW e \in BOOLEAN, SaveClient(c, e) PROVE TokenKept(c)
    <3>1. \/ client[c].live /\ client'[c] = LiveClient(client[c].rev + 1, e, client[c].token)
          \/ client'[c] = LiveClient(1, e, client[c].token + 1)
      BY <2>2 DEF SaveClient, TypeOK
    <3> QED
      BY <1>1, <3>1 DEF LiveClient, ClientRow
  <2>3. ASSUME rotate(c) PROVE TokenKept(c)
    <3>1. client'[c].token = client[c].token + 1
      BY <2>3 DEF rotate, TypeOK
    <3> QED
      BY <1>1, <3>1 DEF ClientRow
  <2>4. ASSUME DeleteClient(c) \/ Expire(c) PROVE TokenKept(c)
    <3>1. client'[c].token = client[c].token /\ (client'[c].live => client[c].live)
      BY <1>1, <2>4 DEF DeleteClient, Expire, TypeOK, ClientRow
    <3> QED
      BY <3>1
  <2>5. TokenKept(c)
    BY <1>3, <2>2, <2>3, <2>4 DEF EditClient
  <2> QED
    BY <2>1, <2>5
<1>4. ASSUME NEW s \in Assets, EditAsset(s) PROVE UNCHANGED client
  BY <1>4 DEF EditAsset, CreateAsset, UpdateAsset, DeleteAsset
<1>5. ASSUME NEW a \in Accounts, EditAccount(a) \/ AgeCatalog(a) PROVE UNCHANGED client
  BY <1>5 DEF EditAccount, CreateAccount, UpdateAccount, DeleteAccount, AgeCatalog
<1>6. ASSUME NEW a \in Accounts, RefreshStep(a) PROVE UNCHANGED client
  BY <1>6 DEF RefreshStep, account_snapshot, begin, discover, SaveCatalog, RefreshFails, tables
<1>7. ASSUME NEW g \in Groups, EditGrant(g) PROVE UNCHANGED client
  BY <1>7 DEF EditGrant, SaveGrant, ReviseGrant, DeleteGrant
<1>8. ASSUME NEW k \in Calls, CallStep(k) PROVE UNCHANGED client
  BY <1>8 DEF CallStep, authenticate, prepare, denied, execute, tables
<1>9. ASSUME NEW h \in Artifacts \cup {None}, SwitchPlugin(h) PROVE UNCHANGED client
  BY <1>9 DEF SwitchPlugin, tables
<1>10. CASE UNCHANGED vars
  BY <1>2, <1>10 DEF vars
<1> HIDE DEF TokenKept
<1> QED
  BY <1>2, <1>3, <1>4, <1>5, <1>6, <1>7, <1>8, <1>9, <1>10 DEF Next

\* What a step may do to a call: nothing, let it be known, refuse it, let it through as one
\* that is still authentic, or go on with one that was let through.
CallKept(k) ==
  \/ call'[k] = call[k]
  \/ /\ call[k].phase = "idle"
     /\ \E c \in Clients : call'[k] = [NoCall EXCEPT !.phase = "known", !.client = c,
                                                     !.token = client[c].token]
  \/ call[k].phase = "known" /\ call'[k] = [call[k] EXCEPT !.phase = "done"]
  \/ call[k].phase = "known" /\ StillAuthentic(k) /\ call'[k].phase = "allowed"
  \/ call[k].phase = "allowed" /\ call'[k].phase = "done"

LEMMA CallStepKeeps ==
  ASSUME TypeOK, [Next]_vars
  PROVE  \A k \in Calls : CallKept(k)
<1>1. ASSUME UNCHANGED call PROVE \A k \in Calls : CallKept(k)
  BY <1>1 DEF CallKept
<1>2. ASSUME NEW j \in Calls, CallStep(j) PROVE \A k \in Calls : CallKept(k)
  <2>1. \A k \in Calls \ {j} : call'[k] = call[k]
    BY <1>2 DEF CallStep, authenticate, prepare, denied, execute, TypeOK
  <2>2. ASSUME NEW c \in Clients, authenticate(j, c) PROVE CallKept(j)
    BY <2>2 DEF authenticate, CallKept, TypeOK
  <2>3. ASSUME NEW a \in Accounts, prepare(j, a) PROVE CallKept(j)
    <3>1. call'[j].phase = "allowed" /\ call[j].phase = "known" /\ StillAuthentic(j)
      BY <2>3 DEF prepare, TypeOK
    <3> QED
      BY <3>1 DEF CallKept
  <2>4. ASSUME denied(j) PROVE CallKept(j)
    BY <2>4 DEF denied, CallKept, TypeOK
  <2>5. ASSUME execute(j) PROVE CallKept(j)
    <3>1. call[j] \in Call
      BY DEF TypeOK
    <3>2. call[j].phase = "allowed" /\ call'[j].phase = "done"
      BY <2>5, <3>1 DEF execute, TypeOK, Call
    <3> QED
      BY <3>2 DEF CallKept
  <2>6. CallKept(j)
    BY <1>2, <2>2, <2>3, <2>4, <2>5 DEF CallStep
  <2> QED
    BY <2>1, <2>6 DEF CallKept
<1>3. ASSUME NEW s \in Assets, EditAsset(s) PROVE UNCHANGED call
  BY <1>3 DEF EditAsset, CreateAsset, UpdateAsset, DeleteAsset
<1>4. ASSUME NEW a \in Accounts, EditAccount(a) \/ AgeCatalog(a) PROVE UNCHANGED call
  BY <1>4 DEF EditAccount, CreateAccount, UpdateAccount, DeleteAccount, AgeCatalog
<1>5. ASSUME NEW a \in Accounts, RefreshStep(a) PROVE UNCHANGED call
  BY <1>5 DEF RefreshStep, account_snapshot, begin, discover, SaveCatalog, RefreshFails
<1>6. ASSUME NEW c \in Clients, EditClient(c) \/ Expire(c) PROVE UNCHANGED call
  BY <1>6 DEF EditClient, SaveClient, rotate, DeleteClient, Expire
<1>7. ASSUME NEW g \in Groups, EditGrant(g) PROVE UNCHANGED call
  BY <1>7 DEF EditGrant, SaveGrant, ReviseGrant, DeleteGrant
<1>8. ASSUME NEW h \in Artifacts \cup {None}, SwitchPlugin(h) PROVE UNCHANGED call
  BY <1>8 DEF SwitchPlugin
<1>9. CASE UNCHANGED vars
  BY <1>1, <1>9 DEF vars
<1> QED
  BY <1>1, <1>2, <1>3, <1>4, <1>5, <1>6, <1>7, <1>8, <1>9 DEF Next

LEMMA TokensInvariant == Spec => []TokensPast
<1>1. Init => TokensPast
  BY DEF Init, TokensPast, NoCall
<1>2. TypeOK /\ TypeOK' /\ TokensPast /\ [Next]_vars => TokensPast'
  <2> SUFFICES ASSUME TypeOK, TypeOK', TokensPast, [Next]_vars, NEW k \in Calls, call'[k].phase = "known"
               PROVE  /\ call'[k].client \in Clients /\ call'[k].ran = None
                      /\ call'[k].token <= client'[call'[k].client].token
    BY DEF TokensPast
  <2>1. /\ \A c \in Clients : client[c].token \in Nat /\ client'[c].token \in Nat
        /\ call[k].token \in Nat /\ call[k] \in Call
    BY DEF TypeOK, ClientRow, Call
  <2>2. \A c \in Clients : client[c].token <= client'[c].token
    BY <2>1, ClientStep DEF TokenKept
  <2>3. CASE call'[k] = call[k]
    BY <2>1, <2>2, <2>3 DEF TokensPast
  <2>4. ASSUME NEW c \in Clients, call'[k] = [NoCall EXCEPT !.phase = "known", !.client = c,
                                                            !.token = client[c].token]
        PROVE  call'[k].client = c /\ call'[k].ran = None /\ call'[k].token = client[c].token
    BY <2>4 DEF NoCall
  <2>5. call[k].phase = "known" => call'[k] # [call[k] EXCEPT !.phase = "done"]
    BY <2>1 DEF Call
  <2> QED
    BY <2>1, <2>2, <2>3, <2>4, <2>5, CallStepKeeps DEF CallKept
<1> QED
  BY <1>1, <1>2, TypeCorrect, PTL DEF Spec

\* A call whose client was deleted, or whose token was rotated, after it was authenticated
\* is never let through, whatever administrators do to the client later. The tokens of an
\* identity only grow, across its deletion too, and a call carries one of the past.
THEOREM WithdrawalIsFinal == Spec => RevocationWins
<1>1. ASSUME TypeOK, TypeOK', TokensPast, [Next]_vars, NEW k \in Calls, Withdrawn(k)
      PROVE  StaysOut(k)
  <2> DEFINE c == call[k].client
  <2>1. /\ call[k].phase = "known" /\ ~(client[c].live /\ client[c].token = call[k].token)
        /\ c \in Clients /\ call[k].ran = None /\ call[k].token <= client[c].token
    BY <1>1 DEF Withdrawn, TokensPast
  <2>2. /\ call[k] \in Call /\ call[k].token \in Nat
        /\ client[c].token \in Nat /\ client'[c].token \in Nat
    BY <1>1, <2>1 DEF TypeOK, Call, ClientRow
  <2>3. TokenKept(c)
    BY <1>1, <2>1, ClientStep
  <2>4. ~(client'[c].live /\ client'[c].token = call[k].token)
    BY <2>1, <2>2, <2>3 DEF TokenKept
  <2>5. CASE call'[k] = call[k]
    BY <2>1, <2>4, <2>5 DEF StaysOut, Withdrawn
  <2>6. ASSUME call'[k] = [call[k] EXCEPT !.phase = "done"]
        PROVE  call'[k].phase = "done" /\ call'[k].ran = None
    BY <2>1, <2>2, <2>6 DEF Call
  <2>7. ~StillAuthentic(k)
    BY <2>1 DEF StillAuthentic, Valid
  <2> QED
    BY <1>1, <2>1, <2>5, <2>6, <2>7, CallStepKeeps DEF CallKept, StaysOut
<1>2. TypeOK /\ TypeOK' /\ TokensPast /\ [Next]_vars
        => [\A k \in Calls : Withdrawn(k) => StaysOut(k)]_vars
  BY <1>1
<1> QED
  BY <1>2, TypeCorrect, TokensInvariant, PTL DEF Spec, RevocationWins

-----------------------------------------------------------------------------
(* Revisions *)

ClientsReserved == \A c \in Clients : client[c].live \/ client[c].rev = 0 \/ c \in reserved

\* A client that was deleted does not come back.
LEMMA DeletedClients == Spec => []ClientsReserved
<1>1. Init => ClientsReserved
  BY DEF Init, ClientsReserved, PresentClient, LiveClient
<1>2. TypeOK /\ ClientsReserved /\ [Next]_vars => ClientsReserved'
  <2> SUFFICES ASSUME TypeOK, ClientsReserved, [Next]_vars PROVE ClientsReserved'
    OBVIOUS
  <2>1. ASSUME UNCHANGED client, reserved \subseteq reserved' PROVE ClientsReserved'
    BY <2>1 DEF ClientsReserved
  <2>2. ASSUME NEW s \in Assets, EditAsset(s) PROVE ClientsReserved'
    BY <2>1, <2>2 DEF EditAsset, CreateAsset, UpdateAsset, DeleteAsset
  <2>3. ASSUME NEW a \in Accounts, EditAccount(a) \/ AgeCatalog(a) PROVE ClientsReserved'
    BY <2>1, <2>3 DEF EditAccount, CreateAccount, UpdateAccount, DeleteAccount, AgeCatalog
  <2>4. ASSUME NEW a \in Accounts, RefreshStep(a) PROVE ClientsReserved'
    BY <2>1, <2>4 DEF RefreshStep, account_snapshot, begin, discover, SaveCatalog, RefreshFails, tables
  <2>5. ASSUME NEW g \in Groups, EditGrant(g) PROVE ClientsReserved'
    BY <2>1, <2>5 DEF EditGrant, SaveGrant, ReviseGrant, DeleteGrant
  <2>6. ASSUME NEW k \in Calls, CallStep(k) PROVE ClientsReserved'
    BY <2>1, <2>6 DEF CallStep, authenticate, prepare, denied, execute, tables
  <2>7. ASSUME NEW h \in Artifacts \cup {None}, SwitchPlugin(h) PROVE ClientsReserved'
    BY <2>1, <2>7 DEF SwitchPlugin, tables
  <2>8. ASSUME NEW c \in Clients, EditClient(c) \/ Expire(c) PROVE ClientsReserved'
    <3>1. \A d \in Clients \ {c} : client'[d] = client[d]
      BY <2>8 DEF EditClient, SaveClient, rotate, DeleteClient, Expire, TypeOK
    <3>2. reserved \subseteq reserved' /\ (client'[c].live \/ c \in reserved')
      <4>1. CASE rotate(c) \/ \E e \in BOOLEAN : SaveClient(c, e)
        BY <4>1 DEF rotate, SaveClient, LiveClient, TypeOK
      <4>2. CASE DeleteClient(c)
        BY <4>2 DEF DeleteClient
      <4>3. CASE Expire(c)
        <5>1. client'[c] = [client[c] EXCEPT !.expired = TRUE] /\ client[c] \in ClientRow
          BY <4>3 DEF Expire, TypeOK
        <5>2. client'[c].live
          BY <4>3, <5>1 DEF Expire, ClientRow
        <5> QED
          BY <4>3, <5>2 DEF Expire
      <4> QED
        BY <2>8, <4>1, <4>2, <4>3 DEF EditClient
    <3> QED
      BY <3>1, <3>2 DEF ClientsReserved
  <2>9. CASE UNCHANGED vars
    BY <2>1, <2>9 DEF vars
  <2> QED
    BY <2>2, <2>3, <2>4, <2>5, <2>6, <2>7, <2>8, <2>9 DEF Next
<1> QED
  BY <1>1, <1>2, TypeCorrect, PTL DEF Spec

\* A cascade that takes a version from a group raises its revision.
LEMMA CascadeRises ==
  ASSUME TypeOK, NEW A, grant' = Unconfirmed(A), NEW g \in Groups
  PROVE  GroupRises(g)
<1>1. CASE ~grant[g].live
  BY <1>1, UnconfirmedKeeps DEF GroupRises
<1>2. CASE grant[g].live /\ A \cap grant[g].accounts = {}
  <2>1. WithoutVersions(g, A) = [a \in Accounts |-> grant[g].versions[a]]
    BY <1>2 DEF WithoutVersions
  <2>2. grant[g].versions \in [Accounts -> Specs \cup {None}]
    BY DEF TypeOK, GrantRow
  <2>3. grant'[g].versions = grant[g].versions
    BY <1>2, <2>1, <2>2, UnconfirmedKeeps
  <2> QED
    BY <1>2, <2>3, UnconfirmedKeeps DEF GroupRises, GrantContent
<1>3. CASE grant[g].live /\ A \cap grant[g].accounts # {}
  <2>1. IsFiniteSet(A \cap grant[g].accounts)
    <3>1. A \cap grant[g].accounts \subseteq Accounts
      BY DEF TypeOK, GrantRow
    <3> QED
      BY <3>1, FS_Subset, ObjectsAssumption
  <2>2. Cardinality(A \cap grant[g].accounts) \in Nat /\ Cardinality(A \cap grant[g].accounts) # 0
    BY <1>3, <2>1, FS_CardinalityType, FS_EmptySet
  <2>3. grant'[g].rev = BumpedRevision(g, A) /\ grant[g].rev \in Nat
    BY <1>3 DEF Unconfirmed, TypeOK, GrantRow
  <2> QED
    BY <2>2, <2>3 DEF GroupRises, BumpedRevision
<1> QED
  BY <1>1, <1>2, <1>3

\* Equal revisions of an identity are equal rows: optimistic locking by revision
\* is sound, also across deletion, re-creation and cascades.
THEOREM RevisionsNameContents == Spec => RevisionNamesContent
<1>1. ASSUME TypeOK, DeletedReserved, ClientsReserved, Next PROVE RevisionRises
  <2> USE <1>1
  <2>1. /\ \A s \in Assets : UNCHANGED asset => AssetRises(s)
        /\ \A a \in Accounts : account'[a] = account[a] => AccountRises(a)
        /\ \A c \in Clients : UNCHANGED client => ClientRises(c)
        /\ \A g \in Groups : grant'[g] = grant[g] => GroupRises(g)
    BY DEF AssetRises, AccountRises, ClientRises, GroupRises, AssetContent, AccountContent,
           ClientContent, GrantContent
  <2>2. /\ \A s \in Assets : asset[s] \in AssetRow
        /\ \A a \in Accounts : account[a] \in AccountRow
        /\ \A c \in Clients : client[c] \in ClientRow
        /\ \A g \in Groups : grant[g] \in GrantRow
    BY DEF TypeOK
  <2>3. ASSUME NEW s \in Assets PROVE AssetRises(s)
    <3>1. ASSUME NEW t \in Assets, NEW v \in Conns, NEW e \in BOOLEAN, CreateAsset(t, v, e)
          PROVE  AssetRises(s)
      <4>1. asset[t].rev = 0 /\ asset'[t].rev = 1 /\ (s # t => asset'[s] = asset[s])
        BY <3>1 DEF CreateAsset, NotReserved, DeletedReserved, LiveAsset, TypeOK
      <4> QED
        BY <4>1 DEF AssetRises, AssetContent
    <3>2. ASSUME NEW t \in Assets, NEW v \in Conns, NEW e \in BOOLEAN, UpdateAsset(t, v, e)
          PROVE  AssetRises(s)
      <4>1. asset'[t].rev = asset[t].rev + 1 /\ (s # t => asset'[s] = asset[s])
        BY <3>2 DEF UpdateAsset, LiveAsset, TypeOK
      <4>2. asset[t].rev \in Nat
        BY <2>2 DEF AssetRow
      <4> QED
        BY <4>1, <4>2 DEF AssetRises, AssetContent
    <3>3. ASSUME NEW t \in Assets, DeleteAsset(t) PROVE AssetRises(s)
      <4>1. ~asset'[t].live /\ (s # t => asset'[s] = asset[s])
        BY <2>2, <3>3 DEF DeleteAsset, TypeOK, AssetRow
      <4> QED
        BY <4>1 DEF AssetRises, AssetContent
    <3>4. CASE UNCHANGED asset
      BY <2>1, <3>4
    <3>5. ASSUME NEW a \in Accounts, EditAccount(a) \/ AgeCatalog(a) \/ RefreshStep(a)
          PROVE  UNCHANGED asset
      BY <3>5 DEF EditAccount, CreateAccount, UpdateAccount, DeleteAccount, AgeCatalog, RefreshStep,
                  account_snapshot, begin, discover, SaveCatalog, RefreshFails, tables
    <3>6. ASSUME NEW c \in Clients, EditClient(c) \/ Expire(c) PROVE UNCHANGED asset
      BY <3>6 DEF EditClient, SaveClient, rotate, DeleteClient, Expire
    <3>7. ASSUME NEW g \in Groups, EditGrant(g) PROVE UNCHANGED asset
      BY <3>7 DEF EditGrant, SaveGrant, ReviseGrant, DeleteGrant
    <3>8. ASSUME NEW k \in Calls, CallStep(k) PROVE UNCHANGED asset
      BY <3>8 DEF CallStep, authenticate, prepare, denied, execute, tables
    <3>9. ASSUME NEW h \in Artifacts \cup {None}, SwitchPlugin(h) PROVE UNCHANGED asset
      BY <3>9 DEF SwitchPlugin, tables
    <3> QED
      BY <3>1, <3>2, <3>3, <3>4, <3>5, <3>6, <3>7, <3>8, <3>9 DEF Next, EditAsset
  <2>4. ASSUME NEW a \in Accounts PROVE AccountRises(a)
    <3>1. ASSUME NEW s \in Assets, EditAsset(s) PROVE AccountRises(a)
      <4>1. \/ account'[a] = account[a]
            \/ account'[a].rev = account[a].rev + 1
        BY <3>1 DEF EditAsset, CreateAsset, UpdateAsset, DeleteAsset, Cleared, LiveAccount
      <4>2. account[a].rev \in Nat
        BY <2>2 DEF AccountRow
      <4> QED
        BY <2>1, <4>1, <4>2 DEF AccountRises
    <3>2. ASSUME NEW b \in Accounts, NEW v \in Creds, NEW e \in BOOLEAN, CreateAccount(b, v, e)
          PROVE  AccountRises(a)
      <4>1. account[b].rev = 0 /\ account'[b].rev = 1 /\ (a # b => account'[a] = account[a])
        BY <3>2 DEF CreateAccount, NotReserved, DeletedReserved, LiveAccount, TypeOK
      <4> QED
        BY <4>1 DEF AccountRises, AccountContent
    <3>3. ASSUME NEW b \in Accounts, NEW v \in Creds, NEW r \in BOOLEAN, NEW e \in BOOLEAN,
                 UpdateAccount(b, v, r, e)
          PROVE  AccountRises(a)
      <4>1. account'[b].rev = account[b].rev + 1 /\ (a # b => account'[a] = account[a])
        BY <3>3 DEF UpdateAccount, Cleared, LiveAccount, TypeOK
      <4>2. account[b].rev \in Nat
        BY <2>2 DEF AccountRow
      <4> QED
        BY <4>1, <4>2 DEF AccountRises, AccountContent
    <3>4. ASSUME NEW b \in Accounts, DeleteAccount(b) PROVE AccountRises(a)
      <4>1. ~account'[b].live /\ (a # b => account'[a] = account[a])
        BY <2>2, <3>4 DEF DeleteAccount, TypeOK, AccountRow
      <4> QED
        BY <4>1 DEF AccountRises, AccountContent
    <3>5. ASSUME NEW b \in Accounts, AgeCatalog(b) \/ SaveCatalog(b) PROVE AccountRises(a)
      <4>1. /\ account'[b].live = account[b].live /\ account'[b].enabled = account[b].enabled
            /\ account'[b].cred = account[b].cred
            /\ a # b => account'[a] = account[a]
        <5>1. account[b] \in AccountRow
          BY <2>2
        <5>2. CASE AgeCatalog(b)
          BY <5>1, <5>2 DEF AgeCatalog, TypeOK, AccountRow
        <5>3. CASE SaveCatalog(b)
          BY <5>1, <5>3 DEF SaveCatalog, TypeOK, AccountRow
        <5> QED
          BY <3>5, <5>2, <5>3
      <4> QED
        BY <4>1 DEF AccountRises, AccountContent
    <3>6. CASE UNCHANGED account
      BY <2>1, <3>6
    <3>7. ASSUME NEW b \in Accounts, RefreshStep(b) PROVE UNCHANGED account \/ SaveCatalog(b)
      BY <3>7 DEF RefreshStep, account_snapshot, begin, discover, RefreshFails, tables
    <3>8. ASSUME NEW c \in Clients, EditClient(c) \/ Expire(c) PROVE UNCHANGED account
      BY <3>8 DEF EditClient, SaveClient, rotate, DeleteClient, Expire
    <3>9. ASSUME NEW g \in Groups, EditGrant(g) PROVE UNCHANGED account
      BY <3>9 DEF EditGrant, SaveGrant, ReviseGrant, DeleteGrant
    <3>10. ASSUME NEW k \in Calls, CallStep(k) PROVE UNCHANGED account
      BY <3>10 DEF CallStep, authenticate, prepare, denied, execute, tables
    <3>11. ASSUME NEW h \in Artifacts \cup {None}, SwitchPlugin(h) PROVE UNCHANGED account
      BY <3>11 DEF SwitchPlugin, tables
    <3> QED
      BY <3>1, <3>2, <3>3, <3>4, <3>5, <3>6, <3>7, <3>8, <3>9, <3>10, <3>11 DEF Next, EditAccount
  <2>5. ASSUME NEW c \in Clients PROVE ClientRises(c)
    <3>1. ASSUME NEW d \in Clients, EditClient(d) \/ Expire(d) PROVE ClientRises(c)
      <4>1. c # d => client'[c] = client[c]
        BY <3>1 DEF EditClient, SaveClient, rotate, DeleteClient, Expire, TypeOK
      <4>2. client[d] \in ClientRow
        BY <2>2
      <4>3. ASSUME NEW e \in BOOLEAN, SaveClient(d, e) PROVE client'[d].rev > client[d].rev
        <5>1. CASE client[d].live
          <6>1. client'[d].rev = client[d].rev + 1
            BY <4>3, <5>1 DEF SaveClient, LiveClient, TypeOK
          <6> QED
            BY <4>2, <6>1 DEF ClientRow
        <5>2. CASE ~client[d].live
          <6>1. client'[d].rev = 1
            BY <4>3, <5>2 DEF SaveClient, LiveClient, TypeOK
          <6>2. client[d].rev = 0
            BY <4>3, <5>2 DEF SaveClient, NotReserved, ClientsReserved
          <6> QED
            BY <6>1, <6>2
        <5> QED
          BY <5>1, <5>2
      <4>4. ASSUME rotate(d) PROVE client'[d].rev > client[d].rev
        BY <4>2, <4>4 DEF rotate, TypeOK, ClientRow
      <4>5. ASSUME DeleteClient(d) PROVE ~client'[d].live
        BY <4>2, <4>5 DEF DeleteClient, TypeOK, ClientRow
      <4>6. ASSUME Expire(d)
            PROVE  client[d].live /\ ClientContent(d)' = ClientContent(d)
        <5>1. client'[d] = [client[d] EXCEPT !.expired = TRUE]
          BY <4>6 DEF Expire, TypeOK
        <5> QED
          BY <4>2, <4>6, <5>1 DEF Expire, ClientContent, ClientRow
      <4> QED
        BY <3>1, <4>1, <4>3, <4>4, <4>5, <4>6 DEF ClientRises, ClientContent, EditClient
    <3>2. CASE UNCHANGED client
      BY <2>1, <3>2
    <3>3. ASSUME NEW s \in Assets, EditAsset(s) PROVE UNCHANGED client
      BY <3>3 DEF EditAsset, CreateAsset, UpdateAsset, DeleteAsset
    <3>4. ASSUME NEW a \in Accounts, EditAccount(a) \/ AgeCatalog(a) \/ RefreshStep(a)
          PROVE  UNCHANGED client
      BY <3>4 DEF EditAccount, CreateAccount, UpdateAccount, DeleteAccount, AgeCatalog, RefreshStep,
                  account_snapshot, begin, discover, SaveCatalog, RefreshFails, tables
    <3>5. ASSUME NEW g \in Groups, EditGrant(g) PROVE UNCHANGED client
      BY <3>5 DEF EditGrant, SaveGrant, ReviseGrant, DeleteGrant
    <3>6. ASSUME NEW k \in Calls, CallStep(k) PROVE UNCHANGED client
      BY <3>6 DEF CallStep, authenticate, prepare, denied, execute, tables
    <3>7. ASSUME NEW h \in Artifacts \cup {None}, SwitchPlugin(h) PROVE UNCHANGED client
      BY <3>7 DEF SwitchPlugin, tables
    <3> QED
      BY <3>1, <3>2, <3>3, <3>4, <3>5, <3>6, <3>7 DEF Next
  <2>6. ASSUME NEW g \in Groups PROVE GroupRises(g)
    <3>1. ASSUME NEW A, grant' = Unconfirmed(A) PROVE GroupRises(g)
      BY <3>1, CascadeRises
    <3>2. ASSUME NEW h \in Groups, NEW C \in SUBSET Clients, NEW A \in SUBSET Accounts,
                 NEW e \in BOOLEAN, NEW vg \in BOOLEAN, NEW cg \in BOOLEAN,
                 SaveGrant(h, C, A, e, vg, cg)
          PROVE  GroupRises(g)
      <4>1. grant'[h].rev = grant[h].rev + 1 /\ (g # h => grant'[g] = grant[g])
        BY <3>2 DEF SaveGrant, TypeOK
      <4>2. grant[h].rev \in Nat
        BY <2>2 DEF GrantRow
      <4> QED
        BY <2>1, <4>1, <4>2 DEF GroupRises
    <3>3. ASSUME NEW h \in Groups, NEW e \in BOOLEAN, ReviseGrant(h, e) PROVE GroupRises(g)
      <4>1. grant'[h].rev = grant[h].rev + 1 /\ (g # h => grant'[g] = grant[g])
        BY <3>3 DEF ReviseGrant, TypeOK
      <4>2. grant[h].rev \in Nat
        BY <2>2 DEF GrantRow
      <4> QED
        BY <2>1, <4>1, <4>2 DEF GroupRises
    <3>4. ASSUME NEW h \in Groups, DeleteGrant(h) PROVE GroupRises(g)
      <4>1. ~grant'[h].live /\ (g # h => grant'[g] = grant[g])
        BY <2>2, <3>4 DEF DeleteGrant, TypeOK, GrantRow
      <4> QED
        BY <2>1, <4>1 DEF GroupRises
    <3>5. CASE UNCHANGED grant
      BY <2>1, <3>5
    <3>6. ASSUME NEW s \in Assets, EditAsset(s)
          PROVE  UNCHANGED grant \/ grant' = Unconfirmed(AccountsOf(s))
      BY <3>6 DEF EditAsset, CreateAsset, UpdateAsset, DeleteAsset
    <3>7. ASSUME NEW a \in Accounts, EditAccount(a) \/ AgeCatalog(a) \/ RefreshStep(a)
          PROVE  UNCHANGED grant \/ grant' = Unconfirmed({a})
      BY <3>7 DEF EditAccount, CreateAccount, UpdateAccount, DeleteAccount, AgeCatalog, RefreshStep,
                  account_snapshot, begin, discover, SaveCatalog, RefreshFails, tables
    <3>8. ASSUME NEW c \in Clients, EditClient(c) \/ Expire(c) PROVE UNCHANGED grant
      BY <3>8 DEF EditClient, SaveClient, rotate, DeleteClient, Expire
    <3>9. ASSUME NEW k \in Calls, CallStep(k) PROVE UNCHANGED grant
      BY <3>9 DEF CallStep, authenticate, prepare, denied, execute, tables
    <3>10. ASSUME NEW h \in Artifacts \cup {None}, SwitchPlugin(h) PROVE UNCHANGED grant
      BY <3>10 DEF SwitchPlugin, tables
    <3>11. ASSUME NEW h \in Groups, EditGrant(h) PROVE GroupRises(g)
      BY <3>2, <3>3, <3>4, <3>11 DEF EditGrant
    <3>12. ASSUME NEW s \in Assets, EditAsset(s) PROVE GroupRises(g)
      BY <3>1, <3>5, <3>6, <3>12
    <3>13. ASSUME NEW a \in Accounts, EditAccount(a) \/ AgeCatalog(a) \/ RefreshStep(a)
           PROVE  GroupRises(g)
      BY <3>1, <3>5, <3>7, <3>13
    <3> QED
      BY <3>5, <3>8, <3>9, <3>10, <3>11, <3>12, <3>13 DEF Next
  <2> QED
    BY <2>3, <2>4, <2>5, <2>6 DEF RevisionRises
<1>2. DeletedReserved /\ TypeOK /\ ClientsReserved /\ [Next]_vars => [RevisionRises]_vars
  <2>1. DeletedReserved /\ TypeOK /\ ClientsReserved /\ Next => RevisionRises
    BY <1>1
  <2> QED
    BY <2>1
<1>3. RefreshInv => DeletedReserved
  BY DEF RefreshInv
<1> QED
  BY <1>2, <1>3, TypeCorrect, RefreshInvariant, DeletedClients, PTL DEF Spec, RevisionNamesContent
=============================================================================
