------------------------------- MODULE Grants -------------------------------
(***************************************************************************)
(* Authorization data (app/core/manager.py, Manager.save, delete, rotate;  *)
(* app/core/gateway.py, Gateway.entries, prepare, refresh): assets, their  *)
(* accounts with discovered tool catalogs, clients with tokens, and groups *)
(* ("grants") that let clients use accounts. Every administrator's request *)
(* is one write transaction, refused without effect unless it carries the  *)
(* current revision of its row: the actions are the accepted requests. A   *)
(* catalog refresh and a tool call read in one transaction and act in a    *)
(* later one.                                                              *)
(*                                                                         *)
(* The accounts are of one plugin type whose catalog is discovered         *)
(* upstream, so that both bindings of a group apply: to the versions of    *)
(* the tools and to the artifact of the plugin. A catalog holds one tool,  *)
(* and None stands for an empty catalog, a missing version and, as an      *)
(* artifact, for the placeholder of a plugin that is not enabled.          *)
(***************************************************************************)
EXTENDS Integers, FiniteSets

CONSTANTS
  Assets, Accounts, Clients, Groups, Calls,
  AssetOf,    \* accounts.asset_id, immutable
  Conns,      \* connections an asset may have
  Creds,      \* credentials and configurations an account may have
  Specs,      \* definitions of the tool an upstream may publish
  Artifacts,  \* artifacts of the plugin that may be active
  Present,    \* assets, accounts and clients that exist at the start
  MaxEdits,   \* bound on administrators' transactions
  None

ASSUME ObjectsAssumption ==
  /\ IsFiniteSet(Accounts)
  /\ AssetOf \in [Accounts -> Assets]
  /\ Assets \cap Accounts = {}
  /\ \A a \in Accounts \cap Present : AssetOf[a] \in Present

ASSUME ValuesAssumption ==
  /\ None \notin Specs \cup Artifacts \cup Conns \cup Creds
  /\ MaxEdits \in Nat

VARIABLES
  asset,      \* table assets
  account,    \* table accounts
  client,     \* table clients
  grant,      \* tables grants, grant_clients, grant_accounts
  reserved,   \* setting reserved_ids
  artifact,   \* artifact_hash of the registered type
  refresh,    \* Gateway.refresh in progress, one per account (refresh_locks)
  call,       \* tool calls between authentication and execution
  edits,      \* administrators' transactions so far
  source,     \* history: configuration the stored catalog was discovered with
  confirmed,  \* history: tool definitions an administrator submitted
  confirmedCode \* history: artifacts an administrator submitted

tables  == <<asset, account, client, grant, reserved>>
history == <<source, confirmed, confirmedCode>>
vars == <<asset, account, client, grant, reserved, artifact, refresh, call,
          edits, source, confirmed, confirmedCode>>

\* A deleted row keeps its last contents with live = FALSE; rev = 0 before the
\* first INSERT.
AssetRow   == [live : BOOLEAN, rev : Nat, enabled : BOOLEAN, conn : Conns \cup {None}]
AccountRow == [live : BOOLEAN, rev : Nat, enabled : BOOLEAN, cred : Creds \cup {None},
               catalog : Specs \cup {None}, fresh : BOOLEAN]
ClientRow  == [live : BOOLEAN, rev : Nat, enabled : BOOLEAN, expired : BOOLEAN, token : Nat]
GrantRow   == [live : BOOLEAN, rev : Nat, enabled : BOOLEAN, clients : SUBSET Clients,
               accounts : SUBSET Accounts, versions : [Accounts -> Specs \cup {None}],
               code : Artifacts \cup {None}]

\* snap: account_snapshot taken; begun: begin committed; found: tools discovered.
Refresh == [phase : {"idle", "snap", "begun", "found"}, assetRev : Nat, accountRev : Nat,
            conn : Conns \cup {None}, cred : Creds \cup {None}, spec : Specs \cup {None}]

\* known: authenticated; allowed: prepare committed its audit row.
Call == [phase : {"idle", "known", "allowed", "done"}, client : Clients \cup {None},
         token : Nat, account : Accounts \cup {None}, spec : Specs \cup {None},
         conn : Conns \cup {None}, cred : Creds \cup {None},
         artifact : Artifacts \cup {None}, ran : Artifacts \cup {None}]

AccountsOf(s) == {a \in Accounts : AssetOf[a] = s}
AssetRowOf(a) == asset[AssetOf[a]]

LiveAsset(rev, e, v) == [live |-> TRUE, rev |-> rev, enabled |-> e, conn |-> v]
LiveAccount(rev, e, v, catalog, fresh) ==
  [live |-> TRUE, rev |-> rev, enabled |-> e, cred |-> v, catalog |-> catalog, fresh |-> fresh]
LiveClient(rev, e, token) ==
  [live |-> TRUE, rev |-> rev, enabled |-> e, expired |-> FALSE, token |-> token]

\* What an administrator confirms by submitting the versions he was shown.
Approval == [group : Groups, account : Accounts, spec : Specs,
             conn : Conns \cup {None}, cred : Creds \cup {None}]
CodeApproval == [group : Groups, code : Artifacts]
Config == [conn : Conns \cup {None}, cred : Creds \cup {None}]

NoVersions == [a \in Accounts |-> None]
NoRefresh  == [phase |-> "idle", assetRev |-> 0, accountRev |-> 0,
               conn |-> None, cred |-> None, spec |-> None]
NoCall     == [phase |-> "idle", client |-> None, token |-> 0, account |-> None,
               spec |-> None, conn |-> None, cred |-> None, artifact |-> None, ran |-> None]

Edit == edits < MaxEdits /\ edits' = edits + 1

-----------------------------------------------------------------------------
(* Faulty forms of the definitions below: the mistakes the properties exclude. *)

AnyId(id)          == TRUE                  \* forget reserved_ids
KeepVersions(g, A) == grant[g].versions     \* forget json_remove
DropKeys(g, A)     == [a \in Accounts \ A |-> grant[g].versions[a]] \* drop accounts
KeepRevision(g, A) == grant[g].rev          \* cascade without revision+1
SnapshotTaken(a)   == TRUE                  \* store a catalog unconditionally
RowExists(k)       == client[call[k].client].live \* forget the token and enabled
NoReference(a)     == TRUE                  \* DELETE without foreign key

-----------------------------------------------------------------------------
(* Rules shared by the transactions *)

\* An identity that was deleted is never given out again.
NotReserved(id) == id \notin reserved

\* An account whose configuration changed has to be discovered again.
Cleared(a, v, e) == LiveAccount(account[a].rev + 1, e, v, None, FALSE)

\* json_remove(tool_versions_json, '$.'||account) for every account of A.
WithoutVersions(g, A) ==
  [a \in Accounts |-> IF a \in A \cap grant[g].accounts THEN None ELSE grant[g].versions[a]]

\* revision=revision+1, once for every account of A in the group.
BumpedRevision(g, A) == grant[g].rev + Cardinality(A \cap grant[g].accounts)

\* The groups after the configuration of the accounts A changed.
Unconfirmed(A) ==
  [g \in Groups |->
     IF grant[g].live
     THEN [live |-> TRUE, rev |-> BumpedRevision(g, A), enabled |-> grant[g].enabled,
           clients |-> grant[g].clients, accounts |-> grant[g].accounts,
           versions |-> WithoutVersions(g, A), code |-> grant[g].code]
     ELSE grant[g]]

\* ON DELETE RESTRICT of grant_accounts.account_id, grant_clients.client_id and
\* accounts.asset_id.
AccountUnused(a) == \A g \in Groups : grant[g].live => a \notin grant[g].accounts
ClientUnused(c)  == \A g \in Groups : grant[g].live => c \notin grant[g].clients
AssetUnused(s)   == \A a \in AccountsOf(s) : ~account[a].live

-----------------------------------------------------------------------------
(* Assets *)

CreateAsset(s, v, e) ==
  /\ Edit
  /\ artifact # None
  /\ ~asset[s].live /\ NotReserved(s)
  /\ asset' = [asset EXCEPT ![s] = LiveAsset(1, e, v)]
  /\ UNCHANGED <<account, client, grant, reserved, artifact, refresh, call, history>>

\* A new connection leads to another server: what was discovered and approved
\* for the old one is dropped.
UpdateAsset(s, v, e) ==
  /\ Edit
  /\ artifact # None
  /\ asset[s].live
  /\ asset' = [asset EXCEPT ![s] = LiveAsset(@.rev + 1, e, v)]
  /\ IF v = asset[s].conn
     THEN UNCHANGED <<account, grant>>
     ELSE /\ account' = [a \in Accounts |-> IF AssetOf[a] = s /\ account[a].live
                                            THEN Cleared(a, account[a].cred, account[a].enabled)
                                            ELSE account[a]]
          /\ grant' = Unconfirmed(AccountsOf(s))
  /\ UNCHANGED <<client, reserved, artifact, refresh, call, history>>

DeleteAsset(s) ==
  /\ Edit
  /\ asset[s].live /\ AssetUnused(s)
  /\ asset' = [asset EXCEPT ![s].live = FALSE]
  /\ reserved' = reserved \cup {s}
  /\ UNCHANGED <<account, client, grant, artifact, refresh, call, history>>

-----------------------------------------------------------------------------
(* Accounts *)

CreateAccount(a, v, e) ==
  /\ Edit
  /\ artifact # None
  /\ AssetRowOf(a).live
  /\ ~account[a].live /\ NotReserved(a)
  /\ account' = [account EXCEPT ![a] = LiveAccount(1, e, v, None, FALSE)]
  /\ UNCHANGED <<asset, client, grant, reserved, artifact, refresh, call, history>>

\* replaced: the body has a credential or a different configuration.
UpdateAccount(a, v, replaced, e) ==
  /\ Edit
  /\ artifact # None
  /\ account[a].live
  /\ v # account[a].cred => replaced
  /\ IF replaced
     THEN /\ account' = [account EXCEPT ![a] = Cleared(a, v, e)]
          /\ grant' = Unconfirmed({a})
     ELSE /\ account' = [account EXCEPT ![a] = LiveAccount(@.rev + 1, e, @.cred, @.catalog, @.fresh)]
          /\ UNCHANGED grant
  /\ UNCHANGED <<asset, client, reserved, artifact, refresh, call, history>>

DeleteAccount(a) ==
  /\ Edit
  /\ account[a].live /\ AccountUnused(a)
  /\ account' = [account EXCEPT ![a].live = FALSE]
  /\ reserved' = reserved \cup {a}
  /\ UNCHANGED <<asset, client, grant, artifact, refresh, call, history>>

\* catalog_refreshed_at becomes older than 300 seconds.
AgeCatalog(a) ==
  /\ account[a].live /\ account[a].fresh
  /\ account' = [account EXCEPT ![a].fresh = FALSE]
  /\ UNCHANGED <<asset, client, grant, reserved, artifact, refresh, call, edits, history>>

-----------------------------------------------------------------------------
(* Clients *)

\* A save must carry an expiry in the future, or none. A token is random, never one of before.
SaveClient(c, e) ==
  /\ Edit
  /\ \/ /\ client[c].live
        /\ client' = [client EXCEPT ![c] = LiveClient(@.rev + 1, e, @.token)]
     \/ /\ ~client[c].live /\ NotReserved(c)
        /\ client' = [client EXCEPT ![c] = LiveClient(1, e, @.token + 1)]
  /\ UNCHANGED <<asset, account, grant, reserved, artifact, refresh, call, history>>

rotate(c) ==
  /\ Edit
  /\ client[c].live
  /\ client' = [client EXCEPT ![c] =
       [live |-> TRUE, rev |-> @.rev + 1, enabled |-> @.enabled, expired |-> @.expired,
        token |-> @.token + 1]]
  /\ UNCHANGED <<asset, account, grant, reserved, artifact, refresh, call, history>>

DeleteClient(c) ==
  /\ Edit
  /\ client[c].live /\ ClientUnused(c)
  /\ client' = [client EXCEPT ![c].live = FALSE]
  /\ reserved' = reserved \cup {c}
  /\ UNCHANGED <<asset, account, grant, artifact, refresh, call, history>>

\* token_expires_at passes.
Expire(c) ==
  /\ client[c].live /\ ~client[c].expired
  /\ client' = [client EXCEPT ![c].expired = TRUE]
  /\ UNCHANGED <<asset, account, grant, reserved, artifact, refresh, call, edits, history>>

-----------------------------------------------------------------------------
(* Groups *)

\* The versions and the artifact a group over the accounts A is bound to.
Expected(A)     == [a \in Accounts |-> IF a \in A THEN account[a].catalog ELSE None]
ExpectedCode(A) == IF A = {} THEN None ELSE artifact

\* A body without tool_versions or code_versions stands for those of the row.
VersionsRetained(g, A) == \A a \in A : grant[g].versions[a] = account[a].catalog
CodeRetained(g)        == grant[g].code = artifact

\* What the administrator did not submit must be what the group already has.
Accepted(g, A, versionsGiven, codeGiven) ==
  A # {} =>
    /\ artifact # None
    /\ \A a \in A : account[a].catalog # None /\ account[a].fresh
    /\ versionsGiven \/ (grant[g].live /\ VersionsRetained(g, A))
    /\ codeGiven \/ (grant[g].live /\ CodeRetained(g))

\* Submitted versions that differ from the current ones are refused, so given
\* ones are the current ones. A new group has a fresh uuid.
SaveGrant(g, C, A, e, versionsGiven, codeGiven) ==
  /\ Edit
  /\ grant[g].live \/ grant[g].rev = 0
  /\ \A c \in C : client[c].live
  /\ \A a \in A : account[a].live
  /\ Accepted(g, A, versionsGiven, codeGiven)
  /\ grant' = [grant EXCEPT ![g] =
       [live |-> TRUE, rev |-> @.rev + 1, enabled |-> e, clients |-> C, accounts |-> A,
        versions |-> Expected(A), code |-> ExpectedCode(A)]]
  /\ confirmed' = confirmed \cup
       {[group |-> g, account |-> a, spec |-> account[a].catalog,
         conn |-> AssetRowOf(a).conn, cred |-> account[a].cred] : a \in IF versionsGiven THEN A ELSE {}}
  /\ confirmedCode' = confirmedCode \cup
       (IF codeGiven /\ A # {} THEN {[group |-> g, code |-> artifact]} ELSE {})
  /\ UNCHANGED <<asset, account, client, reserved, artifact, refresh, call, source>>

\* A body of at most a name, or one that disables, keeps members and versions.
ReviseGrant(g, e) ==
  /\ Edit
  /\ grant[g].live
  /\ e => grant[g].enabled
  /\ grant' = [grant EXCEPT ![g] =
       [live |-> TRUE, rev |-> @.rev + 1, enabled |-> e, clients |-> @.clients,
        accounts |-> @.accounts, versions |-> @.versions, code |-> @.code]]
  /\ UNCHANGED <<asset, account, client, reserved, artifact, refresh, call, history>>

DeleteGrant(g) ==
  /\ Edit
  /\ grant[g].live
  /\ grant' = [grant EXCEPT ![g].live = FALSE]
  /\ UNCHANGED <<asset, account, client, reserved, artifact, refresh, call, history>>

-----------------------------------------------------------------------------
(* Refresh of a catalog: Gateway.refresh, account_operation *)

account_snapshot(a) ==
  /\ refresh[a].phase = "idle"
  /\ artifact # None
  /\ account[a].live /\ account[a].enabled /\ AssetRowOf(a).enabled
  /\ refresh' = [refresh EXCEPT ![a] =
       [phase |-> "snap", assetRev |-> AssetRowOf(a).rev, accountRev |-> account[a].rev,
        conn |-> AssetRowOf(a).conn, cred |-> account[a].cred, spec |-> None]]
  /\ UNCHANGED <<tables, artifact, call, edits, history>>

\* The configuration is still the one of the snapshot: both revisions match.
SnapshotCurrent(a) ==
  /\ account[a].live /\ account[a].rev = refresh[a].accountRev
  /\ AssetRowOf(a).rev = refresh[a].assetRev

begin(a) ==
  /\ refresh[a].phase = "snap"
  /\ refresh' = [refresh EXCEPT ![a] = IF SnapshotCurrent(a) THEN [@ EXCEPT !.phase = "begun"]
                                                             ELSE NoRefresh]
  /\ UNCHANGED <<tables, artifact, call, edits, history>>

discover(a, spec) ==
  /\ refresh[a].phase = "begun"
  /\ refresh' = [refresh EXCEPT ![a].phase = "found", ![a].spec = spec]
  /\ UNCHANGED <<tables, artifact, call, edits, history>>

\* The revisions are checked again in the transaction that stores the catalog.
SaveCatalog(a) ==
  /\ refresh[a].phase = "found"
  /\ refresh' = [refresh EXCEPT ![a] = NoRefresh]
  /\ IF SnapshotCurrent(a)
     THEN /\ account' = [account EXCEPT ![a].catalog = refresh[a].spec, ![a].fresh = TRUE]
          /\ source' = [source EXCEPT ![a] = [conn |-> refresh[a].conn, cred |-> refresh[a].cred]]
     ELSE UNCHANGED <<account, source>>
  /\ UNCHANGED <<asset, client, grant, reserved, artifact, call, edits, confirmed, confirmedCode>>

\* Upstream failure, timeout, cancellation or a crash of the process.
RefreshFails(a) ==
  /\ refresh[a].phase # "idle"
  /\ refresh' = [refresh EXCEPT ![a] = NoRefresh]
  /\ UNCHANGED <<tables, artifact, call, edits, history>>

-----------------------------------------------------------------------------
(* Tool calls: authentication, Gateway.prepare, the dispatch of Gateway.call *)

Valid(c) == client[c].live /\ client[c].enabled /\ ~client[c].expired

authenticate(k, c) ==
  /\ call[k].phase = "idle"
  /\ Valid(c)
  /\ call' = [call EXCEPT ![k] =
       [NoCall EXCEPT !.phase = "known", !.client = c, !.token = client[c].token]]
  /\ UNCHANGED <<tables, artifact, refresh, edits, history>>

\* The client of k is valid and its token was not rotated.
StillAuthentic(k) == Valid(call[k].client) /\ client[call[k].client].token = call[k].token

\* The plugin's code is the one the group was confirmed for.
CodeMatches(g) == grant[g].code = artifact

\* The enabled groups that let client c call the tool of account a.
Granting(c, a) ==
  {g \in Groups : /\ grant[g].live /\ grant[g].enabled
                  /\ c \in grant[g].clients /\ a \in grant[g].accounts
                  /\ CodeMatches(g)
                  /\ grant[g].versions[a] = account[a].catalog}

entries(c) ==
  {a \in Accounts : /\ artifact # None
                    /\ account[a].enabled /\ AssetRowOf(a).enabled
                    /\ account[a].catalog # None /\ account[a].fresh
                    /\ Granting(c, a) # {}}

\* One transaction computes the entries, chooses the target and inserts the
\* audit row.
prepare(k, a) ==
  /\ call[k].phase = "known"
  /\ StillAuthentic(k)
  /\ a \in entries(call[k].client)
  /\ call' = [call EXCEPT ![k] =
       [phase |-> "allowed", client |-> @.client, token |-> @.token, account |-> a,
        spec |-> account[a].catalog, conn |-> AssetRowOf(a).conn, cred |-> account[a].cred,
        artifact |-> artifact, ran |-> None]]
  /\ UNCHANGED <<tables, artifact, refresh, edits, history>>

\* Refused by prepare: no entry, another target, invalid arguments.
denied(k) ==
  /\ call[k].phase = "known"
  /\ call' = [call EXCEPT ![k].phase = "done"]
  /\ UNCHANGED <<tables, artifact, refresh, edits, history>>

\* kind = self.types[...] is read when the coroutine resumes after prepare.
execute(k) ==
  /\ call[k].phase = "allowed"
  /\ call' = [call EXCEPT ![k].phase = "done", ![k].ran = artifact]
  /\ UNCHANGED <<tables, artifact, refresh, edits, history>>

-----------------------------------------------------------------------------
\* PluginService enables, disables or switches the plugin of the type.
SwitchPlugin(h) ==
  /\ artifact # h
  /\ artifact' = h
  /\ UNCHANGED <<tables, refresh, call, edits, history>>

-----------------------------------------------------------------------------
PresentAsset(s, v) ==
  IF s \in Present THEN LiveAsset(1, TRUE, v)
                   ELSE [live |-> FALSE, rev |-> 0, enabled |-> FALSE, conn |-> None]

PresentAccount(a, v) ==
  IF a \in Present THEN LiveAccount(1, TRUE, v, None, FALSE)
                   ELSE [live |-> FALSE, rev |-> 0, enabled |-> FALSE, cred |-> None,
                         catalog |-> None, fresh |-> FALSE]

PresentClient(c) ==
  IF c \in Present THEN LiveClient(1, TRUE, 1)
                   ELSE [live |-> FALSE, rev |-> 0, enabled |-> FALSE, expired |-> FALSE,
                         token |-> 0]

Init ==
  /\ \E v \in Conns : asset = [s \in Assets |-> PresentAsset(s, v)]
  /\ \E v \in Creds : account = [a \in Accounts |-> PresentAccount(a, v)]
  /\ client = [c \in Clients |-> PresentClient(c)]
  /\ grant = [g \in Groups |-> [live |-> FALSE, rev |-> 0, enabled |-> FALSE, clients |-> {},
                                accounts |-> {}, versions |-> NoVersions, code |-> None]]
  /\ reserved = {}
  /\ artifact \in Artifacts
  /\ refresh = [a \in Accounts |-> NoRefresh]
  /\ call = [k \in Calls |-> NoCall]
  /\ edits = 0
  /\ source = [a \in Accounts |-> [conn |-> None, cred |-> None]]
  /\ confirmed = {}
  /\ confirmedCode = {}

EditAsset(s) ==
  \/ \E v \in Conns, e \in BOOLEAN : CreateAsset(s, v, e) \/ UpdateAsset(s, v, e)
  \/ DeleteAsset(s)

EditAccount(a) ==
  \/ \E v \in Creds, e \in BOOLEAN : CreateAccount(a, v, e)
  \/ \E v \in Creds, replaced, e \in BOOLEAN : UpdateAccount(a, v, replaced, e)
  \/ DeleteAccount(a)

EditClient(c) ==
  \/ \E e \in BOOLEAN : SaveClient(c, e)
  \/ rotate(c)
  \/ DeleteClient(c)

EditGrant(g) ==
  \/ \E C \in SUBSET Clients, A \in SUBSET Accounts, e, versionsGiven, codeGiven \in BOOLEAN :
        SaveGrant(g, C, A, e, versionsGiven, codeGiven)
  \/ \E e \in BOOLEAN : ReviseGrant(g, e)
  \/ DeleteGrant(g)

RefreshStep(a) ==
  \/ account_snapshot(a)
  \/ begin(a)
  \/ \E spec \in Specs \cup {None} : discover(a, spec)
  \/ SaveCatalog(a)
  \/ RefreshFails(a)

CallStep(k) ==
  \/ \E c \in Clients : authenticate(k, c)
  \/ \E a \in Accounts : prepare(k, a)
  \/ denied(k)
  \/ execute(k)

Next ==
  \/ \E s \in Assets : EditAsset(s)
  \/ \E a \in Accounts : EditAccount(a) \/ AgeCatalog(a) \/ RefreshStep(a)
  \/ \E c \in Clients : EditClient(c) \/ Expire(c)
  \/ \E g \in Groups : EditGrant(g)
  \/ \E k \in Calls : CallStep(k)
  \/ \E h \in Artifacts \cup {None} : SwitchPlugin(h)

Spec == Init /\ [][Next]_vars

-----------------------------------------------------------------------------
(* Properties *)

\* Every row, refresh and call has the shape the tables and objects of the code
\* give it.
TypeOK ==
  /\ asset \in [Assets -> AssetRow]
  /\ account \in [Accounts -> AccountRow]
  /\ client \in [Clients -> ClientRow]
  /\ grant \in [Groups -> GrantRow]
  /\ reserved \subseteq Assets \cup Accounts \cup Clients
  /\ artifact \in Artifacts \cup {None}
  /\ refresh \in [Accounts -> Refresh]
  /\ call \in [Calls -> Call]
  /\ edits \in 0 .. MaxEdits
  /\ source \in [Accounts -> Config]
  /\ confirmed \subseteq Approval
  /\ confirmedCode \subseteq CodeApproval

\* The stored catalog was discovered with the connection and the credential the
\* account has now, however slow the discovery was and whatever was saved,
\* deleted or created meanwhile (save in Gateway.refresh).
CatalogIsCurrent ==
  \A a \in Accounts :
    account[a].live /\ account[a].catalog # None =>
      source[a].conn = AssetRowOf(a).conn /\ source[a].cred = account[a].cred

\* A call is let through only for a tool definition that an administrator
\* submitted for that group and account under the same connection and
\* credential, and only while a plugin artifact is active that an administrator
\* submitted for the same group.
CallsConfirmed ==
  \A k \in Calls : call[k].phase = "allowed" =>
    \E g \in Groups :
      /\ [group |-> g, account |-> call[k].account, spec |-> call[k].spec,
          conn |-> call[k].conn, cred |-> call[k].cred] \in confirmed
      /\ [group |-> g, code |-> call[k].artifact] \in confirmedCode

\* The members of a group and the asset of an account exist: otherwise entries
\* would fail with NOT_FOUND for every tool of the client.
ReferencesLive ==
  /\ \A g \in Groups : grant[g].live =>
       /\ \A a \in grant[g].accounts : account[a].live
       /\ \A c \in grant[g].clients : client[c].live
  /\ \A a \in Accounts : account[a].live => AssetRowOf(a).live

AssetContent(s)   == <<asset[s].enabled, asset[s].conn>>
AccountContent(a) == <<account[a].enabled, account[a].cred>>
ClientContent(c)  == <<client[c].enabled, client[c].token>>
GrantContent(g)   == <<grant[g].enabled, grant[g].clients, grant[g].accounts,
                       grant[g].versions, grant[g].code>>

\* A changed or new row has a higher revision than every earlier one of its
\* identity.
AssetRises(s) ==
  asset'[s].live /\ (~asset[s].live \/ AssetContent(s)' # AssetContent(s))
    => asset'[s].rev > asset[s].rev
AccountRises(a) ==
  account'[a].live /\ (~account[a].live \/ AccountContent(a)' # AccountContent(a))
    => account'[a].rev > account[a].rev
ClientRises(c) ==
  client'[c].live /\ (~client[c].live \/ ClientContent(c)' # ClientContent(c))
    => client'[c].rev > client[c].rev
GroupRises(g) ==
  grant'[g].live /\ (~grant[g].live \/ GrantContent(g)' # GrantContent(g))
    => grant'[g].rev > grant[g].rev

RevisionRises ==
  /\ \A s \in Assets : AssetRises(s)
  /\ \A a \in Accounts : AccountRises(a)
  /\ \A c \in Clients : ClientRises(c)
  /\ \A g \in Groups : GroupRises(g)

\* A revision number of an identity stands for one contents of its row, also
\* across deletion and cascades: this is what makes the comparison of revisions
\* in save, delete, rotate, begin and the refresh sufficient.
RevisionNamesContent == [][RevisionRises]_vars

\* The token that call k was authenticated with is not, or no longer, one of the client.
Withdrawn(k) ==
  LET c == call[k].client
  IN call[k].phase = "known" /\ ~(client[c].live /\ client[c].token = call[k].token)

StaysOut(k) == Withdrawn(k)' \/ (call'[k].phase = "done" /\ call'[k].ran = None)

\* Rotating a token or deleting a client is final for the calls that were authenticated
\* before: whatever administrators do to the client afterwards (save, enable, give a new
\* expiry, create one of the same identity), such a call is never let through.
RevocationWins == [][\A k \in Calls : Withdrawn(k) => StaysOut(k)]_vars

\* docs/plugins.md: an old authorization does not let new code through. The
\* artifact that executes an allowed call was submitted by an administrator.
ExecutedCodeConfirmed ==
  \A k \in Calls : call[k].ran # None =>
    \E g \in Groups : [group |-> g, code |-> call[k].ran] \in confirmedCode
=============================================================================
