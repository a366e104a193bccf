----------------------------- MODULE MCClients -----------------------------
(* The programs around the running system, each on its own small instance: the
   command line's operations, the portal's pages and the repository's own
   machinery. They share no state with each other, so a behaviour is of one of
   them, picked at the start, while the others stay where they begin. *)
EXTENDS CoreUpgrade, PluginLifecycle, InstanceLifecycle,
        BranchReaper, PortalSession, PortalViews, WorkflowEditor,
        PortalForms, ReleaseTrain, OwnershipGuard, ClosingKeywords, PluginRepository,
        MigrationGuard

VARIABLE scene   \* the program this behaviour is of

clientsVars == <<scene, upgradeVars, pluginVars, lifeVars, reaperVars, sessionPageVars,
                 viewVars, editorVars, formVars, releaseVars, guardVars, keywordVars, repositoryVars,
                 migrationVars>>

----------------------------------------------------------------------------
(* CoreUpgrade *)
\* Two releases. lib changes in the first of its places, old is dropped, logo is a
\* binary.
File(p, v) ==
  CASE p = "lib"  -> <<<<"a1", "b1">>, <<"a2", "b1">>>>[v]
    [] p = "old"  -> <<<<"c", "c">>, Absent>>[v]
    [] p = "logo" -> <<<<"d1", "d1">>, <<"d2", "d2">>>>[v]
MCPaths == {"lib", "old", "logo"}
\* logo is the instance's own, which has none, until release 2 takes it over.
MCManifest(v) == [templateOwned |-> {"all/"}, userOwned |-> IF v = 1 THEN {"all/logo/"} ELSE {}]
MCMatch == [x \in MCPaths \X {"all/", "all/logo/"} |->
              CASE x[2] = "all/" -> 4 [] x[1] = "logo" -> 9 [] OTHER -> -1]
\* A squash commit whose trailer is about one of the files it touched.
MCTrailers == {[touched |-> {"lib", "old"}, reason |-> {"old"}, grafted |-> FALSE]}
MCBasename == [p \in MCPaths |-> p]
Migration(n, slug) == [file |-> <<n, slug>>, rev |-> <<n>>,
                       down |-> IF n = "1" THEN Root ELSE <<"1">>,
                       body |-> <<slug, "first">>, from |-> Unmarked]
MCRelease == [v \in 1..2 |->
  [files |-> [p \in MCPaths |-> File(p, v)],
   manifest |-> MCManifest(v),
   migs  |-> SubSeq(<<Migration("1", "users"), Migration("2", "runs")>>, 1, v),
   seed  |-> v > 1]]
\* The template checkout is moved back to the first release.
MCCheckouts == {MCRelease[1]}
MCFirstTree ==
  [files |-> [MCRelease[1].files EXCEPT !["logo"] = Absent],
   migs  |-> {[Migration("1", "users") EXCEPT !.file = <<"7", "users">>]},
   seed |-> FALSE, version |-> 1, baseline |-> NoBaseline, fossil |-> 1, locked |-> TRUE]
MCOptions ==
  LET plain == [apply |-> TRUE, allowConflicts |-> FALSE, allowDirty |-> FALSE,
                acknowledge |-> TRUE, noPush |-> FALSE, reap |-> FALSE]
  IN  {[plain EXCEPT !.allowDirty = TRUE, !.noPush = TRUE],
       [plain EXCEPT !.allowConflicts = TRUE, !.reap = TRUE]}

(* PluginLifecycle: crm's second version drops everything but a column more, ads
   is of pages only. *)
Full(cols) == [terraform |-> TRUE, columns |-> cols, seed |-> TRUE, frontend |-> TRUE]
MCShips == [p \in {"crm", "ads"} |->
  IF p = "crm"
  THEN <<Full({"id"}), [terraform |-> FALSE, columns |-> {"id", "email"}, seed |-> FALSE, frontend |-> FALSE]>>
  ELSE <<[terraform |-> FALSE, columns |-> {}, seed |-> FALSE, frontend |-> TRUE]>>]

(* InstanceLifecycle *)
MCLineOrder == <<"dev", "main">>

(* PortalSession: bob is of a rank the instance declares a destination for. *)
MCRank == [p \in People |-> IF p = "ada" THEN "admin" ELSE "orgScoped"]
MCDeclared == [r \in Ranks |-> IF r = "orgScoped" THEN "sibling" ELSE ""]

(* PortalViews *)
MCGroup == [p \in Names |-> IF p = "crm" THEN "admin" ELSE "sales"]
MCGroups == [ada |-> {"admin"}, bob |-> {"admin", "sales"}]

(* ReleaseTrain *)
MCHand == {<<0, 2>>}

(* MigrationGuard: a file to be added, a statement, one of several lines. *)
MCFirstVersions == {NoFile, <<"t">>, <<"(", "u", ")">>}

(* ClosingKeywords *)
FirstDraft == CHOOSE d \in Drafts : TRUE

----------------------------------------------------------------------------
Scenes == {"upgrade", "plugin", "instance", "branches", "sign_in", "views",
           "editor", "forms", "release", "ownership", "keywords", "repository",
           "migrations"}

(* The state that can change; TLC tells states apart by it (VIEW), which is exact. *)
PlayedState ==
  CASE scene = "upgrade" -> upgradeVars
    [] scene = "plugin" -> pluginVars
    [] scene = "instance" -> lifeVars
    [] scene = "branches" -> reaperVars
    [] scene = "sign_in" -> sessionPageVars
    [] scene = "views" -> viewVars
    [] scene = "editor" -> editorVars
    [] scene = "forms" -> formVars
    [] scene = "release" -> releaseVars
    [] scene = "ownership" -> guardVars
    [] scene = "keywords" -> keywordVars
    [] scene = "repository" -> repositoryVars
    [] scene = "migrations" -> migrationVars
ClientsView == <<scene, PlayedState>>

(* A program that is not the one picked has one initial state. The last conjunct
   has TLC evaluate what the view leaves out while it is still on one thread. *)
ClientsInit ==
  /\ scene \in Scenes
  /\ UpgradeInit /\ PluginInit /\ InstanceInit /\ ReaperInit
  /\ SessionPageInit /\ ViewsInit /\ EditorInit /\ FormsInit
  /\ ReleaseInit /\ GuardInit /\ KeywordsInit /\ RepositoryInit
  /\ MigrationInit
  /\ scene = "plugin" \/ ~split
  /\ scene = "sign_in" \/ \A pool \in Pools : store[pool] = NoOne
  /\ scene = "editor" \/ \A id \in Workflows : stored[id] = NoWorkflow
  /\ scene = "forms" \/ page = "users"
  /\ scene = "keywords" \/ draft = FirstDraft
  /\ scene = "repository" \/ allowed
  /\ scene = "migrations" \/ migration = NoFile
  /\ clientsVars = clientsVars

UpgradeScene ==
  /\ scene = "upgrade" /\ UpgradeNext
  /\ UNCHANGED <<scene, pluginVars, lifeVars, reaperVars, sessionPageVars, viewVars,
                 editorVars, formVars, releaseVars, guardVars, keywordVars, repositoryVars,
                 migrationVars>>
PluginScene ==
  /\ scene = "plugin" /\ PluginNext
  /\ UNCHANGED <<scene, upgradeVars, lifeVars, reaperVars, sessionPageVars, viewVars,
                 editorVars, formVars, releaseVars, guardVars, keywordVars, repositoryVars,
                 migrationVars>>
InstanceScene ==
  /\ scene = "instance" /\ InstanceNext
  /\ UNCHANGED <<scene, upgradeVars, pluginVars, reaperVars, sessionPageVars, viewVars,
                 editorVars, formVars, releaseVars, guardVars, keywordVars, repositoryVars,
                 migrationVars>>
ReaperScene ==
  /\ scene = "branches" /\ ReaperNext
  /\ UNCHANGED <<scene, upgradeVars, pluginVars, lifeVars, sessionPageVars, viewVars,
                 editorVars, formVars, releaseVars, guardVars, keywordVars, repositoryVars,
                 migrationVars>>
SessionPageScene ==
  /\ scene = "sign_in" /\ SessionPageNext
  /\ UNCHANGED <<scene, upgradeVars, pluginVars, lifeVars, reaperVars, viewVars,
                 editorVars, formVars, releaseVars, guardVars, keywordVars, repositoryVars,
                 migrationVars>>
ViewsScene ==
  /\ scene = "views" /\ ViewsNext
  /\ UNCHANGED <<scene, upgradeVars, pluginVars, lifeVars, reaperVars, sessionPageVars,
                 editorVars, formVars, releaseVars, guardVars, keywordVars, repositoryVars,
                 migrationVars>>
EditorScene ==
  /\ scene = "editor" /\ EditorNext
  /\ UNCHANGED <<scene, upgradeVars, pluginVars, lifeVars, reaperVars, sessionPageVars,
                 viewVars, formVars, releaseVars, guardVars, keywordVars, repositoryVars,
                 migrationVars>>
FormsScene ==
  /\ scene = "forms" /\ FormsNext
  /\ UNCHANGED <<scene, upgradeVars, pluginVars, lifeVars, reaperVars, sessionPageVars,
                 viewVars, editorVars, releaseVars, guardVars, keywordVars, repositoryVars,
                 migrationVars>>
ReleaseScene ==
  /\ scene = "release" /\ ReleaseNext
  /\ UNCHANGED <<scene, upgradeVars, pluginVars, lifeVars, reaperVars, sessionPageVars,
                 viewVars, editorVars, formVars, guardVars, keywordVars, repositoryVars,
                 migrationVars>>
GuardScene ==
  /\ scene = "ownership" /\ GuardNext
  /\ UNCHANGED <<scene, upgradeVars, pluginVars, lifeVars, reaperVars, sessionPageVars,
                 viewVars, editorVars, formVars, releaseVars, keywordVars, repositoryVars,
                 migrationVars>>
KeywordsScene ==
  /\ scene = "keywords" /\ KeywordsNext
  /\ UNCHANGED <<scene, upgradeVars, pluginVars, lifeVars, reaperVars, sessionPageVars,
                 viewVars, editorVars, formVars, releaseVars, guardVars, repositoryVars,
                 migrationVars>>
RepositoryScene ==
  /\ scene = "repository" /\ RepositoryNext
  /\ UNCHANGED <<scene, upgradeVars, pluginVars, lifeVars, reaperVars, sessionPageVars,
                 viewVars, editorVars, formVars, releaseVars, guardVars, keywordVars,
                 migrationVars>>

MigrationScene ==
  /\ scene = "migrations" /\ MigrationNext
  /\ UNCHANGED <<scene, upgradeVars, pluginVars, lifeVars, reaperVars, sessionPageVars, viewVars,
                 editorVars, formVars, releaseVars, guardVars, keywordVars, repositoryVars>>

ClientsNext ==
  \/ UpgradeScene
  \/ PluginScene
  \/ InstanceScene
  \/ ReaperScene
  \/ SessionPageScene
  \/ ViewsScene
  \/ EditorScene
  \/ FormsScene
  \/ ReleaseScene
  \/ GuardScene
  \/ KeywordsScene
  \/ RepositoryScene
  \/ MigrationScene

ClientsSpec == ClientsInit /\ [][ClientsNext]_clientsVars
=============================================================================
