------------------------------ MODULE PortalViews ------------------------------
(***************************************************************************)
(* The portal's admin pages that only read: the navigation, the installed- *)
(* plugin and registry-plugin pages, the lists, the endpoint details, and  *)
(* the agent runs (portal/src/components, app/admin/agent-runs, plugins,   *)
(* marketplace, endpoints).                                                *)
(*                                                                         *)
(* A page asks in an effect or a handler; the answers come back in any     *)
(* order, or fail, while the person asks something else.                   *)
(***************************************************************************)
EXTENDS Integers, Sequences, FiniteSets

CONSTANTS
  Names,               \* plugins
  Group,               \* plugin -> the group its admin panel requires, "" if it has none
  Groups,              \* session -> the groups its ID token carries
  Filters,             \* what the agent-run list is filtered by; "all" is none
  Endpoints,           \* endpoints
  PageSize,
  MaxAsks, MaxSite     \* bounds: requests, changes of the deployment

VARIABLES site, ui, asks, asked

viewVars == <<site, ui, asks, asked>>

NothingAsked == [status |-> "loading", of |-> "", from |-> "", view |-> "", name |-> ""]

-----------------------------------------------------------------------------
(* What the answers are made of *)

\* resolvePluginNavLinks: a panel whose group the caller has. One with no group is
\* not linked.
ResolvePluginNavLinks(plugins, groups) == {p \in plugins : Group[p] # "" /\ Group[p] \in groups}

\* fetchActivePlugins and fetchPluginBySlug: the one leaves disabled plugins out, the
\* other finds them.
FetchActivePlugins == {p \in Names : site.registry[p] = "active"}
FetchPluginBySlug(p) == site.registry[p] # "absent"

FetchDetail(view, p) ==
  IF (IF view = "installed" THEN p \in site.installed ELSE FetchPluginBySlug(p))
  THEN "found" ELSE "not-found"

\* The newest runs first: limit rows from offset on.
FetchAgentRuns(f, offset, limit) ==
  LET left == site.runs[f] - offset
      n == IF left < 0 THEN 0 ELSE IF left < limit THEN left ELSE limit
  IN  [i \in 1..n |-> <<f, site.runs[f] - offset - i + 1>>]

FirstRows(rows) == SubSeq(rows, 1, IF Len(rows) < PageSize THEN Len(rows) ELSE PageSize)

-----------------------------------------------------------------------------
(* Asking *)

Ask(kind, of, page) ==
  /\ asked < MaxAsks
  /\ asked' = asked + 1
  /\ asks' = asks \cup {[kind |-> kind, of |-> of, rows |-> IF kind = "more" THEN ui.rows ELSE <<>>, n |-> asked + 1]}
  /\ ui' = page
  /\ UNCHANGED site

\* The effects of the two detail pages: each question cancels the one before it.
OpenDetail ==
  \E view \in {"installed", "registry"}, p \in Names :
    /\ <<view, p>> # <<ui.detail.view, ui.detail.name>>
    /\ Ask(view, p, [ui EXCEPT !.detail = [NothingAsked EXCEPT !.view = view, !.name = p], !.detailAsk = asked + 1])

\* Nav's effect, for every new session; without one there is nothing to ask.
NavSession ==
  \E s \in DOMAIN Groups : /\ ui.session # s
                     /\ Ask("nav", s, [ui EXCEPT !.session = s, !.navAsk = asked + 1])
NavSessionEnds ==
  /\ ui.session # "nobody"
  /\ ui' = [ui EXCEPT !.session = "nobody", !.links = {}, !.linksOf = "nobody", !.navAsk = 0]
  /\ UNCHANGED <<site, asks, asked>>

\* The lists: installed plugins, the registry, sibling apps, endpoints, groups.
LoadList ==
  \E list \in {"plugins", "registry list"} :
    /\ ui.lists[list] = "loading" /\ ~ \E c \in asks : c.kind = list
    /\ Ask(list, "", ui)

\* reload(filters), by opening the page or applying the filters.
Reload ==
  \E f \in Filters :
    Ask("runs", f, [ui EXCEPT !.rows = <<>>, !.runs = "loading", !.hasMore = FALSE, !.applied = f])

\* loadMore: behind the rows this render shows, and in front of them in the closure.
LoadMore ==
  /\ ui.runs = "loaded" /\ ui.hasMore /\ ~ui.loadingMore
  /\ Ask("more", ui.applied, [ui EXCEPT !.loadingMore = TRUE])

\* toggleExpand: a route's details are asked for once, whatever came of it.
ToggleExpand ==
  \E r \in Endpoints :
    IF ui.expanded = r
    THEN ui' = [ui EXCEPT !.expanded = ""] /\ UNCHANGED <<site, asks, asked>>
    ELSE IF ui.details[r] # "none"
    THEN ui' = [ui EXCEPT !.expanded = r] /\ UNCHANGED <<site, asks, asked>>
    ELSE Ask("endpoint", r, [ui EXCEPT !.expanded = r, !.details[r] = "loading"])

\* A run's own page: an earlier run's answer is not cancelled.
OpenRun == \E id \in {"run 1", "run 2"} : /\ ui.run.id # id
                            /\ Ask("run", id, [ui EXCEPT !.run.id = id])

-----------------------------------------------------------------------------
(* Answers *)

\* Mutant: every answer is applied.
NeverCancelled(c) == TRUE

\* The `cancelled' flag of an effect that has been run again, or cleaned up.
NotCancelled(c) == IF c.kind = "nav" THEN c.n = ui.navAsk ELSE c.n = ui.detailAsk

Answer(c, page) == asks' = asks \ {c} /\ ui' = page /\ UNCHANGED <<site, asked>>

DetailAnswers ==
  \E c \in asks :
    /\ c.kind \in {"installed", "registry"}
    /\ \E status \in {FetchDetail(c.kind, c.of), "error"} :
         Answer(c, IF NotCancelled(c) THEN [ui EXCEPT !.detail.status = status, !.detail.of = c.of,
                                             !.detail.from = c.kind]
                   ELSE ui)

NavAnswers ==
  \E c \in asks :
    /\ c.kind = "nav"
    /\ \E links \in {ResolvePluginNavLinks(site.installed, Groups[c.of]), {}} :
         Answer(c, IF NotCancelled(c) THEN [ui EXCEPT !.links = links, !.linksOf = c.of] ELSE ui)

ListAnswers ==
  \E c \in asks :
    /\ c.kind \in DOMAIN ui.lists
    /\ \E status \in {"loaded", "error"} : Answer(c, [ui EXCEPT !.lists[c.kind] = status])

\* The rows and the costs together, or neither.
ReloadAnswers ==
  \E c \in asks :
    /\ c.kind = "runs"
    /\ LET got == FetchAgentRuns(c.of, 0, PageSize + 1)
       IN  \/ Answer(c, [ui EXCEPT !.rows = FirstRows(got), !.hasMore = Len(got) > PageSize,
                                   !.runs = "loaded", !.costsOf = c.of, !.error = FALSE])
           \/ Answer(c, [ui EXCEPT !.error = TRUE])

MoreAnswers ==
  \E c \in asks :
    /\ c.kind = "more"
    /\ LET got == FetchAgentRuns(c.of, Len(c.rows), PageSize + 1)
           page == [ui EXCEPT !.loadingMore = FALSE]
       IN  \/ Answer(c, [page EXCEPT !.rows = c.rows \o FirstRows(got), !.runs = "loaded",
                                     !.hasMore = Len(got) > PageSize, !.error = FALSE])
           \/ Answer(c, [page EXCEPT !.error = TRUE])

RunAnswers ==
  \E c \in asks :
    /\ c.kind = "run"
    /\ \/ Answer(c, [ui EXCEPT !.run.shown = c.of, !.run.error = FALSE])
       \/ Answer(c, [ui EXCEPT !.run.error = TRUE])

EndpointAnswers ==
  \E c \in asks :
    /\ c.kind = "endpoint"
    /\ \E status \in {"loaded", "error"} : Answer(c, [ui EXCEPT !.details[c.of] = status])

-----------------------------------------------------------------------------
(* The deployment changes *)

SiteChanges ==
  /\ site.changes < MaxSite
  /\ \/ \E p \in Names : site' = [site EXCEPT !.installed = IF p \in @ THEN @ \ {p} ELSE @ \cup {p},
                                              !.changes = @ + 1]
     \/ \E p \in Names, s \in {"active", "disabled", "absent"} :
          site' = [site EXCEPT !.registry[p] = s, !.changes = @ + 1]
     \/ site' = [site EXCEPT !.runs = [f \in Filters |-> @[f] + 1], !.changes = @ + 1]
  /\ UNCHANGED <<ui, asks, asked>>

-----------------------------------------------------------------------------
ViewsInit ==
  /\ site = [installed |-> Names, registry |-> [p \in Names |-> "active"],
             runs |-> [f \in Filters |-> PageSize + 1], changes |-> 0]
  /\ ui = [session |-> "nobody", links |-> {}, linksOf |-> "nobody", navAsk |-> 0,
           detail |-> NothingAsked, detailAsk |-> 0,
           lists |-> [l \in {"plugins", "registry list"} |-> "loading"],
           rows |-> <<>>, runs |-> "loading", applied |-> "all", costsOf |-> "all",
           hasMore |-> FALSE, loadingMore |-> FALSE, error |-> FALSE,
           run |-> [id |-> "", shown |-> "", error |-> FALSE], expanded |-> "", details |-> [r \in Endpoints |-> "none"]]
  /\ asks = {} /\ asked = 0

ViewsNext ==
  \/ OpenDetail \/ NavSession \/ NavSessionEnds \/ LoadList \/ Reload \/ LoadMore \/ OpenRun
  \/ ToggleExpand
  \/ DetailAnswers \/ NavAnswers \/ ListAnswers \/ ReloadAnswers \/ MoreAnswers \/ RunAnswers
  \/ EndpointAnswers
  \/ SiteChanges

ViewsSpec == ViewsInit /\ [][ViewsNext]_viewVars

-----------------------------------------------------------------------------
(* What a page may never show *)

\* However late an answer is, a plugin's page shows what was found out about the plugin
\* in its address, from the place its address names, and the navigation no panel of
\* another session's, unless it is still waiting for this session's.
ShowsWhatWasAsked ==
  /\ ui.detail.status # "loading" => <<ui.detail.from, ui.detail.of>> = <<ui.detail.view, ui.detail.name>>
  /\ ui.linksOf # "nobody" /\ ui.links # {} =>
       ui.linksOf = ui.session \/ \E c \in asks : c.kind = "nav" /\ c.of = ui.session
================================================================================
