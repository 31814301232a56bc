------------------------------- MODULE Routes --------------------------------
(***************************************************************************)
(* Where a link of the application leads.  The pages name each other by a  *)
(* page, an id and a tab; the navigate function of the user's area makes   *)
(* an address of it (lib/navigate.ts); the area's catch-all route chooses  *)
(* the component that an address is drawn by (app/fab, app/lab,            *)
(* app/manager); and the area's layout marks an item of its menu.          *)
(*                                                                         *)
(* An address is its segments and the tab of its query.  Left out: ids     *)
(* that are no numbers, and who is let into an area (see Shell).           *)
(***************************************************************************)
EXTENDS Naturals, Sequences

Link(page) == [page |-> page, id |-> "none", tab |-> "none"]
LinkTo(page, id) == [Link(page) EXCEPT !.id = id]
LinkTab(page, tab) == [Link(page) EXCEPT !.tab = tab]

Url(path) == [path |-> path, tab |-> "none"]

-----------------------------------------------------------------------------
\* From links to addresses.

FabUrl(l) ==
    CASE l.page = "fab_requests"   -> [Url(<<"fab", "requests">>) EXCEPT !.tab = l.tab]
      [] l.page = "fab_drafts"     -> Url(<<"fab", "drafts">>)
      [] l.page = "fab_new"        -> Url(<<"fab", "requests", "new">>)
      [] l.page = "fab_draft_edit" -> Url(<<"fab", "drafts", l.id>>)
      [] l.page = "fab_request"    -> Url(<<"fab", "requests", l.id>>)
      [] OTHER                     -> Url(<<"fab", "dashboard">>)

\* The laboratory's pages lie below /lab, and for a manager below /manager/lab.
LabUrl(l, base) ==
    LET to(path) == Url(base \o path) IN
    CASE l.page = "lab_samples"         -> [to(<<"samples">>) EXCEPT !.tab = l.tab]
      [] l.page = "lab_wafer"           -> to(<<"samples", l.id>>)
      [] l.page = "lab_wip"             -> to(<<"wips">>)
      [] l.page = "lab_wip_detail"      -> to(<<"wips", l.id>>)
      [] l.page = "lab_dispatches"      -> [to(<<"dispatches">>) EXCEPT !.tab = l.tab]
      [] l.page = "lab_dispatch_detail" -> to(<<"dispatches", l.id>>)
      [] l.page = "lab_equipment"       -> to(<<"equipment">>)
      [] OTHER                          -> to(<<"dashboard">>)

LabPageNames ==
    {"lab_dashboard", "lab_samples", "lab_wafer", "lab_wip", "lab_wip_detail",
     "lab_dispatches", "lab_dispatch_detail", "lab_equipment"}

ManagersOwnUrl(l) ==
    CASE l.page = "mgr_all_requests" -> Url(<<"manager", "requests">>)
      [] l.page = "mgr_request"      -> Url(<<"manager", "requests", l.id>>)
      [] l.page = "mgr_recipes"      -> Url(<<"manager", "recipes">>)
      [] l.page = "mgr_reports"      -> Url(<<"manager", "reports">>)
      [] OTHER                       -> Url(<<"manager", "dashboard">>)

\* Mutated form: the laboratory's pages are taken for those of its members.
MgrUrlOfMembers(l) ==
    IF l.page \in LabPageNames THEN LabUrl(l, <<"lab">>) ELSE ManagersOwnUrl(l)

MgrUrl(l) ==
    IF l.page \in LabPageNames THEN LabUrl(l, <<"manager", "lab">>)
    ELSE ManagersOwnUrl(l)

\* The address that link l of page "from" leads to, for a user of the area.
Navigate(area, from, l) ==
    CASE area = "fab" -> FabUrl(l)
      [] area = "lab" -> LabUrl(l, <<"lab">>)
      [] area = "manager" ->
            IF from \in LabPageNames THEN LabUrl(l, <<"manager", "lab">>) ELSE MgrUrl(l)

-----------------------------------------------------------------------------
\* From addresses to what is drawn: the same form as a link.

Segment(path, i) == IF i <= Len(path) THEN path[i] ELSE "none"

Tab(tab, default) == IF tab = "none" THEN default ELSE tab

\* A list of rows of its own, or the row with the id of the next segment.
ListOrRow(list, row, id) == IF id = "none" THEN list ELSE LinkTo(row, id)

FabRoute(path, tab) ==
    LET id == Segment(path, 2) IN
    CASE Segment(path, 1) = "requests" ->
            IF id = "new" THEN Link("fab_new")
            ELSE ListOrRow(LinkTab("fab_requests", Tab(tab, "all")), "fab_request", id)
      [] Segment(path, 1) = "drafts" ->
            ListOrRow(Link("fab_drafts"), "fab_draft_edit", id)
      [] OTHER -> Link("fab_dashboard")

LabRoute(path, tab) ==
    LET id == Segment(path, 2) IN
    CASE Segment(path, 1) = "samples" ->
            ListOrRow(LinkTab("lab_samples", Tab(tab, "all")), "lab_wafer", id)
      [] Segment(path, 1) = "wips" -> ListOrRow(Link("lab_wip"), "lab_wip_detail", id)
      [] Segment(path, 1) = "dispatches" ->
            ListOrRow(LinkTab("lab_dispatches", Tab(tab, "active")),
                      "lab_dispatch_detail", id)
      [] Segment(path, 1) = "equipment" -> Link("lab_equipment")
      [] OTHER -> Link("lab_dashboard")

ManagerRoute(path, tab) ==
    CASE Segment(path, 1) = "lab" -> LabRoute(Tail(path), tab)
      [] Segment(path, 1) = "requests" ->
            ListOrRow(Link("mgr_all_requests"), "mgr_request", Segment(path, 2))
      [] Segment(path, 1) = "recipes" -> Link("mgr_recipes")
      [] Segment(path, 1) = "reports" -> Link("mgr_reports")
      [] OTHER -> Link("mgr_dashboard")

Drawn(url) ==
    CASE url.path[1] = "fab"     -> FabRoute(Tail(url.path), url.tab)
      [] url.path[1] = "lab"     -> LabRoute(Tail(url.path), url.tab)
      [] url.path[1] = "manager" -> ManagerRoute(Tail(url.path), url.tab)

-----------------------------------------------------------------------------
\* The menus, and the item that is marked.

FabMenu == {"fab_dashboard", "fab_requests", "fab_drafts", "fab_new"}
LabMenu == {"lab_dashboard", "lab_samples", "lab_wip", "lab_dispatches",
            "lab_equipment"}
ManagerMenu ==
    {"mgr_dashboard", "mgr_all_requests", "mgr_recipes", "mgr_reports"}
        \cup (LabMenu \ {"lab_dashboard"})

Menu(area) ==
    CASE area = "fab" -> FabMenu [] area = "lab" -> LabMenu
      [] area = "manager" -> ManagerMenu

PathToFabPage(path) ==
    CASE Segment(path, 1) = "requests" ->
            IF Segment(path, 2) = "new" THEN "fab_new" ELSE "fab_requests"
      [] Segment(path, 1) = "drafts" -> "fab_drafts"
      [] OTHER -> "fab_dashboard"

PathToLabPage(path) ==
    CASE Segment(path, 1) = "samples"    -> "lab_samples"
      [] Segment(path, 1) = "wips"       -> "lab_wip"
      [] Segment(path, 1) = "dispatches" -> "lab_dispatches"
      [] Segment(path, 1) = "equipment"  -> "lab_equipment"
      [] OTHER -> "lab_dashboard"

PathToMgrPage(path) ==
    CASE Segment(path, 1) = "requests" -> "mgr_all_requests"
      [] Segment(path, 1) = "recipes"  -> "mgr_recipes"
      [] Segment(path, 1) = "reports"  -> "mgr_reports"
      [] Segment(path, 1) = "lab"      -> PathToLabPage(Tail(path))
      [] OTHER -> "mgr_dashboard"

Marked(url) ==
    CASE url.path[1] = "fab"     -> PathToFabPage(Tail(url.path))
      [] url.path[1] = "lab"     -> PathToLabPage(Tail(url.path))
      [] url.path[1] = "manager" -> PathToMgrPage(Tail(url.path))
=============================================================================
