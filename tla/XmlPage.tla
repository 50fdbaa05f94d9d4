------------------------------- MODULE XmlPage -------------------------------
(***************************************************************************)
(* /xml: the invoices ("notas") another service tracks, and the companies  *)
(* they belong to.  The service itself is outside; the model keeps what    *)
(* the page asks it for: the filters, which the page mirrors in its URL    *)
(* and saves by name in localStorage, and the company it drilled into.     *)
(* One filter stands for each kind: doc for the selects, numero for the    *)
(* four text fields, from for the two dates.                               *)
(***************************************************************************)
EXTENDS Page

CONSTANT XmlActs   \* bounds the model: what the user does

ASSUME XmlBounds == XmlActs \in Nat

Defaults == [status |-> "all", doc |-> "all", numero |-> "", dateField |-> "imported",
             from |-> "", sem |-> "", codigo |-> "", filial |-> ""]

Company  == {"sem", "codigo", "filial"}
Explicit == DOMAIN Defaults \ Company

Offered == [status |-> {"all", "synced"}, doc |-> {"all", "NFE"}, numero |-> {"", "7"},
            dateField |-> {"imported", "emissao"}, from |-> {"", "day"}]

Health == {"all", "ok", "warn", "crit"}
NewTab == [search |-> FALSE, doc |-> "all", dateField |-> "imported", from |-> "", health |-> "all"]

(* A saved query, and as a history what was asked for when it was saved.   *)
(* One is left from a version without the field numero.                    *)
NotasRequest(f) == [f EXCEPT !.dateField = IF f.from = "" THEN "" ELSE @]

NoCompany(f) == [f EXCEPT !.sem = "", !.codigo = "", !.filial = ""]

OldQuery == [name |-> "old", filters |-> [k \in Explicit \ {"numero"} |->
                                            IF k = "status" THEN "synced" ELSE Defaults[k]],
             shown |-> NotasRequest([Defaults EXCEPT !.status = "synced"])]

XmlInit ==
    /\ ui = [page |-> "xml", view |-> "notas", filters |-> Defaults, offset |-> 0,
             tab |-> NewTab, items |-> {OldQuery}]
    /\ srv = [saved |-> {OldQuery}]
    /\ left = Bounds(XmlActs)

OnXml == ui.page = "xml"
OnNotas == OnXml /\ ui.view = "notas"

XmlAct(u) == ui' = u /\ Act /\ UNCHANGED srv

-----------------------------------------------------------------------------
(* The URL has what differs from the defaults, and the date's field only   *)
(* with a date.                                                            *)

InUrl(f, k) == IF k = "dateField" THEN f.from # "" ELSE f[k] # Defaults[k]

(* Mutant: the field goes with its own default. *)
UrlWithoutDateField(u) ==
    [view |-> u.view, offset |-> u.offset,
     filters |-> [k \in {j \in DOMAIN Defaults \ {"dateField"} : InUrl(u.filters, j)}
                    |-> u.filters[k]]]

Url(u) == [view |-> u.view, offset |-> u.offset,
           filters |-> [k \in {j \in DOMAIN Defaults : InUrl(u.filters, j)} |-> u.filters[k]]]

(* What of a partial record of filters is missing has its default. *)
Completed(filters) ==
    [k \in DOMAIN Defaults |-> IF k \in DOMAIN filters THEN filters[k] ELSE Defaults[k]]

(* The page as it opens at a URL, which reads the saved queries anew. *)
OpenedAt(url) ==
    [page |-> "xml", view |-> url.view, filters |-> Completed(url.filters),
     offset |-> url.offset, tab |-> NewTab, items |-> srv.saved]

Reload == OnXml /\ XmlAct(OpenedAt(Url(ui)))

-----------------------------------------------------------------------------
(* The tab of the notas. *)

SetFilter(k, v) ==
    /\ OnNotas /\ v # ui.filters[k]
    /\ XmlAct([ui EXCEPT !.filters[k] = v, !.offset = 0])

(* Mutant: the position stays. *)
ClearEmpresaOnly(u) == [u EXCEPT !.filters = NoCompany(@)]

ClearEmpresaFilter(u) == [u EXCEPT !.filters = NoCompany(@), !.offset = 0]

ClickClearEmpresa ==
    /\ OnNotas /\ ui.filters # NoCompany(ui.filters)
    /\ XmlAct(ClearEmpresaFilter(ui))

(* "Limpar filtros" leaves the date's field as it is. *)
ClearAllFilters ==
    /\ OnNotas /\ [ui.filters EXCEPT !.dateField = "imported"] # Defaults
    /\ XmlAct([ui EXCEPT !.filters = [Defaults EXCEPT !.dateField = ui.filters.dateField],
                         !.offset = 0])

(* Mutant: a branch of another company stays. *)
PickEmpresaOnly(codigo) ==
    /\ OnNotas
    /\ XmlAct([ui EXCEPT !.filters.sem = "", !.filters.codigo = codigo, !.offset = 0])

(* The company's code and name in a row of the list. *)
PickEmpresa(codigo) ==
    /\ OnNotas
    /\ XmlAct([ui EXCEPT !.filters.sem = "", !.filters.filial = "", !.filters.codigo = codigo,
                         !.offset = 0])

(* Next looks at a total that may be of an earlier answer. *)
ProximaPagina ==
    /\ OnNotas /\ ui.offset < 2
    /\ XmlAct([ui EXCEPT !.offset = @ + 1])

PaginaAnterior ==
    /\ OnNotas /\ ui.offset > 0
    /\ XmlAct([ui EXCEPT !.offset = @ - 1])

-----------------------------------------------------------------------------
(* Saved queries.  The menu reads localStorage when it is mounted, with    *)
(* the tab it is on, and writes its own list back.                         *)

Persist(items) ==
    /\ ui' = [ui EXCEPT !.items = items]
    /\ srv' = [srv EXCEPT !.saved = items]
    /\ Act

Save(name) ==
    /\ OnNotas
    /\ Persist({p \in ui.items : p.name # name} \cup
               {[name |-> name, filters |-> [k \in Explicit |-> ui.filters[k]],
                 shown |-> NotasRequest(NoCompany(ui.filters))]})

Forget(p) == OnNotas /\ Persist(ui.items \ {p})

(* Mutant: what the query does not know stays as it is. *)
ApplyPresetOver(p) ==
    /\ OnNotas
    /\ XmlAct(ClearEmpresaFilter([ui EXCEPT !.filters =
                [k \in DOMAIN @ |-> IF k \in DOMAIN p.filters THEN p.filters[k] ELSE @[k]]]))

ApplyPreset(p) ==
    /\ OnNotas
    /\ XmlAct(ClearEmpresaFilter([ui EXCEPT !.filters = Completed(p.filters)]))

(* The same menu in another tab of the browser. *)
ForgetElsewhere ==
    /\ OnXml
    /\ \E p \in srv.saved : srv' = [srv EXCEPT !.saved = @ \ {p}]
    /\ Change /\ UNCHANGED ui

-----------------------------------------------------------------------------
(* The companies: a row for each branch, and one for the notas without a   *)
(* company.  A company with several branches has a row of their sum too,   *)
(* which has no branch and unfolds into theirs.  Which of the rows the     *)
(* filters of the tab leave depends on the service's numbers: any.         *)

EmpresaRow(codigo, filial) == [codigo |-> codigo, filial |-> filial]

EmpresaRows ==
    {EmpresaRow("1", "1a"), EmpresaRow("1", "1b"), EmpresaRow("2", "2a"), EmpresaRow("", "")}

Codigos == {r.codigo : r \in EmpresaRows} \ {""}

Sums == {EmpresaRow(r.codigo, "") : r \in {e \in EmpresaRows :
            \E other \in EmpresaRows \ {e} : other.codigo = e.codigo}}

SetTab(tab) ==
    /\ OnXml /\ ui.view = "empresas" /\ tab # ui.tab
    /\ XmlAct([ui EXCEPT !.tab = tab])

ChangeTab ==
    /\ OnXml
    /\ \/ SetTab([ui.tab EXCEPT !.search = ~@])
       \/ \E h \in Health : SetTab([ui.tab EXCEPT !.health = h])
       \/ \E k \in {"doc", "dateField", "from"} :
            \E v \in Offered[k] : SetTab([ui.tab EXCEPT ![k] = v])

-----------------------------------------------------------------------------
(* From one view to another.  The tab of the companies is mounted anew     *)
(* each time.                                                              *)

Mounted(u, view) ==
    [u EXCEPT !.view = view,
              !.tab = IF view = "empresas" /\ u.view # view THEN NewTab ELSE @,
              !.items = IF view = "notas" /\ u.view # view THEN srv.saved ELSE @]

SwitchView(view) ==
    /\ OnXml
    /\ XmlAct(Mounted(IF view = "notas" THEN ui ELSE ClearEmpresaFilter(ui), view))

(* A bar of the panel. *)
PickStatus(status) ==
    /\ OnXml /\ ui.view = "painel"
    /\ XmlAct([Mounted(ClearEmpresaFilter(ui), "notas") EXCEPT !.filters.status = status])

Drilled(f, row) ==
    [f EXCEPT !.status = "all", !.sem = IF row.codigo = "" THEN "true" ELSE "",
              !.codigo = row.codigo, !.filial = row.filial]

(* From the companies the filters of their tab come along; the panel, with *)
(* rows of companies that have notas under way, has none.                  *)
DrillFromEmpresas(row) ==
    /\ OnXml /\ ui.view = "empresas"
    /\ XmlAct([Mounted(ui, "notas") EXCEPT
                 !.filters = [Drilled(@, row) EXCEPT !.doc = ui.tab.doc, !.from = ui.tab.from,
                                                     !.dateField = ui.tab.dateField],
                 !.offset = 0])

DrillFromPainel(row) ==
    /\ OnXml /\ ui.view = "painel"
    /\ XmlAct([Mounted(ui, "notas") EXCEPT !.filters = Drilled(@, row), !.offset = 0])

InPainel == {r \in EmpresaRows : r.codigo # ""}

-----------------------------------------------------------------------------
XmlNext ==
    \/ Reload
    \/ \E k \in Explicit : \E v \in Offered[k] : SetFilter(k, v)
    \/ ClickClearEmpresa \/ ClearAllFilters
    \/ \E c \in Codigos : PickEmpresa(c)
    \/ ProximaPagina \/ PaginaAnterior
    \/ Save("mine")
    \/ OnXml /\ \E p \in ui.items : Forget(p)
    \/ OnXml /\ \E p \in ui.items : ApplyPreset(p)
    \/ ForgetElsewhere
    \/ ChangeTab
    \/ \E view \in {"notas", "empresas", "painel"} : SwitchView(view)
    \/ \E s \in Offered.status : PickStatus(s)
    \/ OnXml /\ \E row \in EmpresaRows \cup Sums : DrillFromEmpresas(row)
    \/ \E row \in InPainel : DrillFromPainel(row)

XmlSpec == XmlInit /\ [][XmlNext]_webVars

-----------------------------------------------------------------------------
(* Properties *)

Asked(u) == [request |-> NotasRequest(u.filters), offset |-> u.offset, view |-> u.view]

(* Whoever opens the URL of the page, or loads the page again, gets the    *)
(* same view, and the notas of the same filters from the same position.    *)
LinkKeepsNotas == OnXml => Asked(OpenedAt(Url(ui))) = Asked(ui)

(* The URL mirrors the filters and can be shared, says its comment.  The   *)
(* list of companies has filters of its own, which are not in it.          *)
LinkShowsCompanies ==
    OnXml /\ ui.view = "empresas" => OpenedAt(Url(ui)).tab = ui.tab

(* A saved query asks for what was on the screen when it was saved, from   *)
(* its first page and for all companies, whatever the filters are by then  *)
(* and whichever version saved it.                                         *)
PresetReproduces ==
    [][OnXml => \A p \in ui.items :
         ApplyPreset(p) => NotasRequest(ui'.filters) = p.shown /\ ui'.offset = 0]_webVars

(* A list with other filters starts with its first page. *)
FilterStartsAtTop ==
    [][OnXml /\ NotasRequest(ui'.filters) # NotasRequest(ui.filters) => ui'.offset = 0]_webVars

(* The filter by branch is by a branch of the company filtered by, and a   *)
(* company and none are never asked for together.                          *)
FilialOfEmpresa ==
    OnXml => /\ ui.filters.filial # "" =>
                  \E r \in EmpresaRows :
                      r.codigo = ui.filters.codigo /\ r.filial = ui.filters.filial
             /\ ui.filters.sem = "" \/ ui.filters.codigo = ""

(* A row of the companies opens the notas of that row, with the filters    *)
(* that were active among the companies, "pra manter a consistência": what *)
(* was once filtered by in the list of the notas is not asked for with it. *)
DrillShowsRow ==
    [][OnXml => \A row \in EmpresaRows \cup Sums :
         DrillFromEmpresas(row) =>
           NotasRequest(ui'.filters) =
             NotasRequest([Drilled(Defaults, row) EXCEPT !.doc = ui.tab.doc, !.from = ui.tab.from,
                                                         !.dateField = ui.tab.dateField])]_webVars

=============================================================================
