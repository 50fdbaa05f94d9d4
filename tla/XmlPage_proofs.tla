---------------------------- MODULE XmlPage_proofs ----------------------------
(***************************************************************************)
(* What XmlPage keeps: its links, its saved queries and its filter by      *)
(* company, and what its cards count, for any length of a visit.           *)
(***************************************************************************)
EXTENDS Pages_proofs

(* The filters of the list, and those of the tab of the companies. *)
XmlFilters ==
    [status : {"all", "synced"}, doc : {"all", "NFE"}, numero : {"", "7"},
     dateField : {"imported", "emissao"}, from : {"", "day"}, sem : {"", "true"},
     codigo : {"", "1", "2"}, filial : {"", "1a", "1b", "2a"}]

XmlTabs == [search : BOOLEAN, doc : {"all", "NFE"}, dateField : {"imported", "emissao"},
            from : {"", "day"}, health : Health]

LEMMA FilterKeys ==
    /\ DOMAIN Defaults = {"status", "doc", "numero", "dateField", "from", "sem", "codigo", "filial"}
    /\ Explicit = {"status", "doc", "numero", "dateField", "from"}
    /\ Defaults \in XmlFilters
BY DEF Defaults, Explicit, Company, XmlFilters

LEMMA FilterSet ==
    ASSUME NEW f \in XmlFilters, NEW k \in Explicit, NEW v \in Offered[k]
    PROVE  [f EXCEPT ![k] = v] \in XmlFilters
<1>1. k \in {"status", "doc", "numero", "dateField", "from"}
  BY FilterKeys
<1>2. CASE k = "status"
  BY <1>2 DEF Offered, XmlFilters
<1>3. CASE k = "doc"
  BY <1>3 DEF Offered, XmlFilters
<1>4. CASE k = "numero"
  BY <1>4 DEF Offered, XmlFilters
<1>5. CASE k = "dateField"
  BY <1>5 DEF Offered, XmlFilters
<1>6. CASE k = "from"
  BY <1>6 DEF Offered, XmlFilters
<1>7. QED
  BY <1>1, <1>2, <1>3, <1>4, <1>5, <1>6

LEMMA TabSet ==
    ASSUME NEW t \in XmlTabs, NEW k \in {"doc", "dateField", "from"}, NEW v \in Offered[k]
    PROVE  [t EXCEPT ![k] = v] \in XmlTabs
<1>2. CASE k = "doc"
  BY <1>2 DEF Offered, XmlTabs
<1>3. CASE k = "dateField"
  BY <1>3 DEF Offered, XmlTabs
<1>4. CASE k = "from"
  BY <1>4 DEF Offered, XmlTabs
<1>5. QED
  BY <1>2, <1>3, <1>4

(* A request names the field of its date only if it has one. *)
LEMMA RequestByKey ==
    ASSUME NEW f \in XmlFilters
    PROVE  NotasRequest(f) = [k \in DOMAIN Defaults |->
                                 IF k = "dateField" /\ f.from = "" THEN "" ELSE f[k]]
BY DEF XmlFilters, Defaults, NotasRequest

LEMMA CompletedUrl ==
    ASSUME NEW u, u.filters \in XmlFilters
    PROVE  /\ Completed(Url(u).filters) \in XmlFilters
           /\ NotasRequest(Completed(Url(u).filters)) = NotasRequest(u.filters)
           /\ Url(u).view = u.view /\ Url(u).offset = u.offset
           /\ \A k \in DOMAIN Defaults \ {"dateField"} : Completed(Url(u).filters)[k] = u.filters[k]
<1> DEFINE f == u.filters
           g == Completed(Url(u).filters)
<1>1. g = [k \in DOMAIN Defaults |-> IF InUrl(f, k) THEN f[k] ELSE Defaults[k]]
  BY DEF Completed, Url
<1>2. \A k \in DOMAIN Defaults : g[k] = IF InUrl(f, k) THEN f[k] ELSE Defaults[k]
  BY <1>1
<1>3. \A k \in DOMAIN Defaults \ {"dateField"} : g[k] = f[k]
  BY <1>2 DEF InUrl
<1>4. g["dateField"] = IF f.from # "" THEN f["dateField"] ELSE "imported"
  BY <1>2, FilterKeys DEF InUrl, Defaults
<1>5. g \in XmlFilters
  <2>1. /\ g.status = f.status /\ g.doc = f.doc /\ g.numero = f.numero /\ g.from = f.from
        /\ g.sem = f.sem /\ g.codigo = f.codigo /\ g.filial = f.filial
    BY <1>3, FilterKeys
  <2>2. g.dateField \in {"imported", "emissao"}
    BY <1>4 DEF XmlFilters
  <2>3. g = [k \in DOMAIN Defaults |-> g[k]]
    BY <1>1
  <2>4. QED
    BY <2>1, <2>2, <2>3, FilterKeys DEF XmlFilters
<1>6. NotasRequest(g) = NotasRequest(f)
  <2>1. g.from = f.from
    BY <1>3, FilterKeys
  <2>2. \A k \in DOMAIN Defaults : (IF k = "dateField" /\ g.from = "" THEN "" ELSE g[k])
                                     = (IF k = "dateField" /\ f.from = "" THEN "" ELSE f[k])
    BY <1>3, <1>4, <2>1
  <2>3. [k \in DOMAIN Defaults |-> IF k = "dateField" /\ g.from = "" THEN "" ELSE g[k]]
          = [k \in DOMAIN Defaults |-> IF k = "dateField" /\ f.from = "" THEN "" ELSE f[k]]
    BY <2>2
  <2>4. QED
    BY <1>5, <2>3, RequestByKey
<1>7. Url(u).view = u.view /\ Url(u).offset = u.offset
  BY DEF Url
<1>8. QED
  BY <1>3, <1>5, <1>6, <1>7

-----------------------------------------------------------------------------
(* Companies. *)

OfEmpresa(f) ==
    /\ f.filial # "" => \E r \in EmpresaRows : r.codigo = f.codigo /\ r.filial = f.filial
    /\ f.sem = "" \/ f.codigo = ""

(* A row of the list of companies: a branch, or all branches of a company. *)
RowOfEmpresa(row) ==
    /\ row.codigo \in {"", "1", "2"} /\ row.filial \in {"", "1a", "1b", "2a"}
    /\ row.filial # "" => \E r \in EmpresaRows : r.codigo = row.codigo /\ r.filial = row.filial

LEMMA EmpresaRowsTyped ==
    \A r \in EmpresaRows :
        r \in [codigo : {"", "1", "2"}, filial : {"", "1a", "1b", "2a"}] /\ RowOfEmpresa(r)
<1> SUFFICES ASSUME NEW r \in EmpresaRows
             PROVE  /\ r \in [codigo : {"", "1", "2"}, filial : {"", "1a", "1b", "2a"}]
                    /\ RowOfEmpresa(r)
  OBVIOUS
<1>1. r \in [codigo : {"", "1", "2"}, filial : {"", "1a", "1b", "2a"}]
  <2>1. \/ r = [codigo |-> "1", filial |-> "1a"] \/ r = [codigo |-> "1", filial |-> "1b"]
        \/ r = [codigo |-> "2", filial |-> "2a"] \/ r = [codigo |-> "", filial |-> ""]
    BY DEF EmpresaRows, EmpresaRow
  <2>2. CASE r = [codigo |-> "1", filial |-> "1a"]
    BY <2>2
  <2>3. CASE r = [codigo |-> "1", filial |-> "1b"]
    BY <2>3
  <2>4. CASE r = [codigo |-> "2", filial |-> "2a"]
    BY <2>4
  <2>5. CASE r = [codigo |-> "", filial |-> ""]
    BY <2>5
  <2>6. QED
    BY <2>1, <2>2, <2>3, <2>4, <2>5
<1>2. RowOfEmpresa(r)
  BY <1>1 DEF RowOfEmpresa
<1>3. QED
  BY <1>1, <1>2

LEMMA SumsTyped == \A row \in Sums : RowOfEmpresa(row)
<1> SUFFICES ASSUME NEW row \in Sums PROVE RowOfEmpresa(row)
  OBVIOUS
<1>1. PICK r \in EmpresaRows : row = [codigo |-> r.codigo, filial |-> ""]
  BY DEF Sums, EmpresaRow
<1>2. r.codigo \in {"", "1", "2"}
  BY EmpresaRowsTyped
<1>3. QED
  BY <1>1, <1>2 DEF RowOfEmpresa

LEMMA DrilledTyped ==
    ASSUME NEW f \in XmlFilters, NEW row, RowOfEmpresa(row)
    PROVE  /\ Drilled(f, row) \in XmlFilters /\ OfEmpresa(Drilled(f, row))
           /\ Drilled(f, row).codigo = row.codigo /\ Drilled(f, row).filial = row.filial
<1>1. PICK sem \in {"", "true"} : /\ sem = (IF row.codigo = "" THEN "true" ELSE "")
                                  /\ sem = "" \/ row.codigo = ""
  OBVIOUS
<1>2. Drilled(f, row) = [f EXCEPT !.status = "all", !.sem = sem, !.codigo = row.codigo,
                                  !.filial = row.filial]
  BY <1>1 DEF Drilled
<1>3. PICK g : g = [f EXCEPT !.status = "all", !.sem = sem, !.codigo = row.codigo,
                             !.filial = row.filial]
  OBVIOUS
<1>4. g \in XmlFilters /\ g.sem = sem /\ g.codigo = row.codigo /\ g.filial = row.filial
  BY <1>3 DEF XmlFilters, RowOfEmpresa
<1>5. OfEmpresa(g)
  BY <1>1, <1>4 DEF OfEmpresa, RowOfEmpresa
<1>6. QED
  BY <1>2, <1>3, <1>4, <1>5

LEMMA NoCompanyTyped ==
    ASSUME NEW f \in XmlFilters
    PROVE  NoCompany(f) \in XmlFilters /\ OfEmpresa(NoCompany(f))
BY DEF NoCompany, XmlFilters, OfEmpresa

-----------------------------------------------------------------------------
(* The invariant of the page. *)

(* What a saved query is applied to gives the request it was saved with.   *)
Reproduces(p) ==
    /\ Completed(p.filters) \in XmlFilters
    /\ NotasRequest(NoCompany(Completed(p.filters))) = p.shown

Views == {"notas", "empresas", "painel"}

XmlShape(items) == [page : {"xml"}, view : Views, filters : XmlFilters, offset : 0..2,
                    tab : XmlTabs, items : {items}]

XmlUI(u) ==
    /\ u \in XmlShape(u.items)
    /\ OfEmpresa(u.filters)
    /\ \A p \in u.items : Reproduces(p)

XmlInv ==
    /\ left \in Purses
    /\ XmlUI(ui)
    /\ srv \in [saved : {srv.saved}]
    /\ \A p \in srv.saved : Reproduces(p)

(* Another request starts with its first page. *)
AtTop(u) == NotasRequest(u.filters) # NotasRequest(ui.filters) => u.offset = 0

LEMMA OldQueryReproduces == Reproduces(OldQuery)
<1> DEFINE f == [Defaults EXCEPT !.status = "synced"]
           g == Completed(OldQuery.filters)
<1>1. \A k \in DOMAIN Defaults : g[k] = f[k]
  <2>1. OldQuery.filters = [k \in Explicit \ {"numero"} |->
                               IF k = "status" THEN "synced" ELSE Defaults[k]]
    BY DEF OldQuery
  <2>2. \A k \in DOMAIN Defaults : g[k] = IF k = "status" THEN "synced" ELSE Defaults[k]
    BY <2>1, FilterKeys DEF Completed
  <2>3. QED
    BY <2>2, FilterKeys DEF XmlFilters
<1>2. f \in XmlFilters /\ NoCompany(f) = f
  <2>1. f \in XmlFilters /\ f.sem = "" /\ f.codigo = "" /\ f.filial = ""
    BY DEF Defaults, XmlFilters
  <2>2. NoCompany(f) = f
    BY <2>1 DEF NoCompany, XmlFilters
  <2>3. QED
    BY <2>1, <2>2
<1>3. g = f
  BY <1>1, <1>2, FilterKeys DEF Completed, XmlFilters
<1>4. QED
  BY <1>2, <1>3 DEF Reproduces, OldQuery

LEMMA XmlStart == XmlInit => XmlInv
<1> SUFFICES ASSUME XmlInit PROVE XmlInv
  OBVIOUS
<1>1. left \in Purses
  BY PageBounds, XmlBounds DEF XmlInit, Bounds, Purses
<1>2. NewTab \in XmlTabs
  BY DEF NewTab, XmlTabs, Health
<1>3. OfEmpresa(Defaults)
  BY DEF OfEmpresa, Defaults
<1>4. XmlUI(ui)
  BY <1>2, <1>3, FilterKeys, OldQueryReproduces DEF XmlInit, XmlUI, XmlShape, Views
<1>5. QED
  BY <1>1, <1>4, OldQueryReproduces DEF XmlInit, XmlInv

LEMMA MountedTyped ==
    ASSUME NEW u, XmlUI(u), u.items \subseteq ui.items \cup srv.saved, XmlInv, NEW view \in Views
    PROVE  /\ XmlUI(Mounted(u, view)) /\ Mounted(u, view).filters = u.filters
           /\ Mounted(u, view).offset = u.offset
<1>1. PICK tab \in XmlTabs : tab = IF view = "empresas" /\ u.view # view THEN NewTab ELSE u.tab
  <2>1. NewTab \in XmlTabs /\ u.tab \in XmlTabs
    BY DEF NewTab, XmlTabs, Health, XmlUI, XmlShape
  <2>2. QED
    BY <2>1
<1>2. PICK items \in SUBSET (ui.items \cup srv.saved) :
        items = IF view = "notas" /\ u.view # view THEN srv.saved ELSE u.items
  OBVIOUS
<1>3. PICK v : v = [u EXCEPT !.view = view, !.tab = tab, !.items = items]
  OBVIOUS
<1>4. Mounted(u, view) = v
  BY <1>1, <1>2, <1>3 DEF Mounted
<1>5. /\ v \in XmlShape(items) /\ v.filters = u.filters /\ v.items = items
      /\ v.offset = u.offset
  BY <1>1, <1>3 DEF XmlUI, XmlShape
<1>6. \A p \in items : Reproduces(p)
  BY <1>2 DEF XmlInv, XmlUI
<1>7. QED
  BY <1>4, <1>5, <1>6 DEF XmlUI

LEMMA XmlSteps == XmlInv /\ [XmlNext]_webVars => XmlInv' /\ AtTop(ui')
<1> SUFFICES ASSUME XmlInv, [XmlNext]_webVars PROVE XmlInv' /\ AtTop(ui')
  OBVIOUS
<1> DEFINE known == ui.items \cup srv.saved
<1>1. /\ ui \in XmlShape(ui.items) /\ XmlUI(ui)
      /\ ui.page = "xml" /\ ui.filters \in XmlFilters /\ ui.offset \in 0..2 /\ ui.tab \in XmlTabs
      /\ OfEmpresa(ui.filters) /\ ui.view \in Views
      /\ \A p \in known : Reproduces(p)
  BY DEF XmlInv, XmlUI, XmlShape
<1>2. NewTab \in XmlTabs
  BY DEF NewTab, XmlTabs, Health
(* Steps that leave localStorage alone. *)
<1>3. ASSUME XmlUI(ui'), Act, UNCHANGED srv PROVE XmlInv'
  <2>1. left' \in Purses
    BY <1>3, Paid DEF XmlInv
  <2>2. QED
    BY <1>3, <2>1 DEF XmlInv
<1>4. ASSUME NEW f \in XmlFilters, OfEmpresa(f), XmlAct([ui EXCEPT !.filters = f, !.offset = 0])
      PROVE  XmlInv' /\ AtTop(ui')
  <2>1. ui' = [ui EXCEPT !.filters = f, !.offset = 0] /\ 0 \in 0..2
    BY <1>4 DEF XmlAct
  <2>2. ui' \in XmlShape(ui.items) /\ ui'.filters = f /\ ui'.offset = 0 /\ ui'.items = ui.items
    BY <1>1, <1>4, <2>1 DEF XmlShape
  <2>3. XmlUI(ui')
    BY <1>1, <1>4, <2>2 DEF XmlUI
  <2>4. QED
    BY <1>3, <1>4, <2>2, <2>3 DEF XmlAct, AtTop
<1>5. ASSUME NEW o \in 0..2, XmlAct([ui EXCEPT !.offset = o])
      PROVE  XmlInv' /\ AtTop(ui')
  <2>1. ui' = [ui EXCEPT !.offset = o]
    BY <1>5 DEF XmlAct
  <2>2. ui' \in XmlShape(ui.items) /\ ui'.filters = ui.filters /\ ui'.items = ui.items
    BY <1>1, <1>5, <2>1 DEF XmlShape
  <2>3. XmlUI(ui')
    BY <1>1, <2>2 DEF XmlUI
  <2>4. QED
    BY <1>3, <1>5, <2>2, <2>3 DEF XmlAct, AtTop
<1>6. ASSUME Reload PROVE XmlInv' /\ AtTop(ui')
  <2>1. ui' = [page |-> "xml", view |-> Url(ui).view, filters |-> Completed(Url(ui).filters),
               offset |-> Url(ui).offset, tab |-> NewTab, items |-> srv.saved]
    BY <1>6 DEF Reload, XmlAct, OpenedAt
  <2>2. /\ Completed(Url(ui).filters) \in XmlFilters
        /\ NotasRequest(Completed(Url(ui).filters)) = NotasRequest(ui.filters)
        /\ Url(ui).view = ui.view /\ Url(ui).offset = ui.offset
        /\ \A k \in DOMAIN Defaults \ {"dateField"} : Completed(Url(ui).filters)[k] = ui.filters[k]
    BY <1>1, CompletedUrl
  <2>3. OfEmpresa(Completed(Url(ui).filters))
    <3> DEFINE g == Completed(Url(ui).filters)
    <3>1. g.sem = ui.filters.sem /\ g.codigo = ui.filters.codigo /\ g.filial = ui.filters.filial
      BY <2>2, FilterKeys
    <3>2. QED
      BY <1>1, <3>1 DEF OfEmpresa
  <2>4. /\ ui' \in XmlShape(srv.saved) /\ ui'.filters = Completed(Url(ui).filters)
        /\ ui'.items = srv.saved
    BY <1>1, <1>2, <2>1, <2>2 DEF XmlShape
  <2>5. XmlUI(ui')
    BY <1>1, <2>3, <2>4 DEF XmlUI
  <2>6. QED
    BY <1>3, <1>6, <2>2, <2>4, <2>5 DEF Reload, XmlAct, AtTop
<1>7. ASSUME NEW k \in Explicit, NEW v \in Offered[k], SetFilter(k, v)
      PROVE  XmlInv' /\ AtTop(ui')
  <2>1. PICK f : f = [ui.filters EXCEPT ![k] = v]
    OBVIOUS
  <2>2. f \in XmlFilters
    BY <1>1, <1>7, <2>1, FilterSet
  <2>3. f.sem = ui.filters.sem /\ f.codigo = ui.filters.codigo /\ f.filial = ui.filters.filial
    BY <1>1, <1>7, <2>1, FilterKeys DEF XmlFilters
  <2>4. XmlAct([ui EXCEPT !.filters = f, !.offset = 0])
    BY <1>7, <2>1 DEF SetFilter
  <2>5. QED
    BY <1>1, <1>4, <2>2, <2>3, <2>4 DEF OfEmpresa
<1>8. ASSUME NEW f \in XmlFilters, XmlAct(ClearEmpresaFilter([ui EXCEPT !.filters = f]))
      PROVE  XmlInv' /\ AtTop(ui')
  <2>1. PICK g : g = NoCompany(f)
    OBVIOUS
  <2>2. g \in XmlFilters /\ OfEmpresa(g)
    BY <1>8, <2>1, NoCompanyTyped
  <2>3. [ui EXCEPT !.filters = f].filters = f
    BY <1>1 DEF XmlShape
  <2>4. ClearEmpresaFilter([ui EXCEPT !.filters = f]) = [ui EXCEPT !.filters = g, !.offset = 0]
    BY <1>1, <2>1, <2>3 DEF ClearEmpresaFilter, XmlShape
  <2>5. QED
    BY <1>4, <1>8, <2>2, <2>4
<1>9. ASSUME XmlAct(ClearEmpresaFilter(ui)) PROVE XmlInv' /\ AtTop(ui')
  <2>1. PICK g : g = NoCompany(ui.filters)
    OBVIOUS
  <2>2. g \in XmlFilters /\ OfEmpresa(g)
    BY <1>1, <2>1, NoCompanyTyped
  <2>3. ClearEmpresaFilter(ui) = [ui EXCEPT !.filters = g, !.offset = 0]
    BY <2>1 DEF ClearEmpresaFilter
  <2>4. QED
    BY <1>4, <1>9, <2>2, <2>3
<1>10. ASSUME ClearAllFilters PROVE XmlInv' /\ AtTop(ui')
  <2>1. PICK f : f = [Defaults EXCEPT !.dateField = ui.filters.dateField]
    OBVIOUS
  <2>2. f \in XmlFilters /\ f.filial = "" /\ f.sem = ""
    BY <1>1, <2>1 DEF XmlFilters, Defaults
  <2>3. OfEmpresa(f)
    BY <2>2 DEF OfEmpresa
  <2>4. QED
    BY <1>4, <1>10, <2>1, <2>2, <2>3 DEF ClearAllFilters
<1>11. ASSUME NEW c \in Codigos, PickEmpresa(c) PROVE XmlInv' /\ AtTop(ui')
  <2>1. c \in {"1", "2"}
    BY <1>11, EmpresaRowsTyped DEF Codigos
  <2>2. PICK f : f = [ui.filters EXCEPT !.sem = "", !.filial = "", !.codigo = c]
    OBVIOUS
  <2>3. f \in XmlFilters /\ f.filial = "" /\ f.sem = ""
    BY <1>1, <2>1, <2>2 DEF XmlFilters
  <2>4. OfEmpresa(f)
    BY <2>3 DEF OfEmpresa
  <2>5. [ui EXCEPT !.filters.sem = "", !.filters.filial = "", !.filters.codigo = c, !.offset = 0]
          = [ui EXCEPT !.filters = f, !.offset = 0]
    BY <1>1, <2>2 DEF XmlShape, XmlFilters
  <2>6. QED
    BY <1>4, <1>11, <2>3, <2>4, <2>5 DEF PickEmpresa
<1>12. ASSUME ProximaPagina \/ PaginaAnterior PROVE XmlInv' /\ AtTop(ui')
  <2>1. PICK o \in 0..2 : XmlAct([ui EXCEPT !.offset = o])
    BY <1>1, <1>12 DEF ProximaPagina, PaginaAnterior
  <2>2. QED
    BY <1>5, <2>1
(* Saved queries. *)
<1>13. ASSUME NEW items, Persist(items), \A p \in items : Reproduces(p)
       PROVE  XmlInv' /\ AtTop(ui')
  <2>1. ui' \in XmlShape(items) /\ ui'.filters = ui.filters /\ ui'.items = items
    BY <1>1, <1>13 DEF Persist, XmlShape
  <2>2. XmlUI(ui')
    BY <1>1, <1>13, <2>1 DEF XmlUI
  <2>3. srv' \in [saved : {items}] /\ srv'.saved = items
    BY <1>13 DEF Persist, XmlInv
  <2>4. left' \in Purses
    BY <1>13, Paid DEF Persist, XmlInv
  <2>5. QED
    BY <1>13, <2>1, <2>2, <2>3, <2>4 DEF XmlInv, AtTop
<1>14. ASSUME NEW name, Save(name) PROVE XmlInv' /\ AtTop(ui')
  <2>1. PICK p : p = [name |-> name, filters |-> [k \in Explicit |-> ui.filters[k]],
                      shown |-> NotasRequest(NoCompany(ui.filters))]
    OBVIOUS
  <2>2. Completed(p.filters) = NoCompany(ui.filters)
    <3>1. \A k \in DOMAIN Defaults :
            Completed(p.filters)[k] = IF k \in Explicit THEN ui.filters[k] ELSE Defaults[k]
      BY <2>1 DEF Completed
    <3>2. \A k \in DOMAIN Defaults :
            NoCompany(ui.filters)[k] = IF k \in Explicit THEN ui.filters[k] ELSE ""
      BY <1>1, FilterKeys DEF NoCompany, XmlFilters
    <3>3. \A k \in DOMAIN Defaults \ Explicit : Defaults[k] = ""
      <4>1. Defaults.sem = "" /\ Defaults.codigo = "" /\ Defaults.filial = ""
        BY DEF Defaults
      <4>2. QED
        BY <4>1, FilterKeys
    <3>4. \A k \in DOMAIN Defaults : Completed(p.filters)[k] = NoCompany(ui.filters)[k]
      BY <3>1, <3>2, <3>3
    <3>5. NoCompany(ui.filters) \in XmlFilters
      BY <1>1, NoCompanyTyped
    <3>6. QED
      BY <3>4, <3>5, FilterKeys DEF Completed, XmlFilters
  <2>3. NoCompany(NoCompany(ui.filters)) = NoCompany(ui.filters)
    BY <1>1 DEF NoCompany, XmlFilters
  <2>4. Reproduces(p)
    BY <1>1, <2>1, <2>2, <2>3, NoCompanyTyped DEF Reproduces
  <2>5. Persist({q \in ui.items : q.name # name} \cup {p})
    BY <1>14, <2>1 DEF Save
  <2>6. QED
    BY <1>1, <1>13, <2>4, <2>5
<1>15. ASSUME NEW p \in ui.items, Forget(p) PROVE XmlInv' /\ AtTop(ui')
  BY <1>1, <1>13, <1>15 DEF Forget
<1>16. ASSUME NEW p \in ui.items, ApplyPreset(p) PROVE XmlInv' /\ AtTop(ui')
  BY <1>1, <1>8, <1>16 DEF ApplyPreset, Reproduces
<1>17. ASSUME ForgetElsewhere PROVE XmlInv' /\ AtTop(ui')
  <2>1. PICK p \in srv.saved : srv' = [srv EXCEPT !.saved = srv.saved \ {p}]
    BY <1>17 DEF ForgetElsewhere
  <2>2. srv' \in [saved : {srv.saved \ {p}}] /\ srv'.saved = srv.saved \ {p}
    BY <2>1 DEF XmlInv
  <2>3. left' \in Purses
    BY <1>17, Paid DEF ForgetElsewhere, XmlInv
  <2>4. QED
    BY <1>1, <1>17, <2>2, <2>3 DEF ForgetElsewhere, XmlInv, XmlUI, AtTop
(* The other views. *)
<1>18. ASSUME NEW tab \in XmlTabs, XmlAct([ui EXCEPT !.tab = tab])
       PROVE  XmlInv' /\ AtTop(ui')
  <2>1. ui' \in XmlShape(ui.items) /\ ui'.filters = ui.filters /\ ui'.items = ui.items
    BY <1>1, <1>18 DEF XmlAct, XmlShape
  <2>2. XmlUI(ui')
    BY <1>1, <2>1 DEF XmlUI
  <2>3. QED
    BY <1>3, <1>18, <2>1, <2>2 DEF XmlAct, AtTop
<1>19. ASSUME ChangeTab PROVE XmlInv' /\ AtTop(ui')
  <2>1. PICK tab : /\ SetTab(tab)
                   /\ \/ tab = [ui.tab EXCEPT !.search = ~ui.tab.search]
                      \/ \E h \in Health : tab = [ui.tab EXCEPT !.health = h]
                      \/ \E k \in {"doc", "dateField", "from"} :
                            \E v \in Offered[k] : tab = [ui.tab EXCEPT ![k] = v]
    BY <1>19 DEF ChangeTab
  <2>2. CASE tab = [ui.tab EXCEPT !.search = ~ui.tab.search]
    BY <1>1, <1>18, <2>1, <2>2 DEF SetTab, XmlTabs
  <2>3. CASE \E h \in Health : tab = [ui.tab EXCEPT !.health = h]
    BY <1>1, <1>18, <2>1, <2>3 DEF SetTab, XmlTabs
  <2>4. CASE \E k \in {"doc", "dateField", "from"} :
                \E v \in Offered[k] : tab = [ui.tab EXCEPT ![k] = v]
    BY <1>1, <1>18, <2>1, <2>4, TabSet DEF SetTab
  <2>5. QED
    BY <2>1, <2>2, <2>3, <2>4
<1>20. PICK cleared : cleared = ClearEmpresaFilter(ui)
  OBVIOUS
<1>21. /\ XmlUI(cleared) /\ cleared.offset = 0 /\ cleared.items = ui.items
       /\ cleared.filters \in XmlFilters
  <2>1. PICK f : f = NoCompany(ui.filters)
    OBVIOUS
  <2>2. f \in XmlFilters /\ OfEmpresa(f)
    BY <1>1, <2>1, NoCompanyTyped
  <2>3. cleared = [ui EXCEPT !.filters = f, !.offset = 0] /\ 0 \in 0..2
    BY <1>20, <2>1 DEF ClearEmpresaFilter
  <2>4. /\ cleared \in XmlShape(ui.items) /\ cleared.filters = f /\ cleared.items = ui.items
        /\ cleared.offset = 0
    BY <1>1, <2>2, <2>3 DEF XmlShape
  <2>5. QED
    BY <1>1, <2>2, <2>4 DEF XmlUI
<1>22. ASSUME NEW view \in Views, SwitchView(view) PROVE XmlInv' /\ AtTop(ui')
  <2>1. CASE view = "notas"
    <3>1. ui' = Mounted(ui, view)
      BY <1>22, <2>1 DEF SwitchView, XmlAct
    <3>2. XmlUI(ui') /\ ui'.filters = ui.filters
      BY <1>1, <1>22, <3>1, MountedTyped
    <3>3. QED
      BY <1>3, <1>22, <3>2 DEF SwitchView, XmlAct, AtTop
  <2>2. CASE view # "notas"
    <3>1. ui' = Mounted(cleared, view)
      BY <1>20, <1>22, <2>2 DEF SwitchView, XmlAct
    <3>2. XmlUI(ui') /\ ui'.offset = 0
      BY <1>21, <1>22, <3>1, MountedTyped
    <3>3. QED
      BY <1>3, <1>22, <3>2 DEF SwitchView, XmlAct, AtTop
  <2>3. QED
    BY <2>1, <2>2
<1>23. ASSUME NEW u, XmlUI(u), NEW f \in XmlFilters, OfEmpresa(f),
              XmlAct([u EXCEPT !.filters = f, !.offset = 0])
       PROVE  XmlInv' /\ AtTop(ui')
  <2>1. /\ u \in XmlShape(u.items) /\ 0 \in 0..2
        /\ ui' = [u EXCEPT !.filters = f, !.offset = 0]
    BY <1>23 DEF XmlAct, XmlUI
  <2>2. /\ ui' \in XmlShape(u.items) /\ ui'.filters = f /\ ui'.offset = 0
        /\ ui'.items = u.items
    BY <1>23, <2>1 DEF XmlShape
  <2>3. XmlUI(ui')
    BY <1>23, <2>2 DEF XmlUI
  <2>4. QED
    BY <1>3, <1>23, <2>2, <2>3 DEF XmlAct, AtTop
<1>24. ASSUME NEW s \in Offered.status, PickStatus(s) PROVE XmlInv' /\ AtTop(ui')
  <2>1. PICK u : u = Mounted(cleared, "notas")
    OBVIOUS
  <2>2. XmlUI(u) /\ u.filters = cleared.filters /\ u.offset = 0
    BY <1>21, <2>1, MountedTyped DEF Views
  <2>3. PICK f : f = [cleared.filters EXCEPT !.status = s]
    OBVIOUS
  <2>4. f \in XmlFilters /\ OfEmpresa(f)
    BY <1>21, <1>24, <2>3 DEF XmlFilters, XmlUI, OfEmpresa, Offered
  <2>5. [u EXCEPT !.filters.status = s] = [u EXCEPT !.filters = f, !.offset = 0]
    BY <2>2, <2>3 DEF XmlUI, XmlShape
  <2>6. QED
    BY <1>20, <1>23, <1>24, <2>1, <2>2, <2>4, <2>5 DEF PickStatus
<1>25. PICK u : u = Mounted(ui, "notas")
  OBVIOUS
<1>26. XmlUI(u) /\ u.filters = ui.filters
  BY <1>1, <1>25, MountedTyped DEF Views
<1>27. ASSUME NEW row \in EmpresaRows \cup Sums, DrillFromEmpresas(row)
       PROVE  XmlInv' /\ AtTop(ui')
  <2>1. PICK f : f = Drilled(ui.filters, row)
    OBVIOUS
  <2>2. f \in XmlFilters /\ OfEmpresa(f)
    BY <1>1, <1>27, <2>1, EmpresaRowsTyped, SumsTyped, DrilledTyped
  <2>3. PICK g : g = [f EXCEPT !.doc = ui.tab.doc, !.from = ui.tab.from,
                               !.dateField = ui.tab.dateField]
    OBVIOUS
  <2>4. /\ g \in XmlFilters
        /\ g.sem = f.sem /\ g.codigo = f.codigo /\ g.filial = f.filial
    <3>1. ui.tab \in XmlTabs
      BY <1>1 DEF XmlUI, XmlShape
    <3>2. PICK doc, from, dateField :
            doc = ui.tab.doc /\ from = ui.tab.from /\ dateField = ui.tab.dateField
      OBVIOUS
    <3>3. doc \in {"all", "NFE"} /\ from \in {"", "day"} /\ dateField \in {"imported", "emissao"}
      BY <3>1, <3>2 DEF XmlTabs
    <3>4. g = [f EXCEPT !.doc = doc, !.from = from, !.dateField = dateField]
      BY <2>3, <3>2
    <3>5. QED
      BY <2>2, <3>3, <3>4 DEF XmlFilters
  <2>5. QED
    BY <1>23, <1>25, <1>26, <1>27, <2>1, <2>2, <2>3, <2>4 DEF DrillFromEmpresas, OfEmpresa
<1>28. ASSUME NEW row \in InPainel, DrillFromPainel(row) PROVE XmlInv' /\ AtTop(ui')
  <2>1. PICK f : f = Drilled(ui.filters, row)
    OBVIOUS
  <2>2. RowOfEmpresa(row)
    BY <1>28, EmpresaRowsTyped DEF InPainel
  <2>3. f \in XmlFilters /\ OfEmpresa(f)
    BY <1>1, <2>1, <2>2, DrilledTyped
  <2>4. QED
    BY <1>23, <1>25, <1>26, <1>28, <2>1, <2>3 DEF DrillFromPainel
<1>29. ASSUME UNCHANGED webVars PROVE XmlInv' /\ AtTop(ui')
  BY <1>29 DEF webVars, XmlInv, XmlUI, AtTop
<1>30. QED
  BY <1>6, <1>7, <1>9, <1>10, <1>11, <1>12, <1>14, <1>15, <1>16, <1>17, <1>19, <1>22, <1>24,
     <1>27, <1>28, <1>29 DEF XmlNext, ClickClearEmpresa, Views

(* The properties of a state, and of a step. *)

LEMMA SharedLink == XmlInv => LinkKeepsNotas
<1> SUFFICES ASSUME XmlInv PROVE Asked(OpenedAt(Url(ui))) = Asked(ui)
  BY DEF LinkKeepsNotas
<1>1. ui.filters \in XmlFilters
  BY DEF XmlInv, XmlUI, XmlShape
<1>2. /\ NotasRequest(Completed(Url(ui).filters)) = NotasRequest(ui.filters)
      /\ Url(ui).view = ui.view /\ Url(ui).offset = ui.offset
  BY <1>1, CompletedUrl
<1>3. QED
  BY <1>2 DEF Asked, OpenedAt

LEMMA BranchOfCompany == XmlInv => FilialOfEmpresa
BY DEF XmlInv, XmlUI, OfEmpresa, FilialOfEmpresa

LEMMA PresetStep ==
    ASSUME XmlInv, NEW p \in ui.items, ApplyPreset(p)
    PROVE  NotasRequest(ui'.filters) = p.shown /\ ui'.offset = 0
<1>1. ui \in XmlShape(ui.items) /\ Reproduces(p)
  BY DEF XmlInv, XmlUI
<1>2. PICK f : f = Completed(p.filters)
  OBVIOUS
<1>3. PICK g : g = NoCompany(f)
  OBVIOUS
<1>4. PICK u : u = [ui EXCEPT !.filters = f]
  OBVIOUS
<1>5. u.filters = f
  BY <1>1, <1>4 DEF XmlShape
<1>6. ui' = [u EXCEPT !.filters = g, !.offset = 0]
  BY <1>2, <1>3, <1>4, <1>5 DEF ApplyPreset, XmlAct, ClearEmpresaFilter
<1>7. ui'.filters = g /\ ui'.offset = 0
  BY <1>1, <1>4, <1>6 DEF XmlShape
<1>8. QED
  BY <1>1, <1>2, <1>3, <1>7 DEF Reproduces

-----------------------------------------------------------------------------
(* The cards.  An answer, however old, is of what there was at a moment.   *)

Periods == [range : Ranges, field : DateFields]

Moments(notas) == {n \in SUBSET notas : FirstNotas \subseteq n}

OverviewAnswers(notas) == [p \in Periods |-> {Counted(n, p, Everyone) : n \in Moments(notas)}]

EmpresasAnswers(notas) == [p \in Periods |-> {Aggregates(n, p) : n \in Moments(notas)}]

CardsUI(u, notas) ==
    /\ u \in [page : {"cards"}, company : Companies, period : Periods,
              overview : {u.overview}, empresas : {u.empresas}]
    /\ QueryIn(u.overview, OverviewAnswers(notas))
    /\ QueryIn(u.empresas, EmpresasAnswers(notas))

CardsInv ==
    /\ left \in Purses
    /\ srv \in [notas : {srv.notas}] /\ FirstNotas \subseteq srv.notas
    /\ CardsUI(ui, srv.notas)

LEMMA CardsStart == CardsInit => CardsInv
<1> SUFFICES ASSUME CardsInit PROVE CardsInv
  OBVIOUS
<1>1. /\ ui = [page |-> "cards", company |-> Everyone,
               period |-> [range |-> "all", field |-> "arrived"],
               overview |-> NewQuery, empresas |-> NewQuery]
      /\ Everyone \in Companies
  BY DEF CardsInit, Companies, EmpresaRows, Everyone
<1>2. [range |-> "all", field |-> "arrived"] \in Periods
  BY DEF Periods, Ranges, DateFields
<1>3. left \in Purses
  BY PageBounds, CardsBounds DEF CardsInit, Bounds, Purses
<1>4. srv = [notas |-> FirstNotas]
  BY DEF CardsInit
<1>5. CardsUI(ui, srv.notas)
  BY <1>1, <1>2, NewQueryIn DEF CardsUI
<1>6. QED
  BY <1>3, <1>4, <1>5 DEF CardsInv

(* What is asked for now is an answer of this moment. *)
LEMMA AnswerNow ==
    ASSUME CardsInv, NEW p \in Periods
    PROVE  /\ p \in DOMAIN OverviewAnswers(srv.notas) /\ p \in DOMAIN EmpresasAnswers(srv.notas)
           /\ Counted(srv.notas, p, Everyone) \in OverviewAnswers(srv.notas)[p]
           /\ Aggregates(srv.notas, p) \in EmpresasAnswers(srv.notas)[p]
<1>1. srv.notas \in Moments(srv.notas)
  BY DEF CardsInv, Moments
<1>2. QED
  BY <1>1 DEF OverviewAnswers, EmpresasAnswers

LEMMA CardsSteps == CardsInv /\ [CardsNext]_webVars => CardsInv'
<1> SUFFICES ASSUME CardsInv, [CardsNext]_webVars PROVE CardsInv'
  OBVIOUS
<1> USE DEF CardsInv
<1>1. /\ ui \in [page : {"cards"}, company : Companies, period : Periods,
                 overview : {ui.overview}, empresas : {ui.empresas}]
      /\ QueryIn(ui.overview, OverviewAnswers(srv.notas))
      /\ QueryIn(ui.empresas, EmpresasAnswers(srv.notas))
  BY DEF CardsUI
(* Steps that leave the service alone. *)
<1>2. ASSUME CardsUI(ui', srv.notas), Act \/ Loss \/ Free, UNCHANGED srv
      PROVE  CardsInv'
  <2>1. left' \in Purses
    BY <1>2, Paid
  <2>2. QED
    BY <1>2, <2>1
<1>3. ASSUME NEW period \in Periods, CardsAct([ui EXCEPT !.period = period]) PROVE CardsInv'
  <2>1. CardsUI(ui', srv.notas)
    BY <1>1, <1>3 DEF CardsAct, CardsUI
  <2>2. QED
    BY <1>2, <1>3, <2>1 DEF CardsAct
<1>4. ASSUME NEW range \in Ranges, PickRange(range) PROVE CardsInv'
  <2>1. [ui.period EXCEPT !.range = range] \in Periods
    BY <1>1 DEF Periods
  <2>2. QED
    BY <1>3, <1>4, <2>1 DEF PickRange
<1>5. ASSUME NEW field \in DateFields, PickField(field) PROVE CardsInv'
  <2>1. [ui.period EXCEPT !.field = field] \in Periods
    BY <1>1 DEF Periods
  <2>2. QED
    BY <1>3, <1>5, <2>1 DEF PickField
<1>6. ASSUME NEW company \in Companies, FilterBy(company) PROVE CardsInv'
  <2>1. CardsUI(ui', srv.notas)
    BY <1>1, <1>6 DEF FilterBy, CardsAct, CardsUI
  <2>2. QED
    BY <1>2, <1>6, <2>1 DEF FilterBy, CardsAct
(* The queries. *)
<1>7. ASSUME NEW q, QueryIn(q, OverviewAnswers(srv.notas)), ui' = [ui EXCEPT !.overview = q],
             Loss \/ Free, UNCHANGED srv
      PROVE  CardsInv'
  <2>1. CardsUI(ui', srv.notas)
    BY <1>1, <1>7 DEF CardsUI
  <2>2. QED
    BY <1>2, <1>7, <2>1
<1>8. ASSUME NEW q, QueryIn(q, EmpresasAnswers(srv.notas)), ui' = [ui EXCEPT !.empresas = q],
             Loss \/ Free, UNCHANGED srv
      PROVE  CardsInv'
  <2>1. CardsUI(ui', srv.notas)
    BY <1>1, <1>8 DEF CardsUI
  <2>2. QED
    BY <1>2, <1>8, <2>1
<1>9. ui.period \in Periods
  BY <1>1
<1>10. ASSUME FetchOverview PROVE CardsInv'
  <2>1. PICK q : q = StartFetch(ui.overview, ui.period, Counted(srv.notas, ui.period, Everyone))
    OBVIOUS
  <2>2. ~Fetching(ui.overview, ui.period)
    BY <1>10 DEF FetchOverview, Due, OverviewKey
  <2>3. QueryIn(q, OverviewAnswers(srv.notas))
    BY <1>1, <1>9, <2>1, <2>2, AnswerNow, StartFetchIn
  <2>4. QED
    BY <1>7, <1>10, <2>1, <2>3 DEF FetchOverview, OverviewKey, CardsStep
<1>11. ASSUME DeliverOverview PROVE CardsInv'
  <2>1. PICK f \in ui.overview.fetching :
          CardsStep([ui EXCEPT !.overview = Deliver(ui.overview, f)])
    BY <1>11 DEF DeliverOverview
  <2>2. QueryIn(Deliver(ui.overview, f), OverviewAnswers(srv.notas))
    BY <1>1, DeliverIn
  <2>3. QED
    BY <1>7, <2>1, <2>2 DEF CardsStep
<1>12. ASSUME LoseOverview PROVE CardsInv'
  <2>1. PICK f \in ui.overview.fetching :
          ui' = [ui EXCEPT !.overview = Fail(ui.overview, f, Counted(srv.notas, f.key, Everyone))]
    BY <1>12 DEF LoseOverview
  <2>2. f.key \in Periods
    BY <1>1 DEF QueryIn, OverviewAnswers
  <2>3. PICK again : /\ again = Counted(srv.notas, f.key, Everyone)
                     /\ again \in OverviewAnswers(srv.notas)[f.key]
    BY <2>2, AnswerNow
  <2>4. QueryIn(Fail(ui.overview, f, again), OverviewAnswers(srv.notas))
    BY <1>1, <2>3, FailIn
  <2>5. QED
    BY <1>7, <1>12, <2>1, <2>3, <2>4 DEF LoseOverview
<1>13. ASSUME FetchEmpresas PROVE CardsInv'
  <2>1. PICK q : q = StartFetch(ui.empresas, ui.period, Aggregates(srv.notas, ui.period))
    OBVIOUS
  <2>2. ~Fetching(ui.empresas, ui.period)
    BY <1>13 DEF FetchEmpresas, Due, EmpresasKey
  <2>3. QueryIn(q, EmpresasAnswers(srv.notas))
    BY <1>1, <1>9, <2>1, <2>2, AnswerNow, StartFetchIn
  <2>4. QED
    BY <1>8, <1>13, <2>1, <2>3 DEF FetchEmpresas, EmpresasKey, CardsStep
<1>14. ASSUME DeliverEmpresas PROVE CardsInv'
  <2>1. PICK f \in ui.empresas.fetching :
          CardsStep([ui EXCEPT !.empresas = Deliver(ui.empresas, f)])
    BY <1>14 DEF DeliverEmpresas
  <2>2. QueryIn(Deliver(ui.empresas, f), EmpresasAnswers(srv.notas))
    BY <1>1, DeliverIn
  <2>3. QED
    BY <1>8, <2>1, <2>2 DEF CardsStep
<1>15. ASSUME LoseEmpresas PROVE CardsInv'
  <2>1. PICK f \in ui.empresas.fetching :
          ui' = [ui EXCEPT !.empresas = Fail(ui.empresas, f, Aggregates(srv.notas, f.key))]
    BY <1>15 DEF LoseEmpresas
  <2>2. f.key \in Periods
    BY <1>1 DEF QueryIn, EmpresasAnswers
  <2>3. PICK again : /\ again = Aggregates(srv.notas, f.key)
                     /\ again \in EmpresasAnswers(srv.notas)[f.key]
    BY <2>2, AnswerNow
  <2>4. QueryIn(Fail(ui.empresas, f, again), EmpresasAnswers(srv.notas))
    BY <1>1, <2>3, FailIn
  <2>5. QED
    BY <1>8, <1>15, <2>1, <2>3, <2>4 DEF LoseEmpresas
(* What was an answer stays one. *)
<1>16. ASSUME Arrive PROVE CardsInv'
  <2>1. PICK n : srv' = [srv EXCEPT !.notas = srv.notas \cup {n}]
    BY <1>16 DEF Arrive
  <2>2. PICK notas : notas = srv.notas \cup {n}
    OBVIOUS
  <2>3. srv' \in [notas : {notas}] /\ srv'.notas = notas /\ FirstNotas \subseteq notas
    BY <2>1, <2>2
  <2>4. Moments(srv.notas) \subseteq Moments(notas)
    BY <2>2 DEF Moments
  <2>5. \A p \in Periods :
          /\ \A a \in OverviewAnswers(srv.notas)[p] : a \in OverviewAnswers(notas)[p]
          /\ \A a \in EmpresasAnswers(srv.notas)[p] : a \in EmpresasAnswers(notas)[p]
    BY <2>4 DEF OverviewAnswers, EmpresasAnswers
  <2>6. /\ DOMAIN OverviewAnswers(srv.notas) = Periods /\ DOMAIN OverviewAnswers(notas) = Periods
        /\ DOMAIN EmpresasAnswers(srv.notas) = Periods /\ DOMAIN EmpresasAnswers(notas) = Periods
    BY DEF OverviewAnswers, EmpresasAnswers
  <2>7. QueryIn(ui.overview, OverviewAnswers(notas)) /\ QueryIn(ui.empresas, EmpresasAnswers(notas))
    BY <1>1, <2>5, <2>6, MoreAnswers
  <2>8. left' \in Purses
    BY <1>16, Paid DEF Arrive
  <2>9. CardsUI(ui, notas) /\ ui' = ui
    BY <1>1, <1>16, <2>7 DEF CardsUI, Arrive
  <2>10. QED
    BY <2>3, <2>8, <2>9
<1>17. ASSUME UNCHANGED webVars PROVE CardsInv'
  BY <1>17 DEF webVars
<1>18. QED
  BY <1>4, <1>5, <1>6, <1>10, <1>11, <1>12, <1>13, <1>14, <1>15, <1>16, <1>17 DEF CardsNext

(* The rows of a company count what the company has. *)
LEMMA RowsCount ==
    ASSUME NEW notas, NEW period, NEW company, company.codigo # "",
           NEW rows, rows = {r \in Aggregates(notas, period) :
                               r.codigo = company.codigo /\ company.filial \in {"", r.filial}}
    PROVE  UNION {r.notas : r \in rows} = Counted(notas, period, company)
<1>1. company # Everyone
  <2>1. Everyone.codigo = ""
    BY DEF Everyone, EmpresaRow
  <2>2. QED
    BY <2>1
<1>2. ASSUME NEW n \in Counted(notas, period, company)
      PROVE  \E r \in rows : n \in r.notas
  <2>1. /\ n \in notas /\ InPeriod(n, period) /\ n.codigo = company.codigo
        /\ company.filial \in {"", n.filial}
    BY <1>1 DEF Counted, Of
  <2>2. PICK of : of = {m \in notas : InPeriod(m, period)
                                       /\ m.codigo = n.codigo /\ m.filial = n.filial}
    OBVIOUS
  <2>3. PICK r : r = [codigo |-> n.codigo, filial |-> n.filial, notas |-> of]
    OBVIOUS
  <2>4. r \in Aggregates(notas, period)
    BY <2>1, <2>2, <2>3 DEF Aggregates
  <2>5. r.codigo = n.codigo /\ r.filial = n.filial /\ r.notas = of /\ n \in of
    BY <2>1, <2>2, <2>3
  <2>6. QED
    BY <2>1, <2>4, <2>5
<1>3. ASSUME NEW r \in rows, NEW n \in r.notas
      PROVE  n \in Counted(notas, period, company)
  <2>1. PICK m : r = [codigo |-> m.codigo, filial |-> m.filial,
                      notas |-> {x \in notas : InPeriod(x, period)
                                               /\ x.codigo = m.codigo /\ x.filial = m.filial}]
    BY <1>3 DEF Aggregates
  <2>2. /\ n \in notas /\ InPeriod(n, period)
        /\ n.codigo = r.codigo /\ n.filial = r.filial
    BY <1>3, <2>1
  <2>3. QED
    BY <1>3, <2>2 DEF Counted, Of
<1>4. QED
  BY <1>2, <1>3

LEMMA CountedMore ==
    ASSUME NEW first, NEW notas, first \subseteq notas, NEW period, NEW company
    PROVE  Counted(first, period, company) \subseteq Counted(notas, period, company)
BY DEF Counted

LEMMA CardsOfMoment == CardsInv => CardsOfPeriod
<1> SUFFICES ASSUME CardsInv, HaveNumbers(ui)
             PROVE  CardsCount(ui.company) \/ CardsCount(Everyone)
  BY DEF CardsOfPeriod
<1>1. /\ ui.period \in Periods
      /\ QueryIn(ui.overview, OverviewAnswers(srv.notas))
      /\ QueryIn(ui.empresas, EmpresasAnswers(srv.notas))
  BY DEF CardsInv, CardsUI
<1>2. ASSUME NEW n \in Moments(srv.notas), NEW company,
             Cards(ui) = Counted(n, ui.period, company)
      PROVE  CardsCount(company)
  <2>1. FirstNotas \subseteq n /\ n \subseteq srv.notas
    BY DEF Moments
  <2>2. QED
    BY <1>2, <2>1, CountedMore DEF CardsCount
<1>3. CASE RowsOf(ui) # {}
  <2>1. /\ ui.company.codigo # "" /\ ui.period \in DOMAIN ui.empresas.cache
        /\ RowsOf(ui) = {r \in ui.empresas.cache[ui.period] :
                            r.codigo = ui.company.codigo /\ ui.company.filial \in {"", r.filial}}
    BY <1>3 DEF RowsOf, EmpresaFiltered, HasData, EmpresasKey
  <2>2. ui.empresas.cache[ui.period] \in EmpresasAnswers(srv.notas)[ui.period]
    BY <1>1, <2>1 DEF QueryIn
  <2>3. PICK n \in Moments(srv.notas) : ui.empresas.cache[ui.period] = Aggregates(n, ui.period)
    BY <1>1, <2>2 DEF EmpresasAnswers
  <2>4. Cards(ui) = UNION {r.notas : r \in RowsOf(ui)}
    BY <1>3 DEF Cards
  <2>5. PICK rows : rows = RowsOf(ui)
    OBVIOUS
  <2>6. rows = {r \in Aggregates(n, ui.period) :
                  r.codigo = ui.company.codigo /\ ui.company.filial \in {"", r.filial}}
    BY <2>1, <2>3, <2>5
  <2>7. UNION {r.notas : r \in rows} = Counted(n, ui.period, ui.company)
    BY <2>1, <2>6, RowsCount
  <2>8. QED
    BY <1>2, <2>4, <2>5, <2>7
<1>4. CASE RowsOf(ui) = {}
  <2>1. ui.period \in DOMAIN ui.overview.cache /\ Cards(ui) = ui.overview.cache[ui.period]
    BY <1>4 DEF HaveNumbers, HasData, OverviewKey, Cards
  <2>2. Cards(ui) \in OverviewAnswers(srv.notas)[ui.period]
    BY <1>1, <2>1 DEF QueryIn
  <2>3. PICK n \in Moments(srv.notas) : Cards(ui) = Counted(n, ui.period, Everyone)
    BY <1>1, <2>2 DEF OverviewAnswers
  <2>4. QED
    BY <1>2, <2>3
<1>5. QED
  BY <1>3, <1>4

=============================================================================
