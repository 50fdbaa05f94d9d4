------------------------------ MODULE XmlCards ------------------------------
(***************************************************************************)
(* The cards above the lists of /xml: how many notas there are, of a       *)
(* period the user picks there, in all or of the company the list is       *)
(* filtered by.  They have two queries of their own, the overview and the  *)
(* numbers of every company, fetched again on a timer.  A number is        *)
(* modelled as the set of the notas it counts.                             *)
(***************************************************************************)
EXTENDS XmlPage

CONSTANT CardsActs   \* bounds the model: what the user does

ASSUME CardsBounds == CardsActs \in Nat

(* "all" and one of the windows, by one of the dates of a nota.            *)
Ranges     == {"all", "7d"}
DateFields == {"arrived", "emissao"}

(* A nota, and which of its dates lie in the window.                       *)
Nota(codigo, filial, recent) == [codigo |-> codigo, filial |-> filial, recent |-> recent]

FirstNotas == {Nota("1", "1a", {}), Nota("1", "1b", {"arrived"}), Nota("2", "2a", {}),
               Nota("", "", {"arrived", "emissao"})}

LaterNotas == {Nota("1", "1a", {"arrived", "emissao"}), Nota("2", "2a", {"arrived"})}

(* The filter by company: none, a company, or one of its branches. *)
Everyone  == EmpresaRow("", "")
Companies == EmpresaRows \cup {EmpresaRow(c, "") : c \in Codigos}

CardsInit ==
    /\ ui = [page |-> "cards", company |-> Everyone,
             period |-> [range |-> "all", field |-> "arrived"],
             overview |-> NewQuery, empresas |-> NewQuery]
    /\ srv = [notas |-> FirstNotas]
    /\ left = Bounds(CardsActs)

OnCards == ui.page = "cards"

-----------------------------------------------------------------------------
(* The other service: what it counts in a period. *)

InPeriod(n, period) == period.range = "all" \/ period.field \in n.recent

Of(n, company) == company = Everyone \/ (n.codigo = company.codigo
                                         /\ company.filial \in {"", n.filial})

Counted(notas, period, company) == {n \in notas : InPeriod(n, period) /\ Of(n, company)}

(* A branch without a nota in the period has no row. *)
Aggregates(notas, period) ==
    {[codigo |-> n.codigo, filial |-> n.filial,
      notas |-> {m \in notas : InPeriod(m, period)
                               /\ m.codigo = n.codigo /\ m.filial = n.filial}] :
        n \in {m \in notas : InPeriod(m, period)}}

Arrive ==
    /\ OnCards
    /\ \E n \in LaterNotas \ srv.notas : srv' = [srv EXCEPT !.notas = @ \cup {n}]
    /\ Change /\ UNCHANGED ui

-----------------------------------------------------------------------------
(* The user: the period, and the company, for which XmlPage has the ways.  *)
(* The date is offered only with a window.                                 *)

CardsAct(u) == ui' = u /\ Act /\ UNCHANGED srv

PickRange(range) ==
    /\ OnCards /\ range # ui.period.range
    /\ CardsAct([ui EXCEPT !.period = [@ EXCEPT !.range = range]])

PickField(field) ==
    /\ OnCards /\ ui.period.range # "all" /\ field # ui.period.field
    /\ CardsAct([ui EXCEPT !.period = [@ EXCEPT !.field = field]])

FilterBy(company) ==
    /\ OnCards /\ company # ui.company
    /\ CardsAct([ui EXCEPT !.company = company])

-----------------------------------------------------------------------------
(* The queries.  That of the companies is enabled by the filter.  Both are *)
(* fetched again on a timer, which is a step when it brings something new. *)

EmpresaFiltered(u) == u.company.codigo # ""

OverviewKey(u) == u.period

(* Mutant: the numbers of the companies are kept for one period. *)
EmpresasKeyWithoutRange(u) == [u.period EXCEPT !.range = "all"]

EmpresasKey(u) == u.period

CardsStep(u) == ui' = u /\ Free /\ UNCHANGED srv

Due(q, key, answer) ==
    /\ ~Fetching(q, key)
    /\ HasData(q, key) => q.cache[key] # answer

FetchOverview ==
    LET answer == Counted(srv.notas, ui.period, Everyone)
    IN /\ OnCards /\ Due(ui.overview, OverviewKey(ui), answer)
       /\ CardsStep([ui EXCEPT !.overview = StartFetch(@, OverviewKey(ui), answer)])

DeliverOverview ==
    /\ OnCards
    /\ \E f \in ui.overview.fetching : CardsStep([ui EXCEPT !.overview = Deliver(@, f)])

LoseOverview ==
    /\ OnCards
    /\ \E f \in ui.overview.fetching :
         ui' = [ui EXCEPT !.overview = Fail(@, f, Counted(srv.notas, f.key, Everyone))]
    /\ Loss /\ UNCHANGED srv

FetchEmpresas ==
    LET answer == Aggregates(srv.notas, ui.period)
    IN /\ OnCards /\ EmpresaFiltered(ui) /\ Due(ui.empresas, EmpresasKey(ui), answer)
       /\ CardsStep([ui EXCEPT !.empresas = StartFetch(@, EmpresasKey(ui), answer)])

DeliverEmpresas ==
    /\ OnCards
    /\ \E f \in ui.empresas.fetching : CardsStep([ui EXCEPT !.empresas = Deliver(@, f)])

LoseEmpresas ==
    /\ OnCards
    /\ \E f \in ui.empresas.fetching :
         ui' = [ui EXCEPT !.empresas = Fail(@, f, Aggregates(srv.notas, f.key))]
    /\ Loss /\ UNCHANGED srv

-----------------------------------------------------------------------------
(* What the cards show: for a company the sum of its rows, and the         *)
(* overview when there is none, or no answer with its rows.                *)

RowsOf(u) ==
    IF EmpresaFiltered(u) /\ HasData(u.empresas, EmpresasKey(u))
    THEN {r \in u.empresas.cache[EmpresasKey(u)] :
            r.codigo = u.company.codigo /\ u.company.filial \in {"", r.filial}}
    ELSE {}

Cards(u) ==
    IF RowsOf(u) # {} THEN UNION {r.notas : r \in RowsOf(u)}
    ELSE u.overview.cache[OverviewKey(u)]

(* isLoading of a query: no data, and it has not failed. *)
IsLoading(q, key) == ~HasData(q, key) /\ key \notin q.failed

CardsLoading(u) ==
    IF EmpresaFiltered(u) THEN IsLoading(u.empresas, EmpresasKey(u)) /\ RowsOf(u) = {}
    ELSE IsLoading(u.overview, OverviewKey(u))

(* The cards have numbers, and neither their placeholder nor a dash. *)
HaveNumbers(u) ==
    ~CardsLoading(u) /\ (RowsOf(u) # {} \/ HasData(u.overview, OverviewKey(u)))

-----------------------------------------------------------------------------
CardsNext ==
    \/ \E range \in Ranges : PickRange(range)
    \/ \E field \in DateFields : PickField(field)
    \/ \E company \in Companies : FilterBy(company)
    \/ FetchOverview \/ DeliverOverview \/ LoseOverview
    \/ FetchEmpresas \/ DeliverEmpresas \/ LoseEmpresas
    \/ Arrive

CardsSpec == CardsInit /\ [][CardsNext]_webVars

-----------------------------------------------------------------------------
(* Properties *)

(* The cards count, for the company, what there was in their period at     *)
(* some moment of the visit.                                               *)
CardsCount(company) ==
    /\ Counted(FirstNotas, ui.period, company) \subseteq Cards(ui)
    /\ Cards(ui) \subseteq Counted(srv.notas, ui.period, company)

(* Numbers on the cards are of the period that is picked, and of the       *)
(* company filtered by or of all, whichever answers came, in which order,  *)
(* and however old the answers are that are shown again.                   *)
CardsOfPeriod ==
    OnCards /\ HaveNumbers(ui) => CardsCount(ui.company) \/ CardsCount(Everyone)

(* With a filter by company the cards "refletem os números daquela         *)
(* empresa", as the comment above them and their heading say.              *)
CardsOfCompany == OnCards /\ HaveNumbers(ui) => CardsCount(ui.company)

=============================================================================
