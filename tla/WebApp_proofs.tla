---------------------------- MODULE WebApp_proofs ----------------------------
(***************************************************************************)
(* The pages that Pages_proofs and XmlPage_proofs leave out, and theorems  *)
(* about WebSpec, in which every page may be the one that is open.         *)
(***************************************************************************)
EXTENDS XmlPage_proofs, WellFoundedInduction

-----------------------------------------------------------------------------
(* Numbers and sequences. *)

(* Sets of numbers have a least one, and if they are bounded a greatest.   *)
LEMMA Earliest ==
    ASSUME NEW S \in SUBSET Nat, S # {}
    PROVE  \E x \in S : \A y \in S : x <= y
<1>1. PICK x \in S : \A y \in S : ~(<<y, x>> \in OpToRel(<, Nat))
  BY NatLessThanWellFounded, WFMin
<1>2. \A y \in S : x <= y
  <2>1. SUFFICES ASSUME NEW y \in S PROVE x <= y
    OBVIOUS
  <2>2. ~(<<y, x>> \in OpToRel(<, Nat))
    BY <1>1, <2>1
  <2>3. ~(y < x)
    BY <2>2 DEF OpToRel
  <2>4. QED
    BY <2>3
<1>3. QED
  BY <1>2

LEMMA Latest ==
    ASSUME NEW m \in Nat, NEW S \in SUBSET (0..m), S # {}
    PROVE  \E j \in S : \A k \in S : k <= j
<1> DEFINE T == {m - j : j \in S}
<1>1. T \in SUBSET Nat /\ T # {}
  <2>1. \A j \in S : m - j \in Nat
    OBVIOUS
  <2>2. QED
    BY <2>1
<1>2. PICK x \in T : \A y \in T : x <= y
  BY <1>1, Earliest
<1>3. PICK j \in S : x = m - j
  BY <1>2
<1>4. \A k \in S : m - j <= m - k
  BY <1>2, <1>3
<1>5. QED
  BY <1>4

(* What a filter of a sequence has after n items. *)
FilterRuns(items, keep, n, g) ==
    g = [m \in 0..n |-> IF m = 0 THEN <<>>
                        ELSE IF items[m] \in keep THEN Append(g[m - 1], items[m]) ELSE g[m - 1]]

LEMMA FilterExists ==
    ASSUME NEW items, NEW keep, NEW n \in Nat
    PROVE  \E g : FilterRuns(items, keep, n, g)
<1> DEFINE S == {m \in Nat : ~ \E g : FilterRuns(items, keep, m, g)}
<1>1. SUFFICES ASSUME S # {} PROVE FALSE
  OBVIOUS
<1>2. PICK x \in S : \A y \in S : x <= y
  BY <1>1, Earliest
<1>3. CASE x = 0
  <2>1. FilterRuns(items, keep, 0, [m \in 0..0 |-> <<>>])
    BY DEF FilterRuns
  <2>2. QED
    BY <1>3, <2>1
<1>4. CASE x # 0
  <2>1. x \in Nat /\ x - 1 \in Nat /\ ~(x <= x - 1)
    BY <1>4
  <2>2. PICK g : FilterRuns(items, keep, x - 1, g)
    BY <1>2, <2>1
  <2>3. PICK a : a = IF items[x] \in keep THEN Append(g[x - 1], items[x]) ELSE g[x - 1]
    OBVIOUS
  <2>4. PICK h : h = [m \in 0..x |-> IF m = x THEN a ELSE g[m]]
    OBVIOUS
  <2>5. ASSUME NEW m \in 0..x, m # x
        PROVE  h[m] = IF m = 0 THEN <<>>
                      ELSE IF items[m] \in keep THEN Append(h[m - 1], items[m]) ELSE h[m - 1]
    <3>1. m \in 0..(x - 1) /\ h[m] = g[m] /\ (m # 0 => h[m - 1] = g[m - 1])
      BY <2>1, <2>4, <2>5
    <3>2. g[m] = IF m = 0 THEN <<>>
                 ELSE IF items[m] \in keep THEN Append(g[m - 1], items[m]) ELSE g[m - 1]
      BY <2>2, <3>1 DEF FilterRuns
    <3>3. QED
      BY <3>1, <3>2
  <2>6. h[x] = IF items[x] \in keep THEN Append(h[x - 1], items[x]) ELSE h[x - 1]
    BY <2>1, <2>3, <2>4
  <2>7. \A m \in 0..x : h[m] = IF m = 0 THEN <<>>
                               ELSE IF items[m] \in keep THEN Append(h[m - 1], items[m])
                               ELSE h[m - 1]
    BY <1>4, <2>5, <2>6
  <2>8. FilterRuns(items, keep, x, h)
    BY <2>4, <2>7 DEF FilterRuns
  <2>9. QED
    BY <1>2, <2>8
<1>5. QED
  BY <1>3, <1>4

(* A filter returns items that are kept, and all of them where all are.    *)
LEMMA FilterKeeps ==
    ASSUME NEW S, NEW items \in Seq(S), NEW keep
    PROVE  /\ Filtered(items, keep) \in Seq(S \cap keep)
           /\ (\A i \in 1..Len(items) : items[i] \in keep) => Filtered(items, keep) = items
<1> DEFINE L == Len(items)
           Good(m, s) == /\ s \in Seq(S \cap keep)
                         /\ (\A i \in 1..L : items[i] \in keep) =>
                              Len(s) = m /\ \A k \in 1..m : s[k] = items[k]
<1>1. L \in Nat /\ \A i \in 1..L : items[i] \in S
  OBVIOUS
<1>2. PICK g : FilterRuns(items, keep, L, g) /\ Filtered(items, keep) = g[L]
  <2>1. \E g : FilterRuns(items, keep, L, g)
    BY <1>1, FilterExists
  <2>2. PICK g : g = CHOOSE f : FilterRuns(items, keep, L, f)
    OBVIOUS
  <2>3. Filtered(items, keep) = g[L]
    BY <2>2 DEF Filtered, FilterRuns
  <2>4. QED
    BY <2>1, <2>2, <2>3
<1>3. /\ g[0] = <<>>
      /\ \A m \in 1..L : g[m] = IF items[m] \in keep THEN Append(g[m - 1], items[m]) ELSE g[m - 1]
  <2>1. /\ 0 \in 0..L
        /\ \A m \in 1..L : m \in 0..L /\ m # 0
    BY <1>1
  <2>2. \A m \in 0..L : g[m] = IF m = 0 THEN <<>>
                               ELSE IF items[m] \in keep THEN Append(g[m - 1], items[m])
                               ELSE g[m - 1]
    BY <1>2 DEF FilterRuns
  <2>3. QED
    BY <2>1, <2>2
<1> DEFINE Bad == {m \in 0..L : ~Good(m, g[m])}
<1>4. ASSUME Bad # {} PROVE FALSE
  <2>1. Bad \in SUBSET Nat
    OBVIOUS
  <2>2. PICK x \in Bad : \A y \in Bad : x <= y
    BY <1>4, <2>1, Earliest
  <2>3. x # 0
    <3>1. Good(0, <<>>)
      BY EmptySeq
    <3>2. QED
      BY <1>3, <2>2, <3>1
  <2>4. x \in 1..L /\ x - 1 \in 0..L /\ ~(x <= x - 1)
    BY <1>1, <2>2, <2>3
  <2>5. Good(x - 1, g[x - 1])
    BY <2>2, <2>4
  <2>6. CASE items[x] \in keep
    <3>1. PICK s \in Seq(S \cap keep) : s = g[x - 1]
      BY <2>5
    <3>2. PICK a \in S \cap keep : a = items[x]
      BY <1>1, <2>4, <2>6
    <3>3. PICK t : t = Append(s, a)
      OBVIOUS
    <3>4. /\ t \in Seq(S \cap keep) /\ Len(t) = Len(s) + 1
          /\ \A k \in 1..Len(s) : t[k] = s[k]
          /\ t[Len(s) + 1] = a
      BY <3>1, <3>2, <3>3, AppendProperties
    <3>5. g[x] = t
      BY <1>3, <2>4, <2>6, <3>1, <3>2, <3>3
    <3>6. ASSUME \A i \in 1..L : items[i] \in keep
          PROVE  Len(t) = x /\ \A k \in 1..x : t[k] = items[k]
      <4>1. Len(s) = x - 1 /\ \A k \in 1..(x - 1) : s[k] = items[k]
        BY <2>5, <3>1, <3>6
      <4>2. QED
        BY <2>4, <3>2, <3>4, <4>1
    <3>7. Good(x, t)
      BY <3>4, <3>6
    <3>8. QED
      BY <2>2, <3>5, <3>7
  <2>7. CASE items[x] \notin keep
    <3>1. g[x] = g[x - 1]
      BY <1>3, <2>4, <2>7
    <3>2. ~(\A i \in 1..L : items[i] \in keep)
      BY <2>4, <2>7
    <3>3. Good(x, g[x])
      BY <2>5, <3>1, <3>2
    <3>4. QED
      BY <2>2, <3>3
  <2>8. QED
    BY <2>6, <2>7
<1>5. Good(L, g[L])
  BY <1>1, <1>4
<1>6. ASSUME \A i \in 1..L : items[i] \in keep PROVE g[L] = items
  <2>1. g[L] \in Seq(S \cap keep) /\ Len(g[L]) = L /\ \A k \in 1..L : g[L][k] = items[k]
    BY <1>5, <1>6
  <2>2. g[L] \in Seq(S)
    BY <2>1
  <2>3. QED
    BY <2>1, <2>2, SeqEqual
<1>7. QED
  BY <1>2, <1>5, <1>6

-----------------------------------------------------------------------------
(* The session. *)

SessionRequests(n) ==
    [tab : Tabs, op : {"login", "password", "data"}, right : BOOLEAN, token : 0..n,
     answer : {"none", "ok", "401"}]

TabStates(n) == [at : {"app", "login", "leaving"}, shown : 0..n, event : BOOLEAN]

SessionUI(u, n) ==
    u \in [page : {"session"}, stored : 0..n, requests : SUBSET SessionRequests(n),
           tabs : [Tabs -> TabStates(n)]]

SessionInv ==
    /\ left \in Purses
    /\ srv \in [issued : Nat, expired : {srv.expired}]
    /\ SessionUI(ui, srv.issued)

LEMMA SessionStart == SessionInit => SessionInv
<1> SUFFICES ASSUME SessionInit PROVE SessionInv
  OBVIOUS
<1>1. left \in Purses
  BY PageBounds, SessionBounds DEF SessionInit, Bounds, Purses
<1>2. SessionUI(ui, 1)
  BY DEF SessionInit, SessionUI, TabStates
<1>3. QED
  BY <1>1, <1>2 DEF SessionInit, SessionInv

LEMMA MoreTokens ==
    ASSUME NEW n \in Nat, NEW u, SessionUI(u, n)
    PROVE  SessionUI(u, n + 1)
<1>1. \A k : k \in 0..n => k \in 0..(n + 1)
  OBVIOUS
<1>2. /\ SessionRequests(n) \subseteq SessionRequests(n + 1)
      /\ TabStates(n) \subseteq TabStates(n + 1)
  BY <1>1 DEF SessionRequests, TabStates
<1>3. u.tabs \in [Tabs -> TabStates(n + 1)]
  BY <1>2 DEF SessionUI
<1>4. QED
  BY <1>1, <1>2, <1>3 DEF SessionUI

LEMMA TabSteps ==
    ASSUME NEW n \in Nat, NEW u, SessionUI(u, n), NEW t \in Tabs, NEW token \in 0..n
    PROVE  /\ SessionUI(Store(u, t, token), n)
           /\ SessionUI(Notify(u, t), n)
           /\ \A at \in {"app", "login", "leaving"} : SessionUI([u EXCEPT !.tabs[t].at = at], n)
           /\ SessionUI([u EXCEPT !.tabs[t].event = FALSE], n)
<1>1. ASSUME NEW tabs \in [Tabs -> TabStates(n)] PROVE SessionUI([u EXCEPT !.tabs = tabs], n)
  BY <1>1 DEF SessionUI
<1>2. u.tabs \in [Tabs -> TabStates(n)] /\ u.tabs[t] \in TabStates(n)
  BY DEF SessionUI
<1>3. ASSUME NEW s \in TabStates(n) PROVE SessionUI([u EXCEPT !.tabs[t] = s], n)
  BY <1>2, <1>3 DEF SessionUI
<1>4. SessionUI(Notify(u, t), n)
  BY <1>2, <1>3 DEF Notify, TabStates, SessionUI
<1>5. ASSUME NEW at \in {"app", "login", "leaving"}
      PROVE  SessionUI([u EXCEPT !.tabs[t].at = at], n)
  BY <1>2, <1>5 DEF TabStates, SessionUI
<1>6. SessionUI([u EXCEPT !.tabs[t].event = FALSE], n)
  BY <1>2 DEF TabStates, SessionUI
<1>7. SessionUI(Store(u, t, token), n)
  <2>1. PICK tabs : tabs = [s \in Tabs |-> [u.tabs[s] EXCEPT !.event = u.tabs[s].event
                                                              \/ (s # t /\ token # u.stored)]]
    OBVIOUS
  <2>2. ASSUME NEW s \in Tabs PROVE tabs[s] \in TabStates(n)
    <3>1. u.tabs[s] \in TabStates(n)
      BY <1>2, <2>2
    <3>2. PICK e \in BOOLEAN : e = (u.tabs[s].event \/ (s # t /\ token # u.stored))
      OBVIOUS
    <3>3. tabs[s] = [u.tabs[s] EXCEPT !.event = e]
      BY <2>1, <2>2, <3>2
    <3>4. QED
      BY <3>1, <3>3 DEF TabStates
  <2>3. tabs \in [Tabs -> TabStates(n)]
    BY <2>1, <2>2
  <2>4. Store(u, t, token) = [u EXCEPT !.stored = token, !.tabs = tabs]
    BY <2>1 DEF Store
  <2>5. QED
    BY <2>3, <2>4 DEF SessionUI
<1>8. QED
  BY <1>4, <1>5, <1>6, <1>7

LEMMA SessionSteps == SessionInv /\ [SessionNext]_webVars => SessionInv'
<1> SUFFICES ASSUME SessionInv, [SessionNext]_webVars PROVE SessionInv'
  OBVIOUS
<1> DEFINE n == srv.issued
<1>1. n \in Nat /\ SessionUI(ui, n) /\ 0 \in 0..n
  BY DEF SessionInv
<1>2. ASSUME UNCHANGED srv, Act \/ Change \/ Loss \/ Free, SessionUI(ui', n)
      PROVE  SessionInv'
  BY <1>2, Paid DEF SessionInv
<1>3. ASSUME NEW u, SessionUI(u, n), NEW S \in SUBSET SessionRequests(n)
      PROVE  SessionUI([u EXCEPT !.requests = S], n)
  BY <1>3 DEF SessionUI
<1>4. ASSUME NEW t \in Tabs, StorageEvent(t) PROVE SessionInv'
  <2>1. PICK u : u = [ui EXCEPT !.tabs[t].event = FALSE]
    OBVIOUS
  <2>2. SessionUI(u, n)
    BY <1>1, <1>4, <2>1, TabSteps
  <2>3. SessionUI(Notify(u, t), n)
    BY <1>1, <1>4, <2>2, TabSteps
  <2>4. QED
    BY <1>2, <1>4, <2>1, <2>3 DEF StorageEvent
<1>5. ASSUME NEW t \in Tabs, Load(t) PROVE SessionInv'
  <2>1. PICK s : s = [at |-> "login", shown |-> ui.stored, event |-> FALSE]
    OBVIOUS
  <2>2. s \in TabStates(n)
    BY <1>1, <2>1 DEF TabStates, SessionUI
  <2>3. PICK S \in SUBSET SessionRequests(n) : S = {r \in ui.requests : r.tab # t}
    BY <1>1 DEF SessionUI
  <2>4. ui' = [ui EXCEPT !.tabs[t] = s, !.requests = S]
    BY <1>5, <2>1, <2>3 DEF Load
  <2>5. SessionUI(ui', n)
    BY <1>1, <1>5, <2>2, <2>4 DEF SessionUI
  <2>6. QED
    BY <1>2, <1>5, <2>5 DEF Load
<1>6. ASSUME NEW u, SessionUI(u, n), NEW t \in Tabs
      PROVE  SessionUI(Leave(Store(u, t, 0), t), n)
  <2>1. SessionUI(Store(u, t, 0), n)
    BY <1>1, <1>6, TabSteps
  <2>2. QED
    BY <1>1, <1>6, <2>1, TabSteps DEF Leave
<1>7. ASSUME NEW t \in Tabs, Logout(t) PROVE SessionInv'
  <2>1. SessionUI(Store(ui, t, 0), n)
    BY <1>1, <1>7, TabSteps
  <2>2. SessionUI(Notify(Store(ui, t, 0), t), n)
    BY <1>1, <1>7, <2>1, TabSteps
  <2>3. SessionUI(Leave(Notify(Store(ui, t, 0), t), t), n)
    BY <1>1, <1>7, <2>2, TabSteps DEF Leave
  <2>4. QED
    BY <1>2, <1>7, <2>3 DEF Logout
<1>8. ASSUME NEW t \in Tabs, Visit(t) PROVE SessionInv'
  <2>1. PICK at \in {"app", "login"} : at = IF ui.tabs[t].at = "login" THEN "app" ELSE "login"
    OBVIOUS
  <2>2. PICK S \in SUBSET SessionRequests(n) : S = {r \in ui.requests : r.tab # t}
    BY <1>1 DEF SessionUI
  <2>3. ui' = [ui EXCEPT !.tabs[t].at = at, !.tabs[t].shown = ui.stored, !.requests = S]
    BY <1>8, <2>1, <2>2 DEF Visit
  <2>4. PICK s : s = [ui.tabs[t] EXCEPT !.at = at, !.shown = ui.stored]
    OBVIOUS
  <2>5. s \in TabStates(n)
    BY <1>1, <1>8, <2>1, <2>4 DEF TabStates, SessionUI
  <2>6. ui' = [ui EXCEPT !.tabs[t] = s, !.requests = S]
    BY <1>1, <1>8, <2>3, <2>4 DEF SessionUI
  <2>7. SessionUI(ui', n)
    BY <1>1, <1>8, <2>5, <2>6 DEF SessionUI
  <2>8. QED
    BY <1>2, <1>8, <2>7 DEF Visit
<1>9. ASSUME NEW t \in Tabs, NEW op \in {"login", "password", "data"}, NEW right \in BOOLEAN,
             Ask(t, op, right)
      PROVE  SessionInv'
  <2>1. PICK r : r = [tab |-> t, op |-> op, right |-> right, token |-> ui.stored,
                      answer |-> "none"]
    OBVIOUS
  <2>2. r \in SessionRequests(n)
    BY <1>1, <1>9, <2>1 DEF SessionRequests, SessionUI
  <2>3. ui.requests \cup {r} \in SUBSET SessionRequests(n)
    BY <1>1, <2>2 DEF SessionUI
  <2>4. QED
    BY <1>1, <1>2, <1>3, <1>9, <2>1, <2>3 DEF Ask
<1>10. ASSUME Serve PROVE SessionInv'
  <2>1. PICK r \in ui.requests, issues \in BOOLEAN :
          /\ issues = (r.op = "login" /\ Answer(r) = "ok")
          /\ srv' = [srv EXCEPT !.issued = IF issues THEN srv.issued + 1 ELSE srv.issued]
          /\ ui' = [ui EXCEPT !.requests = (ui.requests \ {r}) \cup
                      {[r EXCEPT !.answer = Answer(r),
                                 !.token = IF issues THEN srv.issued + 1 ELSE r.token]}]
    BY <1>10 DEF Serve
  <2>2. PICK m \in {n, n + 1} : m = IF issues THEN n + 1 ELSE n
    OBVIOUS
  <2>3. PICK q : q = [r EXCEPT !.answer = Answer(r),
                               !.token = IF issues THEN srv.issued + 1 ELSE r.token]
    OBVIOUS
  <2>4. SessionUI(ui, m) /\ m \in Nat
    BY <1>1, MoreTokens
  <2>5. q \in SessionRequests(m)
    <3>1. PICK k \in 0..m : k = IF issues THEN srv.issued + 1 ELSE r.token
      BY <1>1, <2>2, <2>4 DEF SessionUI, SessionRequests
    <3>2. Answer(r) \in {"ok", "401"} /\ r \in SessionRequests(m)
      BY <2>1, <2>4 DEF Answer, SessionUI
    <3>3. QED
      BY <2>3, <3>1, <3>2 DEF SessionRequests
  <2>6. (ui.requests \ {r}) \cup {q} \in SUBSET SessionRequests(m)
    BY <2>4, <2>5 DEF SessionUI
  <2>7. SessionUI(ui', m)
    BY <2>1, <2>3, <2>4, <2>6 DEF SessionUI
  <2>8. /\ srv' \in [issued : Nat, expired : {srv.expired}]
        /\ srv'.issued = m /\ srv'.expired = srv.expired
    BY <2>1, <2>2, <2>4 DEF SessionInv
  <2>9. left' \in Purses
    BY <1>10, Paid DEF Serve, SessionInv
  <2>10. QED
    BY <2>7, <2>8, <2>9 DEF SessionInv
<1>11. ASSUME Receive PROVE SessionInv'
  <2>1. PICK r \in ui.requests :
          LET done == [ui EXCEPT !.requests = ui.requests \ {r}]
          IN ui' = IF r.answer = "401" THEN Leave(Store(done, r.tab, 0), r.tab)
                   ELSE IF r.op = "login" THEN Login(done, r.tab, r.token) ELSE done
    BY <1>11 DEF Receive
  <2>2. PICK done :
          /\ done = [ui EXCEPT !.requests = ui.requests \ {r}]
          /\ ui' = IF r.answer = "401" THEN Leave(Store(done, r.tab, 0), r.tab)
                   ELSE IF r.op = "login" THEN Login(done, r.tab, r.token) ELSE done
    BY <2>1
  <2>3. r.tab \in Tabs /\ r.token \in 0..n
    BY <1>1 DEF SessionUI, SessionRequests
  <2>4. SessionUI(done, n)
    BY <1>1, <2>2 DEF SessionUI
  <2>5. SessionUI(Leave(Store(done, r.tab, 0), r.tab), n)
    BY <1>6, <2>3, <2>4
  <2>6. SessionUI(Login(done, r.tab, r.token), n)
    <3>1. PICK u : u = Store(done, r.tab, r.token)
      OBVIOUS
    <3>2. PICK v : v = [u EXCEPT !.tabs[r.tab].at = "app"]
      OBVIOUS
    <3>3. SessionUI(u, n)
      BY <1>1, <2>3, <2>4, <3>1, TabSteps
    <3>4. SessionUI(v, n)
      BY <1>1, <2>3, <3>2, <3>3, TabSteps
    <3>5. SessionUI(Notify(v, r.tab), n)
      BY <1>1, <2>3, <3>4, TabSteps
    <3>6. QED
      BY <3>1, <3>2, <3>5 DEF Login
  <2>7. SessionUI(ui', n)
    BY <2>2, <2>4, <2>5, <2>6
  <2>8. QED
    BY <1>2, <1>11, <2>7 DEF Receive
<1>12. ASSUME Expire PROVE SessionInv'
  <2>1. PICK k : srv' = [srv EXCEPT !.expired = srv.expired \cup {k}]
    BY <1>12 DEF Expire
  <2>2. srv' \in [issued : Nat, expired : {srv'.expired}] /\ srv'.issued = srv.issued
    BY <2>1 DEF SessionInv
  <2>3. QED
    BY <1>1, <1>12, <2>2, Paid DEF Expire, SessionInv
<1>13. CASE UNCHANGED webVars
  BY <1>1, <1>2, <1>13 DEF webVars, Free
<1>14. ASSUME NEW t \in Tabs, SubmitLogin(t) \/ SubmitPassword(t) \/ AskData(t)
       PROVE  SessionInv'
  BY <1>9, <1>14 DEF SubmitLogin, SubmitPassword, AskData
<1>15. QED
  BY <1>4, <1>5, <1>7, <1>8, <1>10, <1>11, <1>12, <1>13, <1>14 DEF SessionNext

-----------------------------------------------------------------------------
(* The form of parameters. *)

(* The items a text of the form can have. *)
ItemsShown == TextItems \cup {"date"}

(* Sending again what was sent, after the form was opened on it. *)
SentAgain(field, v) == Sends(field, InitialDisplay(field, v))
Kept(field, v) == SentAgain(field, v) = v \/ (EmptyArray(v) /\ SentAgain(field, v) = Null)

Yes == Value("true", Blank)
No  == Value("false", Blank)

LEMMA Values ==
    /\ \A t : String(t).type = "string" /\ String(t).text = t
    /\ \A t : Numeric(t).type = "number" /\ Numeric(t).text = t
    /\ \A of, items : /\ Array(of, items).type = IF of = "number" THEN "numbers" ELSE "texts"
                      /\ Array(of, items).text = Plain(items)
    /\ Null.type = "null" /\ Null.text = Blank
    /\ Yes.type = "true" /\ No.type = "false" /\ Yes.text = Blank /\ No.text = Blank
    /\ \A items : Plain(items).items = items /\ Plain(items).form = "plain"
    /\ Blank.items = <<>> /\ Iso.items = <<"date">> /\ Br.items = <<"date">>
    /\ Blank.form = "plain" /\ Iso.form = "iso" /\ Br.form = "br"
BY DEF String, Numeric, Array, Null, Yes, No, Value, Plain, Blank, Iso, Br

LEMMA Coerced ==
    ASSUME NEW field \in Fields, NEW raw
    PROVE  /\ field.type = "boolean" => /\ raw.type = "true" => Coerce(field, raw) = Yes
                                        /\ raw.type # "true" => Coerce(field, raw) = No
           /\ field.type # "boolean" =>
                /\ raw.text = Blank => Coerce(field, raw) = Null
                /\ raw.text # Blank /\ HasPlaceholder(raw.text) => Coerce(field, raw) = String(raw.text)
                /\ raw.text # Blank /\ ~HasPlaceholder(raw.text) =>
                     /\ field.type = "number" =>
                          Coerce(field, raw) = IF IsNumber(raw.text) THEN Numeric(raw.text) ELSE String(raw.text)
                     /\ field.type = "date" => Coerce(field, raw) = String(IsoToBr(raw.text))
                     /\ field.type \in {"list", "multiselect"} =>
                          Coerce(field, raw) = ParseList(raw.text, field.itemType)
                     /\ field.type \in {"text", "select"} => Coerce(field, raw) = String(raw.text)
<1> DEFINE text == raw.text
<1>1. field.type \in Types
  BY DEF Fields
<1>2. CASE field.type = "boolean"
  BY <1>2 DEF Coerce, Bool, Yes, No
<1>3. CASE field.type # "boolean" /\ text = Blank
  BY <1>3 DEF Coerce
<1>4. CASE field.type # "boolean" /\ text # Blank /\ HasPlaceholder(text)
  BY <1>4 DEF Coerce
<1>5. CASE field.type # "boolean" /\ text # Blank /\ ~HasPlaceholder(text)
  <2>1. Coerce(field, raw) =
          CASE field.type = "number" -> IF IsNumber(text) THEN Numeric(text) ELSE String(text)
            [] field.type = "date" -> String(IsoToBr(text))
            [] field.type \in {"list", "multiselect"} -> ParseList(text, field.itemType)
            [] OTHER -> String(text)
    BY <1>5 DEF Coerce
  <2>2. CASE field.type = "number"
    BY <1>5, <2>1, <2>2
  <2>3. CASE field.type = "date"
    BY <1>5, <2>1, <2>3
  <2>4. CASE field.type \in {"list", "multiselect"}
    BY <1>5, <2>1, <2>4
  <2>5. CASE field.type \in {"text", "select"}
    BY <1>5, <2>1, <2>5
  <2>6. QED
    BY <1>1, <1>5, <2>2, <2>3, <2>4, <2>5 DEF Types
<1>6. QED
  BY <1>2, <1>3, <1>4, <1>5

(* A control other than the checkbox is its text. *)
LEMMA TextSent ==
    ASSUME NEW field \in Fields, field.type # "boolean", NEW raw, NEW other, raw.text = other.text
    PROVE  Sends(field, raw) = Sends(field, other)
BY DEF Sends, Coerce

LEMMA TextDisplayed ==
    ASSUME NEW field \in Fields, field.type # "boolean", NEW v,
           v.type \in {"string", "number", "numbers", "texts"},
           field.type # "date" \/ v.type # "string" \/ HasPlaceholder(v.text)
    PROVE  InitialDisplay(field, v).text = v.text
<1>1. v # Null
  BY Values
<1>2. InitialDisplay(field, v) = String(v.text)
  BY <1>1 DEF InitialDisplay, Missing
<1>3. QED
  BY <1>2, Values

(* A list that was parsed is parsed as itself. *)
LEMMA ListParsed ==
    ASSUME NEW text, NEW itemType \in {"number", "text"}, text.items \in Seq(ItemsShown)
    PROVE  \E items \in Seq(ItemsShown) :
             /\ ParseList(text, itemType) = Array(itemType, items)
             /\ ParseList(Plain(items), itemType) = Array(itemType, items)
             /\ ~HasPlaceholder(text) => ~HasPlaceholder(Plain(items))
<1>1. CASE itemType = "number"
  <2>1. PICK items : items = Filtered(text.items, Numbers)
    OBVIOUS
  <2>2. items \in Seq(ItemsShown \cap Numbers)
    BY <2>1, FilterKeeps
  <2>3. items \in Seq(ItemsShown) /\ \A i \in 1..Len(items) : items[i] \in Numbers
    BY <2>2
  <2>4. Filtered(items, Numbers) = items
    BY <2>3, FilterKeeps
  <2>5. ~HasPlaceholder(Plain(items))
    <3>1. \A i \in DOMAIN items : items[i] # DatePlaceholder
      <4>1. DOMAIN items = 1..Len(items) /\ DatePlaceholder \notin Numbers
        BY <2>3 DEF Numbers, DatePlaceholder
      <4>2. QED
        BY <2>3, <4>1
    <3>2. QED
      BY <3>1, Values DEF HasPlaceholder, ToSet
  <2>6. ParseList(text, itemType) = Array(itemType, items)
    BY <1>1, <2>1 DEF ParseList
  <2>7. ParseList(Plain(items), itemType) = Array(itemType, items)
    BY <1>1, <2>4, Values DEF ParseList
  <2>8. QED
    BY <2>3, <2>5, <2>6, <2>7
<1>2. CASE itemType = "text"
  <2>1. PICK items \in Seq(ItemsShown) : items = text.items
    OBVIOUS
  <2>2. ParseList(text, itemType) = Array(itemType, items)
    BY <1>2, <2>1 DEF ParseList
  <2>3. ParseList(Plain(items), itemType) = Array(itemType, items)
    BY <1>2, Values DEF ParseList
  <2>4. ~HasPlaceholder(text) => ~HasPlaceholder(Plain(items))
    BY <2>1, Values DEF HasPlaceholder
  <2>5. QED
    BY <2>2, <2>3, <2>4
<1>3. QED
  BY <1>1, <1>2

LEMMA BoolBack ==
    ASSUME NEW field \in Fields, field.type = "boolean"
    PROVE  SentAgain(field, Yes) = Yes /\ SentAgain(field, No) = No
<1>1. InitialDisplay(field, Yes) = Yes /\ InitialDisplay(field, No) = No
  <2>1. Yes # String(Blank) /\ No # String(Blank) /\ Yes # Numeric(Plain(<<"0">>))
    BY Values
  <2>2. QED
    BY <2>1, Values DEF InitialDisplay, Bool, Yes, No
<1>2. Coerce(field, Yes) = Yes /\ Coerce(field, No) = No
  <2>1. Yes.type = "true" /\ No.type # "true"
    BY Values
  <2>2. QED
    BY <2>1, Coerced
<1>3. ~EmptyArray(Yes) /\ ~EmptyArray(No)
  BY Values DEF EmptyArray, IsArray
<1>4. QED
  BY <1>1, <1>2, <1>3 DEF SentAgain, Sends

LEMMA NullBack ==
    ASSUME NEW field \in Fields, field.type # "boolean"
    PROVE  SentAgain(field, Null) = Null
<1>1. InitialDisplay(field, Null) = String(Blank)
  BY DEF InitialDisplay, Missing
<1>2. Coerce(field, String(Blank)) = Null
  BY Coerced, Values
<1>3. QED
  BY <1>1, <1>2 DEF SentAgain, Sends

LEMMA SendsKept ==
    ASSUME NEW field \in Fields, NEW raw, raw.text.items \in Seq(ItemsShown)
    PROVE  Kept(field, Sends(field, raw)) /\ Sends(field, raw).text.items \in Seq(ItemsShown)
<1> DEFINE text == raw.text
<1>1. PICK v : v = Sends(field, raw)
  OBVIOUS
<1>2. field.type \in Types /\ field.itemType \in {"number", "text"}
  BY DEF Fields
<1>3. Sends(field, raw) = Coerce(field, raw) \/ (EmptyArray(Coerce(field, raw)) /\ v = Null)
  BY <1>1 DEF Sends
<1>4. \A w : w.type \notin {"numbers", "texts"} => ~EmptyArray(w)
  BY DEF EmptyArray, IsArray
<1>5. <<>> \in Seq(ItemsShown) /\ <<"date">> \in Seq(ItemsShown)
  BY DEF ItemsShown
<1>6. DatePlaceholder \notin ToSet(<<"date">>)
  <2>1. ToSet(<<"date">>) = {"date"} /\ DatePlaceholder # "date"
    BY DEF ToSet, DatePlaceholder
  <2>2. QED
    BY <2>1
<1>7. CASE field.type = "boolean"
  <2>1. v = Yes \/ v = No
    <3>1. Coerce(field, raw) = Yes \/ Coerce(field, raw) = No
      BY <1>7, Coerced
    <3>2. ~EmptyArray(Yes) /\ ~EmptyArray(No)
      BY <1>4, Values
    <3>3. QED
      BY <1>1, <3>1, <3>2 DEF Sends
  <2>2. SentAgain(field, v) = v
    BY <1>7, <2>1, BoolBack
  <2>3. v.text.items = <<>>
    BY <2>1, Values
  <2>4. QED
    BY <1>1, <1>5, <2>2, <2>3 DEF Kept
<1>8. ASSUME field.type # "boolean" PROVE SentAgain(field, Null) = Null
  BY <1>8, NullBack
<1>9. ASSUME field.type # "boolean", v = Null PROVE Kept(field, v) /\ v.text.items \in Seq(ItemsShown)
  BY <1>5, <1>8, <1>9, Values DEF Kept
<1>10. ASSUME field.type # "boolean", v.type \in {"string", "number"}, v.text = text,
             field.type # "date" \/ HasPlaceholder(text)
      PROVE  Kept(field, v) /\ v.text.items \in Seq(ItemsShown)
  <2>1. InitialDisplay(field, v).text = text
    BY <1>10, TextDisplayed
  <2>2. SentAgain(field, v) = v
    BY <1>1, <1>10, <2>1, TextSent DEF SentAgain
  <2>3. QED
    BY <1>10, <2>2 DEF Kept
<1>11. ASSUME field.type # "boolean", v # Null, HasPlaceholder(text)
       PROVE  Kept(field, v) /\ v.text.items \in Seq(ItemsShown)
  <2>1. text # Blank
    <3>1. ~HasPlaceholder(Blank)
      BY Values DEF HasPlaceholder, ToSet
    <3>2. QED
      BY <1>11, <3>1
  <2>2. v = String(text)
    BY <1>1, <1>3, <1>11, <2>1, Coerced
  <2>3. QED
    BY <1>10, <1>11, <2>2, Values
<1>12. ASSUME field.type # "boolean", v # Null, ~HasPlaceholder(text)
       PROVE  Kept(field, v) /\ v.text.items \in Seq(ItemsShown)
  <2>1. v = Coerce(field, raw) /\ text # Blank
    <3>1. v = Coerce(field, raw)
      BY <1>1, <1>3, <1>12
    <3>2. QED
      BY <1>12, <3>1, Coerced
  <2>2. CASE field.type \in {"number", "text", "select"}
    <3>1. v = String(text) \/ v = Numeric(text)
      BY <1>12, <2>1, <2>2, Coerced
    <3>2. QED
      BY <1>10, <1>12, <2>2, <3>1, Values
  <2>3. CASE field.type = "date"
    <3>1. v = String(IsoToBr(text))
      BY <1>12, <2>1, <2>3, Coerced
    <3>2. Iso # Br /\ Blank # Br /\ Blank # Iso
      BY Values
    <3>3. PICK t : t = IsoToBr(text)
      OBVIOUS
    <3>4. t # Iso /\ (t = Br \/ t = text) /\ t # Blank
      BY <2>1, <3>2, <3>3 DEF IsoToBr
    <3>5. ~HasPlaceholder(t)
      <4>1. ~HasPlaceholder(Br)
        BY <1>6, Values DEF HasPlaceholder
      <4>2. QED
        BY <1>12, <3>4, <4>1
    <3>6. v.type = "string" /\ v.text = t /\ v # Null
      BY <3>1, <3>3, Values
    <3>7. InitialDisplay(field, v) = String(BrToIso(t))
      BY <2>3, <3>5, <3>6 DEF InitialDisplay, Missing
    <3>8. PICK u : u = BrToIso(t)
      OBVIOUS
    <3>9. u # Blank /\ ~HasPlaceholder(u) /\ IsoToBr(u) = t
      <4>1. ~HasPlaceholder(Iso)
        BY <1>6, Values DEF HasPlaceholder
      <4>2. QED
        BY <3>2, <3>4, <3>5, <3>8, <4>1 DEF BrToIso, IsoToBr
    <3>10. Coerce(field, String(u)) = String(t)
      <4>1. String(u).text = u
        BY Values
      <4>2. QED
        BY <2>3, <3>9, <4>1, Coerced
    <3>11. SentAgain(field, v) = v
      BY <1>4, <3>1, <3>3, <3>7, <3>8, <3>10, Values DEF SentAgain, Sends
    <3>12. t.items \in Seq(ItemsShown)
      BY <1>5, <3>4, Values
    <3>13. QED
      BY <3>6, <3>11, <3>12 DEF Kept
  <2>4. CASE field.type \in {"list", "multiselect"}
    <3>1. PICK items \in Seq(ItemsShown) :
             /\ ParseList(text, field.itemType) = Array(field.itemType, items)
             /\ ParseList(Plain(items), field.itemType) = Array(field.itemType, items)
             /\ ~HasPlaceholder(Plain(items))
      BY <1>2, <1>12, ListParsed
    <3>2. v = Array(field.itemType, items)
      BY <1>12, <2>1, <2>4, <3>1, Coerced
    <3>3. v.text = Plain(items) /\ v.type \in {"numbers", "texts"}
      BY <3>2, Values
    <3>4. InitialDisplay(field, v).text = Plain(items)
      BY <1>12, <3>3, TextDisplayed
    <3>5. CASE Plain(items) = Blank
      <4>1. Coerce(field, InitialDisplay(field, v)) = Null
        BY <1>12, <3>4, <3>5, Coerced
      <4>2. SentAgain(field, v) = Null
        BY <4>1 DEF SentAgain, Sends
      <4>3. EmptyArray(v)
        BY <3>3, <3>5 DEF EmptyArray, IsArray
      <4>4. QED
        BY <3>3, <4>2, <4>3, Values DEF Kept
    <3>6. CASE Plain(items) # Blank
      <4>1. Coerce(field, InitialDisplay(field, v)) = v
        BY <1>12, <2>4, <3>1, <3>2, <3>4, <3>6, Coerced
      <4>2. ~EmptyArray(v)
        BY <3>3, <3>6 DEF EmptyArray
      <4>3. SentAgain(field, v) = v
        BY <4>1, <4>2 DEF SentAgain, Sends
      <4>4. QED
        BY <3>3, <4>3, Values DEF Kept
    <3>7. QED
      BY <3>5, <3>6
  <2>5. QED
    BY <1>2, <1>12, <2>2, <2>3, <2>4 DEF Types
<1>13. QED
  BY <1>1, <1>7, <1>9, <1>11, <1>12

FormUI(u) ==
    /\ u \in [page : {"form"}, field : Fields, allowDynamic : BOOLEAN, saved : {u.saved},
              sent : BOOLEAN, raw : {u.raw}, dynamic : BOOLEAN]
    /\ u.dynamic => CanToggleDynamic(u.field, u.allowDynamic)
    /\ u.raw.text.items \in Seq(ItemsShown) /\ u.saved.text.items \in Seq(ItemsShown)
    /\ u.sent => WellTyped(u.field, u.saved) /\ Kept(u.field, u.saved)

FormInv == left \in Purses /\ FormUI(ui)

(* What goes out has the type of its field, whatever the control holds. *)
LEMMA SendsWellTyped ==
    ASSUME NEW field \in Fields, NEW raw
    PROVE  WellTyped(field, Sends(field, raw))
<1> DEFINE text == raw.text
<1>1. field.type \in Types
  BY DEF Fields
<1>2. Iso # Br /\ Null.type = "null"
  BY DEF Iso, Br, Null, Value
<1>3. WellTyped(field, Null)
  BY DEF WellTyped
<1>4. PICK b \in {Value("true", Blank), Value("false", Blank)} : b = Bool(raw.type = "true")
  BY DEF Bool
<1>5. PICK p \in BOOLEAN : p = HasPlaceholder(text)
  <2>1. HasPlaceholder(text) \in BOOLEAN
    BY DEF HasPlaceholder
  <2>2. QED
    BY <2>1
<1>6. PICK n \in {Numeric(text), String(text)} :
        n = IF IsNumber(text) THEN Numeric(text) ELSE String(text)
  OBVIOUS
<1>7. PICK l : l = ParseList(text, field.itemType)
  OBVIOUS
<1>8. PICK v : v = IF field.type = "boolean" THEN b
                   ELSE IF text = Blank THEN Null
                   ELSE IF p THEN String(text)
                   ELSE CASE field.type = "number" -> n
                          [] field.type = "date" -> String(IsoToBr(text))
                          [] field.type \in {"list", "multiselect"} -> l
                          [] OTHER -> String(text)
  OBVIOUS
<1>9. Coerce(field, raw) = v
  BY <1>4, <1>5, <1>6, <1>7, <1>8 DEF Coerce
<1>10. p => WellTyped(field, String(text))
  BY <1>5 DEF WellTyped, String, Value
<1>11. WellTyped(field, v)
  <2>1. CASE field.type = "boolean"
    <3>1. v \in {b, Null} \/ (p /\ v = String(text))
      BY <1>8, <2>1
    <3>2. b.type \in {"true", "false"}
      BY <1>4 DEF Value
    <3>3. QED
      BY <1>3, <1>10, <2>1, <3>1, <3>2 DEF WellTyped
  <2>2. CASE field.type = "number"
    <3>1. v \in {n, Null, String(text)}
      BY <1>8, <2>2
    <3>2. n.type \in {"number", "string"} /\ String(text).type = "string"
      BY <1>6 DEF Numeric, String, Value
    <3>3. QED
      BY <1>3, <2>2, <3>1, <3>2 DEF WellTyped
  <2>3. CASE field.type = "date"
    <3>1. v \in {String(IsoToBr(text)), Null} \/ (p /\ v = String(text))
      BY <1>8, <2>3
    <3>2. /\ String(IsoToBr(text)).type = "string"
          /\ String(IsoToBr(text)).text = IsoToBr(text)
      BY DEF String, Value
    <3>3. IsoToBr(text) # Iso
      BY <1>2 DEF IsoToBr
    <3>4. QED
      BY <1>3, <1>10, <2>3, <3>1, <3>2, <3>3 DEF WellTyped
  <2>4. CASE field.type \in {"list", "multiselect"}
    <3>1. v \in {l, Null} \/ (p /\ v = String(text))
      BY <1>8, <2>4
    <3>2. PICK items : l = Array(field.itemType, items)
      BY <1>7 DEF ParseList
    <3>3. l.text.items = items
      BY <3>2 DEF Array, Value, Plain
    <3>4. QED
      BY <1>3, <1>10, <2>4, <3>1, <3>2, <3>3 DEF WellTyped
  <2>5. CASE field.type \in {"text", "select"}
    <3>1. v \in {Null, String(text)}
      BY <1>8, <2>5
    <3>2. String(text).type = "string"
      BY DEF String, Value
    <3>3. QED
      BY <1>3, <2>5, <3>1, <3>2 DEF WellTyped
  <2>6. QED
    BY <1>1, <2>1, <2>2, <2>3, <2>4, <2>5 DEF Types
<1>12. QED
  BY <1>3, <1>9, <1>11 DEF Sends

LEMMA ShortSeqs ==
    /\ <<>> \in Seq(ItemsShown)
    /\ \A i \in ItemsShown : <<i>> \in Seq(ItemsShown)
    /\ \A i, j \in ItemsShown : <<i, j>> \in Seq(ItemsShown)
    /\ "0" \in ItemsShown /\ "4814" \in ItemsShown /\ Word \in ItemsShown
    /\ DatePlaceholder \in ItemsShown /\ "date" \in ItemsShown
BY DEF ItemsShown, TextItems, Numbers

LEMMA ShortTexts ==
    /\ Blank.items \in Seq(ItemsShown) /\ Iso.items \in Seq(ItemsShown)
    /\ Br.items \in Seq(ItemsShown) /\ Option.items \in Seq(ItemsShown)
    /\ Plain(<<Word>>).items \in Seq(ItemsShown)
    /\ Plain(<<"4814", "0">>).items \in Seq(ItemsShown)
    /\ Plain(<<DatePlaceholder>>).items \in Seq(ItemsShown)
    /\ \A n \in Numbers : Plain(<<n>>).items \in Seq(ItemsShown)
<1>1. \A n \in Numbers : n \in ItemsShown
  BY DEF ItemsShown, TextItems
<1>2. QED
  BY <1>1, ShortSeqs DEF Blank, Iso, Br, Option, Plain

LEMMA Displayed ==
    ASSUME NEW field, NEW v, v.text.items \in Seq(ItemsShown)
    PROVE  InitialDisplay(field, v).text.items \in Seq(ItemsShown)
<1>1. PICK d : d = InitialDisplay(field, v)
  OBVIOUS
<1>2. \/ d = Value("true", Blank) \/ d = Value("false", Blank) \/ d = String(Blank)
      \/ d = String(Plain(<<Word>>)) \/ d = String(BrToIso(v.text)) \/ d = String(v.text)
  BY <1>1 DEF InitialDisplay, Bool
<1>3. \/ d.text = Blank \/ d.text = Plain(<<Word>>) \/ d.text = Iso \/ d.text = v.text
  BY <1>2, Values DEF Value, BrToIso
<1>4. QED
  BY <1>1, <1>3, ShortTexts

LEMMA StoredItems == ASSUME NEW v \in Stored PROVE v.text.items \in Seq(ItemsShown)
<1>1. \/ v.text = Blank \/ v.text = Plain(<<"4814", "0">>) \/ v.text = Plain(<<Word>>)
      \/ v.text = Iso \/ v.text = Br \/ v.text = Plain(<<DatePlaceholder>>)
      \/ \E n \in Numbers : v.text = Plain(<<n>>)
  BY Values DEF Stored, Bool, Value, Numbers
<1>2. QED
  BY <1>1, ShortTexts

LEMMA EnteredItems == ASSUME NEW t \in Enterable PROVE t.items \in Seq(ItemsShown)
<1>1. ASSUME t \in Texts PROVE t.items \in Seq(ItemsShown)
  <2>1. CASE t \in {Iso, Br}
    BY <2>1, Values, ShortSeqs
  <2>2. CASE \E n \in 0..2 : \E s \in [1..n -> TextItems] : t = Plain(s)
    <3>1. PICK n \in 0..2 : \E s \in [1..n -> TextItems] : t = Plain(s)
      BY <2>2
    <3>2. PICK s \in [1..n -> TextItems] : t = Plain(s)
      BY <3>1
    <3>3. s \in Seq(TextItems)
      BY <3>2
    <3>4. s \in Seq(ItemsShown)
      BY <3>3 DEF ItemsShown
    <3>5. QED
      BY <3>2, <3>4, Values
  <2>3. QED
    BY <1>1, <2>1, <2>2 DEF Texts
<1>2. t \in Texts \/ t \in {Iso, Blank, Option} \/ \E n \in Numbers : t = Plain(<<n>>)
  BY DEF Enterable
<1>3. QED
  BY <1>1, <1>2, ShortTexts

(* The chips of a multiselect, and what the user makes of them. *)
LEMMA SplitItems ==
    ASSUME NEW text, text.items \in Seq(ItemsShown)
    PROVE  SplitSelected(text) \in Seq(ItemsShown)
<1>1. PICK items \in Seq(ItemsShown) : items = text.items
  OBVIOUS
<1>2. PICK firsts : firsts = {i \in 1..Len(items) : ~\E j \in 1..i - 1 : items[j] = items[i]}
  OBVIOUS
<1>3. PICK places : places = [i \in 1..Len(items) |-> i]
  OBVIOUS
<1>4. PICK kept : kept = Filtered(places, firsts)
  OBVIOUS
<1>5. SplitSelected(text) = [k \in 1..Len(kept) |-> items[kept[k]]]
  BY <1>1, <1>2, <1>3, <1>4 DEF SplitSelected
<1>6. places \in Seq(1..Len(items))
  BY <1>3
<1>7. kept \in Seq((1..Len(items)) \cap firsts)
  BY <1>4, <1>6, FilterKeeps
<1>8. Len(kept) \in Nat /\ \A k \in 1..Len(kept) : items[kept[k]] \in ItemsShown
  BY <1>7
<1>9. QED
  BY <1>5, <1>8

LEMMA ChipItems ==
    ASSUME NEW u, u.raw.text.items \in Seq(ItemsShown), NEW i \in ItemsShown, NEW keep
    PROVE  /\ Filtered(SplitSelected(u.raw.text), keep) \in Seq(ItemsShown)
           /\ Append(SplitSelected(u.raw.text), i) \in Seq(ItemsShown)
<1>1. PICK s \in Seq(ItemsShown) : s = SplitSelected(u.raw.text)
  BY SplitItems
<1>2. Filtered(s, keep) \in Seq(ItemsShown \cap keep)
  BY FilterKeeps
<1>3. Filtered(s, keep) \in Seq(ItemsShown)
  BY <1>2
<1>4. Append(s, i) \in Seq(ItemsShown)
  BY AppendProperties
<1>5. QED
  BY <1>1, <1>3, <1>4

LEMMA OpenedTyped ==
    ASSUME NEW field \in Fields, NEW allowDynamic \in BOOLEAN, NEW saved, NEW edited \in BOOLEAN,
           saved.text.items \in Seq(ItemsShown),
           edited => WellTyped(field, saved) /\ Kept(field, saved)
    PROVE  FormUI(Opened(field, allowDynamic, saved, edited))
<1>1. PICK dynamic \in BOOLEAN : /\ dynamic = InitialDynamic(field, allowDynamic, saved)
                                 /\ dynamic => CanToggleDynamic(field, allowDynamic)
  BY DEF InitialDynamic
<1>2. PICK raw : raw = InitialDisplay(field, saved)
  OBVIOUS
<1>3. PICK u : u = [page |-> "form", field |-> field, allowDynamic |-> allowDynamic,
                    saved |-> saved, sent |-> edited, raw |-> raw, dynamic |-> dynamic]
  OBVIOUS
<1>4. raw.text.items \in Seq(ItemsShown)
  BY <1>2, Displayed
<1>5. FormUI(u)
  BY <1>1, <1>3, <1>4 DEF FormUI
<1>6. QED
  BY <1>1, <1>2, <1>3, <1>5 DEF Opened

LEMMA FormStart == FormInit => FormInv
<1> SUFFICES ASSUME FormInit PROVE FormInv
  OBVIOUS
<1>1. left \in Purses
  BY PageBounds DEF FormInit, Bounds, Purses
<1>2. FormUI(ui)
  BY OpenedTyped, StoredItems DEF FormInit
<1>3. QED
  BY <1>1, <1>2 DEF FormInv

LEMMA FormSteps == FormInv /\ [FormNext]_webVars => FormInv'
<1> SUFFICES ASSUME FormInv, [FormNext]_webVars PROVE FormInv'
  OBVIOUS
<1>1. /\ ui \in [page : {"form"}, field : Fields, allowDynamic : BOOLEAN, saved : {ui.saved},
                 sent : BOOLEAN, raw : {ui.raw}, dynamic : BOOLEAN]
      /\ ui.dynamic => CanToggleDynamic(ui.field, ui.allowDynamic)
      /\ ui.raw.text.items \in Seq(ItemsShown) /\ ui.saved.text.items \in Seq(ItemsShown)
      /\ ui.sent => WellTyped(ui.field, ui.saved) /\ Kept(ui.field, ui.saved)
  BY DEF FormInv, FormUI
<1>2. ASSUME Free, FormUI(ui') PROVE FormInv'
  BY <1>2 DEF Free, FormInv
<1>3. ASSUME NEW raw, NEW dynamic \in BOOLEAN, raw.text.items \in Seq(ItemsShown),
             dynamic => CanToggleDynamic(ui.field, ui.allowDynamic),
             ui' = [ui EXCEPT !.dynamic = dynamic, !.raw = raw]
      PROVE  FormUI(ui')
  <2>1. /\ ui' \in [page : {"form"}, field : Fields, allowDynamic : BOOLEAN,
                    saved : {ui.saved}, sent : BOOLEAN, raw : {raw}, dynamic : BOOLEAN]
        /\ ui'.field = ui.field /\ ui'.allowDynamic = ui.allowDynamic /\ ui'.saved = ui.saved
        /\ ui'.sent = ui.sent /\ ui'.raw = raw /\ ui'.dynamic = dynamic
    BY <1>1, <1>3
  <2>2. QED
    BY <1>1, <1>3, <2>1 DEF FormUI
<1>4. ASSUME NEW raw, raw.text.items \in Seq(ItemsShown), Set(raw) PROVE FormInv'
  <2>1. ui' = [ui EXCEPT !.dynamic = ui.dynamic, !.raw = raw]
    BY <1>1, <1>4 DEF Set
  <2>2. QED
    BY <1>1, <1>2, <1>3, <1>4, <2>1 DEF Set
<1>5. ASSUME Enter \/ Check \/ ToggleChip \/ AddCustom PROVE FormInv'
  <2>1. ASSUME Enter PROVE FormInv'
    BY <1>4, <2>1, EnteredItems, Values DEF Enter
  <2>2. ASSUME Check PROVE FormInv'
    <3>1. PICK raw : Set(raw) /\ (raw = Yes \/ raw = No)
      BY <2>2 DEF Check, Bool, Yes, No
    <3>2. raw.text = Blank
      BY <3>1, Values
    <3>3. QED
      BY <1>4, <3>1, <3>2, ShortTexts
  <2>3. ASSUME ToggleChip PROVE FormInv'
    <3>1. PICK i \in ToSet(Selected) \cup ToSet(Option.items) :
            Set(String(Plain(IF i \in ToSet(Selected)
                             THEN Filtered(Selected, ToSet(Selected) \ {i})
                             ELSE Append(Selected, i))))
      BY <2>3 DEF ToggleChip
    <3>2. Selected = SplitSelected(ui.raw.text) /\ Selected \in Seq(ItemsShown)
      BY <1>1, SplitItems DEF Selected
    <3>3. i \in ItemsShown
      <4>1. ToSet(Selected) \subseteq ItemsShown
        BY <3>2 DEF ToSet
      <4>2. ToSet(<<"4814">>) \subseteq ItemsShown
        BY ShortSeqs DEF ToSet
      <4>3. Option.items = <<"4814">>
        BY Values DEF Option
      <4>4. QED
        BY <3>1, <4>1, <4>2, <4>3
    <3>4. PICK s \in Seq(ItemsShown) : Set(String(Plain(s)))
      <4>1. Filtered(Selected, ToSet(Selected) \ {i}) \in Seq(ItemsShown)
        BY <1>1, <3>2, <3>3, ChipItems
      <4>2. Append(Selected, i) \in Seq(ItemsShown)
        BY <1>1, <3>2, <3>3, ChipItems
      <4>3. QED
        BY <3>1, <4>1, <4>2
    <3>5. QED
      BY <1>4, <3>4, Values
  <2>4. ASSUME AddCustom PROVE FormInv'
    <3>1. PICK i \in TextItems : Set(String(Plain(Append(Selected, i))))
      BY <2>4 DEF AddCustom
    <3>2. Selected = SplitSelected(ui.raw.text) /\ i \in ItemsShown
      BY DEF Selected, ItemsShown
    <3>3. PICK s \in Seq(ItemsShown) : Set(String(Plain(s)))
      <4>1. Append(Selected, i) \in Seq(ItemsShown)
        BY <1>1, <3>2, ChipItems
      <4>2. QED
        BY <3>1, <4>1
    <3>4. QED
      BY <1>4, <3>3, Values
  <2>5. QED
    BY <1>5, <2>1, <2>2, <2>3, <2>4
<1>6. ASSUME SetDynamic PROVE FormInv'
  <2>1. PICK dynamic \in BOOLEAN : dynamic = ~ui.dynamic
    OBVIOUS
  <2>2. ui' = [ui EXCEPT !.dynamic = dynamic, !.raw = String(Blank)]
    BY <1>6, <2>1 DEF SetDynamic
  <2>3. String(Blank).text.items \in Seq(ItemsShown)
    BY Values, ShortSeqs
  <2>4. QED
    BY <1>2, <1>3, <1>6, <2>1, <2>2, <2>3 DEF SetDynamic
<1>7. ASSUME SubmitValues PROVE FormInv'
  <2>1. FormUI(Opened(ui.field, ui.allowDynamic, Sends(ui.field, ui.raw), TRUE))
    BY <1>1, SendsWellTyped, SendsKept, OpenedTyped
  <2>2. QED
    BY <1>2, <1>7, <2>1 DEF SubmitValues
<1>8. ASSUME Reopen PROVE FormInv'
  <2>1. FormUI(Opened(ui.field, ui.allowDynamic, ui.saved, ui.sent))
    BY <1>1, OpenedTyped
  <2>2. QED
    BY <1>2, <1>8, <2>1 DEF Reopen
<1>9. CASE UNCHANGED webVars
  BY <1>9 DEF webVars, FormInv, FormUI
<1>10. QED
  BY <1>5, <1>6, <1>7, <1>8, <1>9 DEF FormNext

-----------------------------------------------------------------------------
(* The editor of schemas. *)

EditorFields ==
    [name : {"", "a", "b"}, type : Types, itemType : {"number", "text"}, required : BOOLEAN,
     options : {<<>>, Option.items}, from : {Unknown} \cup Sample]

(* A field that comes from an example has the type inferred from it.       *)
FromExample(f) ==
    f.from # Unknown => /\ f.type = InferField("a", f.from).type
                        /\ f.itemType = InferField("a", f.from).itemType

SchemaFields == {f \in EditorFields : FromExample(f)}

EditorUI(u) ==
    u \in [page : {"editor"}, fields : Seq(SchemaFields), pasting : BOOLEAN, pasted : Pastable,
           error : BOOLEAN]

EditorInv == left \in Purses /\ EditorUI(ui)

LEMMA EditorStart == EditorInit => EditorInv
<1> SUFFICES ASSUME EditorInit PROVE EditorInv
  OBVIOUS
<1>1. left \in Purses
  BY PageBounds, EditorBounds DEF EditorInit, Bounds, Purses
<1>2. EditorUI(ui)
  BY DEF EditorInit, EditorUI, Pastable
<1>3. QED
  BY <1>1, <1>2 DEF EditorInv

LEMMA Inferred ==
    ASSUME NEW name \in {"a", "b"}, NEW v \in Sample
    PROVE  InferField(name, v) \in SchemaFields
<1>1. PICK type : type = CASE v.type \in {"true", "false"} -> "boolean"
                           [] v.type = "number" -> "number"
                           [] v.type = "string" /\ v.text \in {Iso, Br} -> "date"
                           [] v.type \in {"numbers", "texts", "mixed"} -> "list"
                           [] OTHER -> "text"
  OBVIOUS
<1>2. type \in {"boolean", "number", "date", "list", "text"}
  BY <1>1
<1>3. PICK itemType \in {"number", "text"} :
        itemType = IF v.type = "numbers" THEN "number" ELSE "text"
  OBVIOUS
<1>4. PICK options \in {<<>>, Option.items} : options = <<>>
  OBVIOUS
<1>5. InferField(name, v) = [name |-> name, type |-> type, itemType |-> itemType,
                             required |-> FALSE, options |-> options, from |-> v]
  <2>1. InferField(name, v) = Field(name, type, itemType, v)
    BY <1>1, <1>3 DEF InferField, AllNumbers
  <2>2. QED
    BY <1>4, <2>1 DEF Field
<1>6. /\ type \in Types /\ itemType \in {"number", "text"} /\ options \in {<<>>, Option.items}
      /\ v \in {Unknown} \cup Sample /\ name \in {"", "a", "b"}
  BY <1>2, <1>3, <1>4 DEF Types
<1>7. [name |-> name, type |-> type, itemType |-> itemType, required |-> FALSE,
       options |-> options, from |-> v] \in EditorFields
  BY <1>6 DEF EditorFields
<1>8. FromExample(InferField(name, v))
  BY DEF FromExample, InferField, Field
<1>9. QED
  BY <1>5, <1>7, <1>8 DEF SchemaFields

LEMMA InferredSchema ==
    ASSUME NEW object \in Objects
    PROVE  SchemaFromJson(object) \in Seq(SchemaFields)
<1>1. Bool(TRUE) \in Sample
  BY DEF Sample, Stored, Bool
<1>2. \A name, v : Entry(name, v).name = name /\ Entry(name, v).value = v
  BY DEF Entry
<1>3. /\ Len(object) \in Nat
      /\ \A i \in 1..Len(object) : object[i].name \in {"a", "b"} /\ object[i].value \in Sample
  <2>1. CASE object = <<>>
    BY <2>1
  <2>2. CASE \E v \in Sample : object = <<Entry("a", v)>>
    <3>1. PICK v, e : v \in Sample /\ object = <<e>> /\ e = Entry("a", v)
      BY <2>2
    <3>2. QED
      BY <1>2, <3>1
  <2>3. CASE \E v \in Sample : object = <<Entry("b", v), Entry("a", Bool(TRUE))>>
    <3>1. PICK v, b, e, f : /\ v \in Sample /\ b \in Sample
                           /\ object = <<e, f>> /\ e = Entry("b", v) /\ f = Entry("a", b)
      BY <1>1, <2>3
    <3>2. QED
      BY <1>2, <3>1
  <2>4. QED
    BY <2>1, <2>2, <2>3 DEF Objects
<1>4. \A i \in 1..Len(object) : InferField(object[i].name, object[i].value) \in SchemaFields
  BY <1>3, Inferred
<1>5. QED
  BY <1>3, <1>4 DEF SchemaFromJson

LEMMA EditorSteps == EditorInv /\ [EditorNext]_webVars => EditorInv'
<1> SUFFICES ASSUME EditorInv, [EditorNext]_webVars PROVE EditorInv'
  OBVIOUS
<1>1. EditorUI(ui) /\ ui.fields \in Seq(SchemaFields) /\ ui.pasted \in Pastable
  BY DEF EditorInv, EditorUI
<1>2. ASSUME NEW next, EditorUI(next), Show(next) PROVE EditorInv'
  BY <1>2, Paid DEF Show, EditorInv
<1>3. ASSUME NEW fields \in Seq(SchemaFields) PROVE EditorUI([ui EXCEPT !.fields = fields])
  BY <1>1, <1>3 DEF EditorUI
<1>4. ASSUME AddField PROVE EditorInv'
  <2>1. Field("", "text", "text", Unknown) \in SchemaFields
    <3>1. PICK options \in {<<>>, Option.items}, from \in {Unknown} \cup Sample :
            options = <<>> /\ from = Unknown
      OBVIOUS
    <3>2. [name |-> "", type |-> "text", itemType |-> "text", required |-> FALSE,
           options |-> options, from |-> from] \in EditorFields
      BY DEF EditorFields, Types
    <3>3. Field("", "text", "text", Unknown).from = Unknown
      BY DEF Field
    <3>4. QED
      BY <3>1, <3>2, <3>3 DEF Field, SchemaFields, FromExample
  <2>2. Append(ui.fields, Field("", "text", "text", Unknown)) \in Seq(SchemaFields)
    BY <1>1, <2>1, AppendProperties
  <2>3. QED
    BY <1>2, <1>3, <1>4, <2>2 DEF AddField
<1>5. ASSUME RemoveField PROVE EditorInv'
  <2>1. PICK i \in DOMAIN ui.fields : Show([ui EXCEPT !.fields = RemoveAt(ui.fields, i)])
    BY <1>5 DEF RemoveField
  <2>2. i \in 1..Len(ui.fields) /\ Len(ui.fields) \in Nat
    BY <1>1, <2>1
  <2>3. /\ SubSeq(ui.fields, 1, i - 1) \in Seq(SchemaFields)
        /\ SubSeq(ui.fields, i + 1, Len(ui.fields)) \in Seq(SchemaFields)
    BY <1>1, <2>2, SubSeqProperties
  <2>4. RemoveAt(ui.fields, i) \in Seq(SchemaFields)
    BY <2>3 DEF RemoveAt
  <2>5. QED
    BY <1>2, <1>3, <2>1, <2>4
<1>6. ASSUME NEW i \in DOMAIN ui.fields, NEW f \in SchemaFields, Replace(i, f) PROVE EditorInv'
  <2>1. [ui.fields EXCEPT ![i] = f] \in Seq(SchemaFields)
    BY <1>1, <1>6
  <2>2. [ui EXCEPT !.fields[i] = f] = [ui EXCEPT !.fields = [ui.fields EXCEPT ![i] = f]]
    BY <1>1 DEF EditorUI
  <2>3. QED
    BY <1>2, <1>3, <1>6, <2>1, <2>2 DEF Replace
<1>7. ASSUME NEW i \in DOMAIN ui.fields
      PROVE  ui.fields[i] \in EditorFields /\ FromExample(ui.fields[i])
  BY <1>1, <1>7 DEF SchemaFields
<1>8. ASSUME NameField PROVE EditorInv'
  <2>1. PICK i \in DOMAIN ui.fields, n \in Names : Replace(i, [ui.fields[i] EXCEPT !.name = n])
    BY <1>8 DEF NameField
  <2>2. [ui.fields[i] EXCEPT !.name = n] \in SchemaFields
    BY <1>7, <2>1 DEF EditorFields, Names, SchemaFields, FromExample
  <2>3. QED
    BY <1>6, <2>1, <2>2
<1>9. ASSUME RetypeField PROVE EditorInv'
  <2>1. PICK i \in DOMAIN ui.fields, t \in Types :
           Replace(i, [ui.fields[i] EXCEPT !.type = t, !.from = Unknown])
    BY <1>9 DEF RetypeField
  <2>2. [ui.fields[i] EXCEPT !.type = t, !.from = Unknown] \in SchemaFields
    BY <1>7, <2>1 DEF EditorFields, SchemaFields, FromExample
  <2>3. QED
    BY <1>6, <2>1, <2>2
<1>10. ASSUME RequireField PROVE EditorInv'
  <2>1. PICK i \in DOMAIN ui.fields :
           Replace(i, [ui.fields[i] EXCEPT !.required = ~ui.fields[i].required])
    BY <1>10 DEF RequireField
  <2>2. PICK b \in BOOLEAN : b = ~ui.fields[i].required
    OBVIOUS
  <2>3. [ui.fields[i] EXCEPT !.required = b] \in SchemaFields
    BY <1>7, <2>1 DEF EditorFields, SchemaFields, FromExample
  <2>4. QED
    BY <1>6, <2>1, <2>2, <2>3
<1>11. ASSUME SetOptions PROVE EditorInv'
  <2>1. PICK i \in DOMAIN ui.fields, o \in {<<>>, Option.items} :
           Replace(i, [ui.fields[i] EXCEPT !.options = o])
    BY <1>11 DEF SetOptions
  <2>2. [ui.fields[i] EXCEPT !.options = o] \in SchemaFields
    BY <1>7, <2>1 DEF EditorFields, SchemaFields, FromExample
  <2>3. QED
    BY <1>6, <2>1, <2>2
<1>12. ASSUME SetItemType PROVE EditorInv'
  <2>1. PICK i \in DOMAIN ui.fields, t \in {"number", "text"} :
           Replace(i, [ui.fields[i] EXCEPT !.itemType = t, !.from = Unknown])
    BY <1>12 DEF SetItemType
  <2>2. [ui.fields[i] EXCEPT !.itemType = t, !.from = Unknown] \in SchemaFields
    BY <1>7, <2>1 DEF EditorFields, SchemaFields, FromExample
  <2>3. QED
    BY <1>6, <2>1, <2>2
<1>13. ASSUME TogglePaste PROVE EditorInv'
  <2>1. EditorUI([ui EXCEPT !.pasting = ~ui.pasting, !.error = FALSE])
    BY <1>1 DEF EditorUI
  <2>2. QED
    BY <1>2, <1>13, <2>1 DEF TogglePaste
<1>14. ASSUME Paste PROVE EditorInv'
  <2>1. PICK text \in Pastable : Show([ui EXCEPT !.pasted = text])
    BY <1>14 DEF Paste
  <2>2. EditorUI([ui EXCEPT !.pasted = text])
    BY <1>1, <2>1 DEF EditorUI
  <2>3. QED
    BY <1>2, <2>1, <2>2
<1>15. ASSUME ApplyPaste PROVE EditorInv'
  <2>1. CASE ui.pasted.json = "object"
    <3>1. PICK kept \in {<<>>, ui.fields} :
             Show([ui EXCEPT !.fields = kept \o SchemaFromJson(ui.pasted.entries),
                             !.pasted = Nothing, !.error = FALSE, !.pasting = FALSE])
      BY <1>15, <2>1 DEF ApplyPaste
    <3>2. ui.pasted.entries \in Objects /\ Nothing \in Pastable
      BY <1>1, <2>1 DEF Pastable, Nothing
    <3>3. kept \in Seq(SchemaFields)
      BY <1>1, <3>1, EmptySeq
    <3>4. PICK schema \in Seq(SchemaFields) : schema = SchemaFromJson(ui.pasted.entries)
      BY <3>2, InferredSchema
    <3>5. PICK fields \in Seq(SchemaFields) : fields = kept \o schema
      BY <3>3, <3>4, ConcatProperties
    <3>6. EditorUI([ui EXCEPT !.fields = fields, !.pasted = Nothing, !.error = FALSE,
                              !.pasting = FALSE])
      BY <1>1, <3>2, <3>5 DEF EditorUI
    <3>7. QED
      BY <1>2, <3>1, <3>4, <3>5, <3>6
  <2>2. CASE ui.pasted.json # "object"
    <3>1. EditorUI([ui EXCEPT !.error = TRUE])
      BY <1>1 DEF EditorUI
    <3>2. QED
      BY <1>2, <1>15, <2>2, <3>1 DEF ApplyPaste
  <2>3. QED
    BY <2>1, <2>2
<1>16. CASE UNCHANGED webVars
  BY <1>16 DEF webVars, EditorInv, EditorUI
<1>17. QED
  BY <1>4, <1>5, <1>8, <1>9, <1>10, <1>11, <1>12, <1>13, <1>14, <1>15, <1>16 DEF EditorNext

(* A field reads as the one that has its type, its items' type and whether *)
(* it is required, and nothing else.                                       *)
LEMMA AsField ==
    ASSUME NEW f, NEW field, field.type = f.type, field.itemType = f.itemType,
           field.required = f.required, NEW v
    PROVE  Sends(f, InitialDisplay(f, v)) = SentAgain(field, v)
<1>1. InitialDisplay(f, v) = InitialDisplay(field, v)
  BY DEF InitialDisplay
<1>2. ASSUME NEW raw PROVE Sends(f, raw) = Sends(field, raw)
  BY DEF Sends, Coerce
<1>3. QED
  BY <1>1, <1>2 DEF SentAgain

LEMMA InferredTypes ==
    ASSUME NEW v
    PROVE  /\ v.type \in {"true", "false"} => InferField("a", v).type = "boolean"
           /\ v.type = "number" => InferField("a", v).type = "number"
           /\ v.type = "string" /\ v.text \in {Iso, Br} => InferField("a", v).type = "date"
           /\ v.type = "string" /\ v.text \notin {Iso, Br} => InferField("a", v).type = "text"
           /\ v.type \in {"numbers", "texts"} => InferField("a", v).type = "list"
           /\ v.type = "null" => InferField("a", v).type = "text"
           /\ InferField("a", v).itemType = IF v.type = "numbers" THEN "number" ELSE "text"
BY DEF InferField, Field, AllNumbers

(* What the form sends for a value of its field that nobody touches. *)
LEMMA TextBack ==
    ASSUME NEW field \in Fields, field.type = "text", NEW text, text # Blank
    PROVE  SentAgain(field, String(text)) = String(text)
<1>1. InitialDisplay(field, String(text)).text = text
  BY TextDisplayed, Values
<1>2. Coerce(field, InitialDisplay(field, String(text))) = String(text)
  BY <1>1, Coerced
<1>3. ~EmptyArray(String(text))
  BY Values DEF EmptyArray, IsArray
<1>4. QED
  BY <1>2, <1>3 DEF SentAgain, Sends

LEMMA DateBack ==
    ASSUME NEW field \in Fields, field.type = "date", NEW text \in {Iso, Br}
    PROVE  SentAgain(field, String(text)) = String(Br)
<1>1. ~HasPlaceholder(text) /\ ~HasPlaceholder(Iso) /\ text.items = <<"date">>
  <2>1. DatePlaceholder \notin ToSet(<<"date">>)
    <3>1. ToSet(<<"date">>) = {"date"} /\ DatePlaceholder # "date"
      BY DEF ToSet, DatePlaceholder
    <3>2. QED
      BY <3>1
  <2>2. QED
    BY <2>1, Values DEF HasPlaceholder
<1>2. Iso # Br /\ Iso # Blank
  BY Values
<1>3. String(text) # Null /\ String(text).type = "string" /\ String(text).text = text
  BY Values
<1>4. InitialDisplay(field, String(text)) = String(Iso)
  BY <1>1, <1>2, <1>3 DEF InitialDisplay, Missing, BrToIso
<1>5. String(Iso).text = Iso
  BY Values
<1>6. Coerce(field, String(Iso)) = String(Br)
  BY <1>1, <1>2, <1>5, Coerced DEF IsoToBr
<1>7. ~EmptyArray(String(Br))
  BY Values DEF EmptyArray, IsArray
<1>8. QED
  BY <1>4, <1>6, <1>7 DEF SentAgain, Sends

LEMMA NumberBack ==
    ASSUME NEW field \in Fields, field.type = "number", NEW n \in Numbers
    PROVE  SentAgain(field, Numeric(Plain(<<n>>))) = Numeric(Plain(<<n>>))
<1>1. PICK text : text = Plain(<<n>>)
  OBVIOUS
<1>2. text.items = <<n>> /\ text.form = "plain" /\ text # Blank
  <2>1. text.items = <<n>> /\ text.form = "plain" /\ Blank.items = <<>>
    BY <1>1, Values
  <2>2. <<n>> # <<>>
    OBVIOUS
  <2>3. QED
    BY <2>1, <2>2
<1>3. IsNumber(text) /\ ~HasPlaceholder(text)
  <2>1. ToSet(<<n>>) = {n}
    BY DEF ToSet
  <2>2. n # DatePlaceholder
    BY DEF Numbers, DatePlaceholder
  <2>3. QED
    BY <1>2, <2>1, <2>2 DEF IsNumber, HasPlaceholder
<1>4. InitialDisplay(field, Numeric(text)).text = text
  BY TextDisplayed, Values
<1>5. Coerce(field, InitialDisplay(field, Numeric(text))) = Numeric(text)
  BY <1>2, <1>3, <1>4, Coerced
<1>6. ~EmptyArray(Numeric(text))
  BY Values DEF EmptyArray, IsArray
<1>7. QED
  BY <1>1, <1>5, <1>6 DEF SentAgain, Sends

LEMMA ListBack ==
    ASSUME NEW field \in Fields, field.type = "list", NEW items \in Seq(ItemsShown), items # <<>>,
           DatePlaceholder \notin ToSet(items),
           field.itemType = "number" => \A i \in 1..Len(items) : items[i] \in Numbers
    PROVE  SentAgain(field, Array(field.itemType, items)) = Array(field.itemType, items)
<1>1. PICK v : v = Array(field.itemType, items)
  OBVIOUS
<1>2. v.type \in {"numbers", "texts"} /\ v.text = Plain(items) /\ Plain(items).items = items
  BY <1>1, Values
<1>3. Plain(items) # Blank
  BY <1>2, Values
<1>4. ~HasPlaceholder(Plain(items))
  BY <1>2 DEF HasPlaceholder
<1>5. ParseList(Plain(items), field.itemType) = v
  <2>1. field.itemType = "number" => Filtered(items, Numbers) = items
    BY FilterKeeps
  <2>2. QED
    BY <1>1, <1>2, <2>1 DEF ParseList
<1>6. InitialDisplay(field, v).text = Plain(items)
  BY <1>2, TextDisplayed
<1>7. Coerce(field, InitialDisplay(field, v)) = v
  BY <1>3, <1>4, <1>5, <1>6, Coerced
<1>8. ~EmptyArray(v)
  BY <1>2, <1>3 DEF EmptyArray
<1>9. QED
  BY <1>1, <1>7, <1>8 DEF SentAgain, Sends

LEMMA SampleBack ==
    ASSUME NEW v \in Sample, Carried(v), NEW field \in Fields,
           field.type = InferField("a", v).type, field.itemType = InferField("a", v).itemType
    PROVE  SentAgain(field, v) = InBrDates(v)
<1> DEFINE Back == SentAgain(field, v) = InBrDates(v)
<1>1. v # String(Iso) => InBrDates(v) = v
  BY DEF InBrDates
<1>2. CASE v = Null
  BY <1>1, <1>2, NullBack, InferredTypes, Values
<1>3. CASE v = Yes \/ v = No
  BY <1>1, <1>3, BoolBack, InferredTypes, Values
<1>4. ASSUME NEW n \in Numbers, v = Numeric(Plain(<<n>>)) PROVE Back
  BY <1>1, <1>4, NumberBack, InferredTypes, Values
<1>5. CASE v = String(Iso) \/ v = String(Br)
  <2>1. field.type = "date"
    BY <1>5, InferredTypes, Values
  <2>2. QED
    BY <1>5, <2>1, DateBack DEF InBrDates
<1>6. ASSUME NEW items, v = String(Plain(items)), items # <<>> PROVE Back
  <2>1. v.type = "string" /\ v.text = Plain(items) /\ Plain(items) \notin {Iso, Br, Blank}
    BY <1>6, Values
  <2>2. v # String(Iso)
    BY <2>1, Values
  <2>3. field.type = "text"
    BY <2>1, InferredTypes
  <2>4. QED
    BY <1>1, <1>6, <2>1, <2>2, <2>3, TextBack
<1>7. CASE v = Array("number", <<"4814", "0">>)
  <2>1. PICK items \in Seq(ItemsShown) : items = <<"4814", "0">>
    BY ShortSeqs
  <2>2. /\ items # <<>> /\ Len(items) = 2
        /\ \A i \in 1..Len(items) : items[i] \in Numbers
        /\ ToSet(items) = {"4814", "0"}
    BY <2>1 DEF Numbers, ToSet
  <2>3. DatePlaceholder \notin ToSet(items)
    BY <2>2 DEF DatePlaceholder
  <2>4. v.type = "numbers" /\ v # String(Iso)
    BY <1>7, Values
  <2>5. field.type = "list" /\ field.itemType = "number"
    BY <2>4, InferredTypes
  <2>6. SentAgain(field, Array(field.itemType, items)) = Array(field.itemType, items)
    BY <2>2, <2>3, <2>5, ListBack
  <2>7. QED
    BY <1>1, <1>7, <2>1, <2>4, <2>5, <2>6
<1>8. CASE v = Array("text", <<Word>>)
  <2>1. PICK items \in Seq(ItemsShown) : items = <<Word>>
    BY ShortSeqs
  <2>2. items # <<>> /\ ToSet(items) = {Word}
    BY <2>1 DEF ToSet
  <2>3. DatePlaceholder \notin ToSet(items)
    BY <2>2 DEF DatePlaceholder, Word
  <2>4. v.type = "texts" /\ v # String(Iso)
    BY <1>8, Values
  <2>5. field.type = "list" /\ field.itemType = "text"
    BY <2>4, InferredTypes
  <2>6. SentAgain(field, Array(field.itemType, items)) = Array(field.itemType, items)
    BY <2>2, <2>3, <2>5, ListBack
  <2>7. QED
    BY <1>1, <1>8, <2>1, <2>4, <2>5, <2>6
<1>9. v \notin {Mixed, Nested, String(Blank), Array("number", <<>>), Array("text", <<DatePlaceholder>>)}
  <2>1. v \notin {Mixed, Nested, String(Blank)}
    BY DEF Carried
  <2>2. v # Array("number", <<>>)
    BY Values DEF Carried, EmptyArray, IsArray, Blank
  <2>3. v # Array("text", <<DatePlaceholder>>)
    <3>1. PICK w : w = Array("text", <<DatePlaceholder>>)
      OBVIOUS
    <3>2. w.type = "texts" /\ w.text.items = <<DatePlaceholder>>
      BY <3>1, Values
    <3>3. IsArray(w) /\ HasPlaceholder(w.text)
      BY <3>2 DEF IsArray, HasPlaceholder, ToSet
    <3>4. QED
      BY <3>1, <3>3 DEF Carried
  <2>4. QED
    BY <2>1, <2>2, <2>3
<1>10. \/ v \in {Null, Yes, No, Array("number", <<"4814", "0">>), Array("text", <<Word>>)}
       \/ \E n \in Numbers : v = Numeric(Plain(<<n>>))
       \/ v \in {String(Iso), String(Br), String(Plain(<<Word>>)), String(Plain(<<"0">>)),
                 String(Plain(<<DatePlaceholder>>))}
  BY <1>9 DEF Sample, Stored, Bool, Yes, No
<1>11. <<Word>> # <<>> /\ <<"0">> # <<>> /\ <<DatePlaceholder>> # <<>>
  OBVIOUS
<1>12. QED
  BY <1>2, <1>3, <1>4, <1>5, <1>6, <1>7, <1>8, <1>10, <1>11

-----------------------------------------------------------------------------
(* The builder of cron expressions. *)

(* Fields of an expression; a part that says "last" is the token L.        *)
Parts == [k : {"star", "num", "range", "last"}, lo : Nat, hi : Nat, step : Nat, plain : BOOLEAN]
CronFields == (SUBSET Parts) \ {{}}

WellFormed(e) ==
    /\ e \in [minute : CronFields, hour : CronFields, dom : CronFields, month : CronFields,
              dow : CronFields, descriptor : BOOLEAN]
    /\ \A p \in e.dom : p.k = "last" => p = LastDay

(* What the builder can show: no day of the month is possible with L only. *)
IsModel(m) ==
    \/ m = Custom
    \/ \E unit \in {"minute", "hour"}, n \in Nat \ {0} : m = EveryN(unit, n)
    \/ \E h \in 0..23, i \in 0..59 :
         \/ m = Daily(h, i)
         \/ \E days \in SUBSET (0..6) : days # {} /\ m = Weekly(days, h, i)
         \/ \E days \in SUBSET (1..31), lastDay \in BOOLEAN :
              (days # {} \/ lastDay) /\ m = Monthly(days, lastDay, h, i)

LEMMA PartKinds ==
    /\ Star \in Parts /\ Star.k = "star" /\ Star.step = 0 /\ Star.plain
    /\ LastDay \in Parts /\ LastDay.k = "last"
    /\ \A n \in Nat : /\ Every(n) \in Parts /\ Every(n).k = "star" /\ Every(n).step = n
                      /\ Num(n) \in Parts /\ Num(n).k = "num" /\ Num(n).step = 0 /\ Num(n).plain
                      /\ Num(n).lo = n /\ Num(n).hi = n
    /\ \A a, n \in Nat : /\ From(a, n) \in Parts /\ From(a, n).k = "num"
                         /\ From(a, n).lo = a /\ From(a, n).hi = a
    /\ \A a, b \in Nat : /\ Span(a, b) \in Parts /\ Span(a, b).k = "range" /\ Span(a, b).step = 0
                         /\ Span(a, b).lo = a /\ Span(a, b).hi = b /\ Span(a, b).plain
BY DEF Parts, Star, LastDay, Every, Num, From, Span, Part

LEMMA NamedKinds ==
    /\ Named(Star) \in Parts /\ Named(Star).k = "star"
    /\ \A a, b \in Nat : Named(Span(a, b)) \in Parts /\ Named(Span(a, b)).k = "range"
BY DEF Named, Parts, Star, Span, Part

(* Fields of one part. *)
LEMMA OneInt ==
    ASSUME NEW f \in CronFields, IsInt(f)
    PROVE  AsInt(f) \in Nat
BY DEF CronFields, IsInt, AsInt, Parts

LEMMA OneStep ==
    ASSUME NEW f \in CronFields, IsStep(f)
    PROVE  AsStep(f) \in Nat \ {0}
BY DEF CronFields, IsStep, AsStep, Parts

LEMMA IntWritten ==
    ASSUME NEW n \in Nat
    PROVE  /\ {Num(n)} \in CronFields /\ IsInt({Num(n)}) /\ AsInt({Num(n)}) = n /\ ~IsStep({Num(n)})
           /\ {Num(n)} # Stars
<1>1. PICK p : p = Num(n)
  OBVIOUS
<1>2. p \in Parts /\ p.k = "num" /\ p.step = 0 /\ p.lo = n /\ p.plain
  BY <1>1, PartKinds
<1>3. {p} \in CronFields /\ IsInt({p}) /\ AsInt({p}) = n
  BY <1>2 DEF CronFields, IsInt, AsInt
<1>4. ~IsStep({p}) /\ {p} # Stars
  BY <1>2, PartKinds DEF IsStep, Stars
<1>5. QED
  BY <1>1, <1>3, <1>4

LEMMA StepWritten ==
    ASSUME NEW n \in Nat \ {0}
    PROVE  /\ {Every(n)} \in CronFields /\ IsStep({Every(n)}) /\ AsStep({Every(n)}) = n
           /\ ~IsInt({Every(n)}) /\ {Every(n)} # Stars
<1>1. PICK p : p = Every(n)
  OBVIOUS
<1>2. p \in Parts /\ p.k = "star" /\ p.step = n
  BY <1>1, PartKinds
<1>3. {p} \in CronFields /\ IsStep({p}) /\ AsStep({p}) = n
  BY <1>2 DEF CronFields, IsStep, AsStep
<1>4. ~IsInt({p}) /\ {p} # Stars
  BY <1>2, PartKinds DEF IsInt, Stars
<1>5. QED
  BY <1>1, <1>3, <1>4

LEMMA StarWritten == Stars \in CronFields /\ ~IsInt(Stars) /\ ~IsStep(Stars)
BY PartKinds DEF Stars, CronFields, IsInt, IsStep

(* What an expression is read as. *)
LEMMA ReadsModel ==
    ASSUME NEW e, WellFormed(e)
    PROVE  IsModel(ParseCron(e))
<1>1. /\ e.minute \in CronFields /\ e.hour \in CronFields /\ e.dom \in CronFields
      /\ e.month \in CronFields /\ e.dow \in CronFields
  BY DEF WellFormed
<1>2. PICK h, i : h = AsInt(e.hour) /\ i = AsInt(e.minute)
  OBVIOUS
<1>3. PICK a, b : a = AsStep(e.minute) /\ b = AsStep(e.hour)
  OBVIOUS
<1>4. PICK days, dates : days = ParseDays(e.dow) /\ dates = {p.lo : p \in e.dom \ {LastDay}}
  OBVIOUS
<1>5. \/ ParseCron(e) = Custom
      \/ IsStep(e.minute) /\ ParseCron(e) = EveryN("minute", a)
      \/ IsStep(e.hour) /\ ParseCron(e) = EveryN("hour", b)
      \/ ParseCron(e) = EveryN("hour", 1)
      \/ /\ IsInt(e.minute) /\ IsInt(e.hour) /\ i <= 59 /\ h <= 23
         /\ \/ ParseCron(e) = Daily(h, i)
            \/ ParseableDays(e.dow) /\ ParseCron(e) = Weekly(days, h, i)
            \/ /\ ParseableMonthDays(e.dom)
               /\ ParseCron(e) = Monthly(dates, LastDay \in e.dom, h, i)
  BY <1>2, <1>3, <1>4 DEF ParseCron
<1>6. IsStep(e.minute) => a \in Nat \ {0}
  BY <1>1, <1>3, OneStep
<1>7. IsStep(e.hour) => b \in Nat \ {0}
  BY <1>1, <1>3, OneStep
<1>8. IsInt(e.minute) /\ i <= 59 => i \in 0..59
  BY <1>1, <1>2, OneInt
<1>9. IsInt(e.hour) /\ h <= 23 => h \in 0..23
  BY <1>1, <1>2, OneInt
<1>10. ParseableDays(e.dow) => days \subseteq 0..6 /\ days # {}
  <2>1. PICK p \in e.dow : TRUE
    BY <1>1 DEF CronFields
  <2>2. \A q \in e.dow : q.lo \in Nat /\ q.hi \in Nat
    BY <1>1 DEF CronFields, Parts
  <2>3. HAVE ParseableDays(e.dow)
  <2>4. p.lo \in p.lo..p.hi
    BY <2>2, <2>3 DEF ParseableDays
  <2>5. p.lo % 7 \in days
    BY <1>4, <2>4 DEF ParseDays
  <2>6. days \subseteq 0..6
    BY <1>4, <2>2 DEF ParseDays
  <2>7. QED
    BY <2>5, <2>6
<1>11. ParseableMonthDays(e.dom) => dates \subseteq 1..31 /\ (dates # {} \/ LastDay \in e.dom)
  <2>1. PICK p \in e.dom : TRUE
    BY <1>1 DEF CronFields
  <2>2. HAVE ParseableMonthDays(e.dom)
  <2>3. \A q \in e.dom \ {LastDay} : q.lo \in 1..31
    BY <2>2 DEF ParseableMonthDays, WellFormed
  <2>4. p # LastDay => p.lo \in dates
    BY <1>4
  <2>5. dates \subseteq 1..31
    BY <1>4, <2>3
  <2>6. QED
    BY <2>4, <2>5
<1>12. CASE \/ ParseCron(e) = Custom
            \/ IsStep(e.minute) /\ ParseCron(e) = EveryN("minute", a)
            \/ IsStep(e.hour) /\ ParseCron(e) = EveryN("hour", b)
            \/ ParseCron(e) = EveryN("hour", 1)
  <2>1. 1 \in Nat \ {0}
    OBVIOUS
  <2>2. QED
    BY <1>6, <1>7, <1>12, <2>1 DEF IsModel
<1>13. CASE /\ IsInt(e.minute) /\ IsInt(e.hour) /\ i <= 59 /\ h <= 23
            /\ \/ ParseCron(e) = Daily(h, i)
               \/ ParseableDays(e.dow) /\ ParseCron(e) = Weekly(days, h, i)
               \/ /\ ParseableMonthDays(e.dom)
                  /\ ParseCron(e) = Monthly(dates, LastDay \in e.dom, h, i)
  <2>1. h \in 0..23 /\ i \in 0..59
    BY <1>8, <1>9, <1>13
  <2>2. CASE ParseCron(e) = Daily(h, i)
    BY <2>1, <2>2 DEF IsModel
  <2>3. CASE ParseableDays(e.dow) /\ ParseCron(e) = Weekly(days, h, i)
    BY <1>10, <2>1, <2>3 DEF IsModel
  <2>4. CASE /\ ParseableMonthDays(e.dom)
             /\ ParseCron(e) = Monthly(dates, LastDay \in e.dom, h, i)
    <3>1. dates \in SUBSET (1..31) /\ (dates # {} \/ LastDay \in e.dom)
      BY <1>11, <2>4
    <3>2. CASE LastDay \in e.dom
      <4>1. ParseCron(e) = Monthly(dates, TRUE, h, i)
        BY <2>4, <3>2 DEF Monthly, Model
      <4>2. QED
        BY <2>1, <3>1, <4>1 DEF IsModel
    <3>3. CASE LastDay \notin e.dom
      <4>1. (LastDay \in e.dom) = FALSE
        BY <3>3
      <4>2. ParseCron(e) = Monthly(dates, FALSE, h, i)
        BY <2>4, <4>1, Zenon
      <4>3. QED
        BY <2>1, <3>1, <3>3, <4>2 DEF IsModel
    <3>4. QED
      BY <3>2, <3>3
  <2>5. QED
    BY <1>13, <2>2, <2>3, <2>4
<1>14. QED
  BY <1>5, <1>12, <1>13

(* A set of days of the week has a first and a last one. *)
LEMMA DayLimits ==
    ASSUME NEW days \in SUBSET (0..6), days # {}
    PROVE  /\ Least(days) \in days /\ \A d \in days : Least(days) <= d
           /\ Greatest(days) \in days /\ \A d \in days : d <= Greatest(days)
<1>1. \E x \in days : \A y \in days : x <= y
  <2>1. days \in SUBSET Nat
    OBVIOUS
  <2>2. QED
    BY <2>1, Earliest
<1>2. \E x \in days : \A y \in days : y <= x
  BY Latest
<1>3. \A x, y \in days : y <= x <=> x >= y
  OBVIOUS
<1>4. Least(days) \in days /\ \A d \in days : Least(days) <= d
  BY <1>1 DEF Least
<1>5. Greatest(days) \in days /\ \A d \in days : Greatest(days) >= d
  BY <1>2, <1>3 DEF Greatest
<1>6. QED
  BY <1>4, <1>5, <1>3

(* The days' field as it is written is read as these days. *)
LEMMA DaysWritten ==
    ASSUME NEW days \in SUBSET (0..6), days # {}
    PROVE  /\ BuildDaysField(days) \in CronFields
           /\ BuildDaysField(days) # Stars
           /\ ParseableDays(BuildDaysField(days)) /\ ParseDays(BuildDaysField(days)) = days
           /\ StandardAccepts(BuildDaysField(days), 0, 6, TRUE)
<1>1. PICK f : f = BuildDaysField(days)
  OBVIOUS
<1>2. \/ days = Least(days)..Greatest(days) /\ f = {Span(Least(days), Greatest(days))}
      \/ f = {Num(d) : d \in days}
  BY <1>1 DEF BuildDaysField
<1>3. \A d \in days : d \in Nat /\ d <= 6 /\ d % 7 = d
  OBVIOUS
<1>4. CASE days = Least(days)..Greatest(days) /\ f = {Span(Least(days), Greatest(days))}
  <2>1. PICK a, b : a = Least(days) /\ b = Greatest(days)
    OBVIOUS
  <2>2. a \in days /\ b \in days /\ a <= b
    BY <2>1, DayLimits
  <2>3. PICK p : p = Span(a, b)
    OBVIOUS
  <2>4. /\ p \in Parts /\ p.k = "range" /\ p.step = 0 /\ p.lo = a /\ p.hi = b /\ p.plain
        /\ a \in Nat /\ b \in Nat
    BY <1>3, <2>2, <2>3, PartKinds
  <2>5. f = {p} /\ days = a..b /\ b <= 6
    BY <1>3, <1>4, <2>1, <2>2, <2>3
  <2>6. ParseDays(f) = {d % 7 : d \in a..b}
    BY <2>4, <2>5 DEF ParseDays
  <2>7. ParseDays(f) = days
    <3>1. \A d \in a..b : d % 7 = d
      BY <1>3, <2>5
    <3>2. {d % 7 : d \in a..b} = a..b
      BY <3>1
    <3>3. QED
      BY <2>5, <2>6, <3>2
  <2>8. {p} \in CronFields
    BY <2>4 DEF CronFields
  <2>9. {p} # Stars
    BY <2>4, PartKinds DEF Stars
  <2>10. ParseableDays(f) /\ StandardAccepts(f, 0, 6, TRUE)
    BY <2>2, <2>4, <2>5 DEF ParseableDays, StandardAccepts
  <2>11. QED
    BY <1>1, <2>5, <2>7, <2>8, <2>10, <2>9
<1>5. CASE f = {Num(d) : d \in days}
  <2>1. \A p \in f : \E d \in days : p = Num(d) /\ p \in Parts /\ p.k = "num" /\ p.step = 0
                                     /\ p.lo = d /\ p.hi = d /\ p.plain
    BY <1>3, <1>5, PartKinds
  <2>2. \A d \in days : \E p \in f : p.lo = d /\ p.hi = d
    BY <1>3, <1>5, PartKinds
  <2>3. \A x : x \in UNION {p.lo..p.hi : p \in f} <=> x \in days
    <3>1. \A p \in f : \A x : x \in p.lo..p.hi <=> x = p.lo
      BY <1>3, <2>1
    <3>2. \A p \in f : p.lo \in days
      BY <2>1
    <3>3. \A d \in days : \E p \in f : d \in p.lo..p.hi
      BY <2>2, <3>1
    <3>4. \A x : (\E p \in f : x \in p.lo..p.hi) <=> x \in days
      BY <3>1, <3>2, <3>3
    <3>5. QED
      BY <3>4
  <2>4. ParseDays(f) = days
    BY <1>3, <2>3 DEF ParseDays
  <2>5. f \in CronFields /\ f # Stars
    BY <1>5, <2>1, <2>2, PartKinds DEF CronFields, Stars
  <2>6. ParseableDays(f) /\ StandardAccepts(f, 0, 6, TRUE)
    BY <1>3, <2>1 DEF ParseableDays, StandardAccepts
  <2>7. QED
    BY <1>1, <2>4, <2>5, <2>6
<1>6. QED
  BY <1>2, <1>4, <1>5

(* What the builder writes is accepted, and read as what was meant.        *)
LEMMA EveryNReadBack ==
    ASSUME NEW unit \in {"minute", "hour"}, NEW n \in Nat \ {0}, NEW e,
           e = BuildCron(EveryN(unit, n))
    PROVE  WellFormed(e) /\ ParseCron(e) = EveryN(unit, n) /\ CronAccepted(e)
<1>1. PICK m : m = EveryN(unit, n)
  OBVIOUS
<1>2. m.mode = "everyN" /\ m.unit = unit /\ m.n = n
  BY <1>1 DEF EveryN, Model
<1>3. PICK f : f = {Every(n)}
  OBVIOUS
<1>4. f \in CronFields /\ IsStep(f) /\ AsStep(f) = n /\ ~IsInt(f) /\ f # Stars
  BY <1>3, StepWritten
<1>5. PICK z : z = {Num(0)}
  OBVIOUS
<1>6. z \in CronFields /\ IsInt(z) /\ AsInt(z) = 0 /\ ~IsStep(z) /\ z # Stars
  BY <1>5, IntWritten
<1>7. \A p \in Stars : p.k = "star"
  BY PartKinds DEF Stars
<1>8. \A p \in f : p.k = "star"
  BY <1>3, PartKinds
<1>9. \A p \in z : p.k = "num" /\ p.lo = 0 /\ p.hi = 0
  BY <1>5, PartKinds
<1>10. LastDay \notin Stars
  BY <1>7, PartKinds
<1>11. CASE unit = "minute"
  <2>1. e = [minute |-> f, hour |-> Stars, dom |-> Stars, month |-> Stars, dow |-> Stars,
         descriptor |-> FALSE]
    BY <1>1, <1>2, <1>3, <1>11 DEF BuildCron, Cron
  <2>2. WellFormed(e)
    BY <1>4, <1>7, <2>1, StarWritten DEF WellFormed
  <2>3. ParseCron(e) = EveryN(unit, n)
    <3>1. /\ e.minute = f /\ e.hour = Stars /\ e.dom = Stars /\ e.month = Stars /\ e.dow = Stars
          /\ ~e.descriptor
      BY <2>1
    <3>2. f # {Num(0)}
      BY <1>4, <1>5, <1>6
    <3>3. QED
      BY <1>4, <1>11, <3>1, <3>2, StarWritten DEF ParseCron
  <2>4. CronAccepted(e)
    BY <1>7, <1>8, <1>10, <2>1 DEF CronAccepted, HasL, StandardAccepts
  <2>5. QED
    BY <2>2, <2>3, <2>4
<1>12. CASE unit = "hour"
  <2>1. e = [minute |-> z, hour |-> f, dom |-> Stars, month |-> Stars, dow |-> Stars,
         descriptor |-> FALSE]
    BY <1>1, <1>2, <1>3, <1>5, <1>12 DEF BuildCron, Cron
  <2>2. WellFormed(e)
    BY <1>4, <1>6, <1>7, <2>1, StarWritten DEF WellFormed
  <2>3. ParseCron(e) = EveryN(unit, n)
    BY <1>4, <1>5, <1>6, <1>12, <2>1, StarWritten DEF ParseCron
  <2>4. CronAccepted(e)
    <3>1. \A p \in z : p.plain
      BY <1>5, PartKinds
    <3>2. QED
      BY <1>7, <1>8, <1>9, <1>10, <2>1, <3>1 DEF CronAccepted, HasL, StandardAccepts
  <2>5. QED
    BY <2>2, <2>3, <2>4
<1>13. QED
  BY <1>11, <1>12

(* Days of the month given by number. *)
MonthDays(dom) ==
    \A p \in dom \ {LastDay} : p.k = "num" /\ p.plain /\ p.step = 0 /\ p.lo \in 1..31

DaysTaken(dom) == StandardAccepts(dom, 1, 31, FALSE)

(* The two fields of the time, and the days of a week or of a month.       *)
LEMMA TimedReadBack ==
    ASSUME NEW h \in 0..23, NEW i \in 0..59, NEW dom \in CronFields, NEW dow \in CronFields, NEW e,
           e = Cron({Num(i)}, {Num(h)}, dom, Stars, dow)
    PROVE  /\ dom = Stars /\ dow = Stars => ParseCron(e) = Daily(h, i)
           /\ dom = Stars /\ dow # Stars /\ ParseableDays(dow) =>
                ParseCron(e) = Weekly(ParseDays(dow), h, i)
           /\ (\A p \in dom : p.k = "last" => p = LastDay) => WellFormed(e)
           /\ LastDay \in dom /\ dow = Stars /\ MonthDays(dom) => CronAccepted(e)
           /\ LastDay \notin dom /\ DaysTaken(dom) /\ StandardAccepts(dow, 0, 6, TRUE) =>
                CronAccepted(e)
<1> h \in Nat /\ i \in Nat
  OBVIOUS
<1>1. PICK f, g : f = {Num(i)} /\ g = {Num(h)}
  OBVIOUS
<1>2. f \in CronFields /\ IsInt(f) /\ AsInt(f) = i /\ ~IsStep(f) /\ f # Stars
  BY <1>1, IntWritten
<1>3. g \in CronFields /\ IsInt(g) /\ AsInt(g) = h /\ ~IsStep(g) /\ g # Stars
  BY <1>1, IntWritten
<1>4. e = [minute |-> f, hour |-> g, dom |-> dom, month |-> Stars, dow |-> dow,
         descriptor |-> FALSE]
  BY <1>1 DEF Cron
<1>5. /\ e.minute = f /\ e.hour = g /\ e.dom = dom /\ e.month = Stars /\ e.dow = dow
      /\ ~e.descriptor
  BY <1>4
<1>6. /\ IsInt(e.minute) /\ ~IsStep(e.minute) /\ AsInt(e.minute) = i /\ i <= 59
       /\ IsInt(e.hour) /\ ~IsStep(e.hour) /\ AsInt(e.hour) = h /\ h <= 23 /\ e.hour # Stars
  BY <1>2, <1>3, <1>5
<1>7. dom = Stars /\ dow = Stars => ParseCron(e) = Daily(h, i)
  BY <1>5, <1>6 DEF ParseCron
<1>8. dom = Stars /\ dow # Stars /\ ParseableDays(dow) => ParseCron(e) = Weekly(ParseDays(dow), h, i)
  <2>1. CASE dom = Stars /\ dow # Stars /\ ParseableDays(dow)
    <3>1. ParseCron(e) = Weekly(ParseDays(e.dow), AsInt(e.hour), AsInt(e.minute))
      BY <1>5, <1>6, <2>1 DEF ParseCron
    <3>2. QED
      BY <1>5, <1>6, <3>1
  <2>2. QED
    BY <2>1
<1>9. (\A p \in dom : p.k = "last" => p = LastDay) => WellFormed(e)
  <2>1. PICK b \in BOOLEAN : b = FALSE
    OBVIOUS
  <2>2. e \in [minute : CronFields, hour : CronFields, dom : CronFields, month : CronFields,
              dow : CronFields, descriptor : BOOLEAN]
    <3>1. e = [minute |-> f, hour |-> g, dom |-> dom, month |-> Stars, dow |-> dow,
               descriptor |-> b]
      BY <1>4, <2>1
    <3>2. f \in CronFields /\ g \in CronFields /\ Stars \in CronFields
      BY <1>2, <1>3, StarWritten
    <3>3. QED
      BY <3>1, <3>2
  <2>3. QED
    BY <1>5, <2>2 DEF WellFormed
<1>10. /\ StandardAccepts(f, 0, 59, FALSE) /\ StandardAccepts(g, 0, 23, FALSE)
       /\ StandardAccepts(Stars, 1, 12, TRUE)
  <2>1. i \in Nat /\ h \in Nat
    OBVIOUS
  <2>2. \A p \in f : p.lo = i /\ p.hi = i /\ p.plain
    BY <1>1, <2>1, PartKinds
  <2>3. \A p \in g : p.lo = h /\ p.hi = h /\ p.plain
    BY <1>1, <2>1, PartKinds
  <2>4. QED
    BY <2>2, <2>3, PartKinds DEF StandardAccepts, Stars
<1>11. ASSUME LastDay \in dom, dow = Stars, MonthDays(dom)
       PROVE  CronAccepted(e)
  BY <1>5, <1>11, <1>6 DEF CronAccepted, HasL, MonthDaysAccepted, MonthDays
<1>12. ASSUME LastDay \notin dom, DaysTaken(dom), StandardAccepts(dow, 0, 6, TRUE)
       PROVE  CronAccepted(e)
  BY <1>5, <1>10, <1>12 DEF CronAccepted, HasL, DaysTaken
<1>13. QED
  BY <1>7, <1>8, <1>9, <1>11, <1>12

(* The days of the month given by number, read and written. *)
NumsOf(days) == {Num(d) : d \in days}
DatesOf(dom) == {p.lo : p \in dom \ {LastDay}}

LEMMA MonthlyReadBack ==
    ASSUME NEW h \in 0..23, NEW i \in 0..59, NEW dom \in CronFields, dom # Stars,
           ParseableMonthDays(dom),
           NEW e, e = Cron({Num(i)}, {Num(h)}, dom, Stars, Stars)
    PROVE  /\ LastDay \in dom => ParseCron(e) = Monthly(DatesOf(dom), TRUE, h, i)
           /\ LastDay \notin dom => ParseCron(e) = Monthly(DatesOf(dom), FALSE, h, i)
<1> h \in Nat /\ i \in Nat
  OBVIOUS
<1>1. PICK f, g : f = {Num(i)} /\ g = {Num(h)}
  OBVIOUS
<1>2. /\ e.minute = f /\ e.hour = g /\ e.dom = dom /\ e.month = Stars /\ e.dow = Stars
      /\ ~e.descriptor
  BY <1>1 DEF Cron
<1>3. IsInt(f) /\ AsInt(f) = i /\ ~IsStep(f)
  BY <1>1, IntWritten
<1>4. IsInt(g) /\ AsInt(g) = h /\ ~IsStep(g) /\ g # Stars
  BY <1>1, IntWritten
<1>5. /\ IsInt(e.minute) /\ ~IsStep(e.minute) /\ AsInt(e.minute) = i /\ i <= 59
      /\ IsInt(e.hour) /\ ~IsStep(e.hour) /\ AsInt(e.hour) = h /\ h <= 23 /\ e.hour # Stars
  BY <1>2, <1>3, <1>4
<1>6. ParseCron(e) = Monthly({p.lo : p \in e.dom \ {LastDay}}, LastDay \in e.dom,
                             AsInt(e.hour), AsInt(e.minute))
  BY <1>5, <1>2 DEF ParseCron
<1>7. {p.lo : p \in e.dom \ {LastDay}} = DatesOf(dom)
  BY <1>2 DEF DatesOf
<1>8. CASE LastDay \in dom
  <2>1. (LastDay \in e.dom) = TRUE
    BY <1>8, <1>2
  <2>2. QED
    BY <1>5, <1>6, <1>7, <1>8, <2>1, Zenon
<1>9. CASE LastDay \notin dom
  <2>1. (LastDay \in e.dom) = FALSE
    BY <1>9, <1>2
  <2>2. QED
    BY <1>5, <1>6, <1>7, <1>9, <2>1, Zenon
<1>10. QED
  BY <1>8, <1>9

LEMMA MonthDaysWritten ==
    ASSUME NEW days \in SUBSET (1..31), NEW L \in SUBSET {LastDay}, days # {} \/ L # {}, NEW dom,
           dom = NumsOf(days) \cup L
    PROVE  /\ dom \in CronFields /\ dom # Stars /\ ParseableMonthDays(dom)
           /\ DatesOf(dom) = days
           /\ LastDay \in dom <=> LastDay \in L
           /\ \A p \in dom : p.k = "last" => p = LastDay
           /\ MonthDays(dom)
           /\ LastDay \notin dom => DaysTaken(dom)
<1>1. \A d \in days : d \in Nat
  OBVIOUS
<1>2. /\ \A p \in dom : p # LastDay => \E d \in days : p = Num(d)
      /\ \A d \in days : Num(d) \in dom
      /\ L \subseteq dom
  BY DEF NumsOf
<1>3. \A p \in dom : p # LastDay => /\ p \in Parts /\ p.k = "num" /\ p.step = 0 /\ p.plain
                                    /\ p.lo \in days /\ p.hi = p.lo
  BY <1>1, <1>2, PartKinds
<1>4. \A d \in days : Num(d) \in dom \ {LastDay} /\ Num(d).lo = d
  BY <1>1, <1>2, PartKinds
<1>5. LastDay \in dom <=> LastDay \in L
  BY <1>1, PartKinds DEF NumsOf
<1>6. dom \in CronFields
  BY <1>3, <1>4, <1>5, PartKinds DEF CronFields
<1>7. Star \notin dom
  BY <1>3, PartKinds
<1>8. dom # Stars
  BY <1>7 DEF Stars
<1>9. DatesOf(dom) = days
  <2>1. \A p \in dom \ {LastDay} : p.lo \in days
    BY <1>3
  <2>2. \A d \in days : \E p \in dom \ {LastDay} : d = p.lo
    BY <1>4
  <2>3. \A d : d \in DatesOf(dom) <=> \E p \in dom \ {LastDay} : d = p.lo
    BY DEF DatesOf
  <2>4. DatesOf(dom) \subseteq days
    <3>1. SUFFICES ASSUME NEW d \in DatesOf(dom) PROVE d \in days
      OBVIOUS
    <3>2. PICK p \in dom \ {LastDay} : d = p.lo
      BY <2>3
    <3>3. p.lo \in days
      BY <2>1
    <3>4. QED
      BY <3>2, <3>3
  <2>5. days \subseteq DatesOf(dom)
    BY <2>2, <2>3
  <2>6. QED
    BY <2>4, <2>5
<1>10. \A p \in dom \ {LastDay} : p.k = "num" /\ p.plain /\ p.step = 0 /\ p.lo \in 1..31 /\ p.hi = p.lo
  BY <1>3
<1>11. ParseableMonthDays(dom)
  BY <1>10, PartKinds DEF ParseableMonthDays
<1>12. LastDay \notin dom => DaysTaken(dom)
  BY <1>10 DEF DaysTaken, StandardAccepts
<1>13. \A p \in dom : p.k = "last" => p = LastDay
  BY <1>10
<1>14. MonthDays(dom)
  BY <1>10 DEF MonthDays
<1>15. QED
  BY <1>5, <1>6, <1>8, <1>9, <1>11, <1>12, <1>13, <1>14

LEMMA ReadsBack ==
    ASSUME NEW m, IsModel(m), m # Custom
    PROVE  WellFormed(BuildCron(m)) /\ ParseCron(BuildCron(m)) = m /\ CronAccepted(BuildCron(m))
<1>1. PICK e : e = BuildCron(m)
  OBVIOUS
<1>2. ASSUME NEW unit \in {"minute", "hour"}, NEW n \in Nat \ {0}, m = EveryN(unit, n)
      PROVE  WellFormed(e) /\ ParseCron(e) = m /\ CronAccepted(e)
  BY <1>1, <1>2, EveryNReadBack
<1>3. DaysTaken(Stars) /\ StandardAccepts(Stars, 0, 6, TRUE) /\ LastDay \notin Stars
  BY PartKinds DEF Stars, DaysTaken, StandardAccepts
<1>4. \A p \in Stars : p.k # "last"
  BY PartKinds DEF Stars
<1>5. ASSUME NEW h \in 0..23, NEW i \in 0..59, m = Daily(h, i)
      PROVE  WellFormed(e) /\ ParseCron(e) = m /\ CronAccepted(e)
  <2>1. m.mode = "daily" /\ m.hour = h /\ m.minute = i
    BY <1>5 DEF Daily, Model
  <2>2. e = Cron({Num(i)}, {Num(h)}, Stars, Stars, Stars)
    BY <1>1, <2>1 DEF BuildCron
  <2>3. QED
    BY <1>3, <1>4, <1>5, <2>2, StarWritten, TimedReadBack
<1>6. ASSUME NEW h \in 0..23, NEW i \in 0..59, NEW days \in SUBSET (0..6), days # {},
             m = Weekly(days, h, i)
      PROVE  WellFormed(e) /\ ParseCron(e) = m /\ CronAccepted(e)
  <2>1. m.mode = "weekly" /\ m.hour = h /\ m.minute = i /\ m.days = days
    BY <1>6 DEF Weekly, Model
  <2>2. PICK dow : dow = BuildDaysField(days)
    OBVIOUS
  <2>3. e = Cron({Num(i)}, {Num(h)}, Stars, Stars, dow)
    BY <1>1, <2>1, <2>2 DEF BuildCron
  <2>4. /\ dow \in CronFields /\ dow # Stars /\ ParseableDays(dow) /\ ParseDays(dow) = days
        /\ StandardAccepts(dow, 0, 6, TRUE)
    BY <1>6, <2>2, DaysWritten
  <2>5. QED
    BY <1>3, <1>4, <1>6, <2>3, <2>4, StarWritten, TimedReadBack
<1>7. ASSUME NEW h \in 0..23, NEW i \in 0..59, NEW days \in SUBSET (1..31), NEW lastDay \in BOOLEAN,
             days # {} \/ lastDay, m = Monthly(days, lastDay, h, i)
      PROVE  WellFormed(e) /\ ParseCron(e) = m /\ CronAccepted(e)
  <2>1. m.mode = "monthly" /\ m.hour = h /\ m.minute = i /\ m.days = days /\ m.lastDay = lastDay
    BY <1>7 DEF Monthly, Model
  <2>2. PICK L : L = IF lastDay THEN {LastDay} ELSE {}
    OBVIOUS
  <2>3. L \in SUBSET {LastDay} /\ (days # {} \/ L # {})
    BY <1>7, <2>2
  <2>4. (lastDay = TRUE => LastDay \in L) /\ (lastDay = FALSE => LastDay \notin L)
    BY <2>2
  <2>5. PICK dom : dom = NumsOf(days) \cup L
    OBVIOUS
  <2>6. /\ dom \in CronFields /\ dom # Stars /\ ParseableMonthDays(dom)
        /\ DatesOf(dom) = days
        /\ LastDay \in dom <=> LastDay \in L
        /\ \A p \in dom : p.k = "last" => p = LastDay
        /\ MonthDays(dom)
        /\ LastDay \notin dom => DaysTaken(dom)
    BY <1>7, <2>3, <2>5, MonthDaysWritten
  <2>7. dom # {}
    BY <2>6 DEF CronFields
  <2>8. e = Cron({Num(i)}, {Num(h)}, dom, Stars, Stars)
    BY <1>1, <2>1, <2>2, <2>5, <2>7 DEF BuildCron, NumsOf
  <2>9. /\ LastDay \in dom => ParseCron(e) = Monthly(days, TRUE, h, i)
        /\ LastDay \notin dom => ParseCron(e) = Monthly(days, FALSE, h, i)
    <3>1. h \in 0..23 /\ i \in 0..59
      BY <1>7
    <3>2. /\ dom \in CronFields /\ dom # Stars /\ ParseableMonthDays(dom)
          /\ DatesOf(dom) = days
      BY <2>6
    <3>3. QED
      BY <2>8, <3>1, <3>2, MonthlyReadBack
  <2>10. ASSUME lastDay = TRUE PROVE ParseCron(e) = m
    BY <1>7, <2>6, <2>9, <2>10, <2>4
  <2>11. ASSUME lastDay = FALSE PROVE ParseCron(e) = m
    BY <1>7, <2>6, <2>9, <2>4, <2>11
  <2>12. ParseCron(e) = m
    BY <2>10, <2>11
  <2>13. WellFormed(e) /\ CronAccepted(e)
    BY <1>3, <2>6, <2>8, StarWritten, TimedReadBack
  <2>14. QED
    BY <2>12, <2>13
<1>8. QED
  BY <1>1, <1>2, <1>5, <1>6, <1>7 DEF IsModel

(* The days before a month are counted by recursion: g is that function    *)
(* for the months up to n, and there is one for each n.                    *)
RunsTo(n, g) ==
    g = [i \in 0..n |-> IF i = 0 THEN 0 ELSE g[i - 1] + MonthLength(i - 1)]

(* Months have 28 to 31 days. *)
LEMMA LengthRange == ASSUME NEW i \in Nat PROVE MonthLength(i) \in 28..31
<1>1. i % 12 \in 0..11
  OBVIOUS
<1>2. PICK k : k = i % 12
  OBVIOUS
<1>3. \/ k = 0 \/ k = 1 \/ k = 2 \/ k = 3 \/ k = 4 \/ k = 5 \/ k = 6 \/ k = 7
      \/ k = 8 \/ k = 9 \/ k = 10 \/ k = 11
  BY <1>1, <1>2
<1>4. QED
  BY <1>2, <1>3 DEF MonthLength

LEMMA DaysExist == ASSUME NEW n \in Nat PROVE \E g \in [0..n -> Nat] : RunsTo(n, g)
<1> DEFINE S == {m \in Nat : ~ \E g \in [0..m -> Nat] : RunsTo(m, g)}
<1>1. SUFFICES ASSUME S # {} PROVE FALSE
  OBVIOUS
<1>2. PICK x \in S : \A y \in S : x <= y
  BY <1>1, Earliest
<1>3. CASE x = 0
  <2>1. [i \in 0..0 |-> 0] \in [0..0 -> Nat] /\ RunsTo(0, [i \in 0..0 |-> 0])
    BY DEF RunsTo
  <2>2. QED
    BY <1>3, <2>1
<1>4. CASE x # 0
  <2>1. x \in Nat /\ x - 1 \in Nat /\ x - 1 \notin S
    <3>1. x \in Nat /\ x - 1 \in Nat /\ ~(x <= x - 1)
      BY <1>4
    <3>2. QED
      BY <1>2, <3>1
  <2>2. PICK g \in [0..(x - 1) -> Nat] : RunsTo(x - 1, g)
    BY <2>1
  <2>3. g[x - 1] \in Nat /\ MonthLength(x - 1) \in Nat
    <3>1. x - 1 \in 0..(x - 1)
      BY <2>1
    <3>2. g[x - 1] \in Nat
      BY <3>1
    <3>3. MonthLength(x - 1) \in Nat
      BY <2>1, LengthRange
    <3>4. QED
      BY <3>2, <3>3
  <2>4. PICK a \in Nat : a = g[x - 1] + MonthLength(x - 1)
    BY <2>3
  <2>5. PICK h : h = [i \in 0..x |-> IF i = x THEN a ELSE g[i]]
    OBVIOUS
  <2>6. h \in [0..x -> Nat]
    <3>1. \A i \in 0..x : i # x => i \in 0..(x - 1)
      BY <2>1
    <3>2. QED
      BY <2>5, <3>1
  <2>7. \A i \in 0..(x - 1) : h[i] = IF i = 0 THEN 0 ELSE h[i - 1] + MonthLength(i - 1)
    <3>1. SUFFICES ASSUME NEW i \in 0..(x - 1)
                   PROVE  h[i] = IF i = 0 THEN 0 ELSE h[i - 1] + MonthLength(i - 1)
      OBVIOUS
    <3>2. h[i] = g[i] /\ (i # 0 => h[i - 1] = g[i - 1])
      BY <2>1, <2>5
    <3>3. g[i] = IF i = 0 THEN 0 ELSE g[i - 1] + MonthLength(i - 1)
      BY <2>2 DEF RunsTo
    <3>4. QED
      BY <3>2, <3>3
  <2>8. h[x] = h[x - 1] + MonthLength(x - 1)
    BY <2>1, <2>4, <2>5
  <2>9. \A i \in 0..x : h[i] = IF i = 0 THEN 0 ELSE h[i - 1] + MonthLength(i - 1)
    <3>1. \A i \in 0..x : i # x => i \in 0..(x - 1)
      BY <2>1
    <3>2. QED
      BY <1>4, <2>7, <2>8, <3>1
  <2>10. RunsTo(x, h)
    BY <2>5, <2>9 DEF RunsTo
  <2>11. QED
    BY <1>2, <2>6, <2>10
<1>5. QED
  BY <1>3, <1>4

(* The recursion counts up to 31 days a month for each month shown. *)
LEMMA DaysCounted ==
    /\ DaysBefore \in [0..MaxMonths -> Nat]
    /\ \A i \in 0..MaxMonths : DaysBefore[i] <= 31 * i
<1>1. MaxMonths \in Nat
  BY CronBounds
<1>2. \E g : RunsTo(MaxMonths, g)
  BY <1>1, DaysExist
<1>3. DaysBefore = CHOOSE g : RunsTo(MaxMonths, g)
  BY DEF DaysBefore, RunsTo
<1>4. RunsTo(MaxMonths, DaysBefore)
  BY <1>2, <1>3
<1> DEFINE S == {i \in 0..MaxMonths : ~(DaysBefore[i] \in Nat /\ DaysBefore[i] <= 31 * i)}
<1>5. ASSUME S # {} PROVE FALSE
  <2>1. S \in SUBSET Nat
    OBVIOUS
  <2>2. PICK x \in S : \A y \in S : x <= y
    BY <1>5, <2>1, Earliest
  <2>3. x # 0
    BY <1>4, <2>2 DEF RunsTo
  <2>4. x - 1 \in 0..MaxMonths /\ x - 1 \notin S
    BY <1>1, <2>2, <2>3
  <2>5. MonthLength(x - 1) \in 28..31
    BY <2>4, LengthRange
  <2>6. DaysBefore[x] = DaysBefore[x - 1] + MonthLength(x - 1)
    BY <1>4, <2>2, <2>3 DEF RunsTo
  <2>7. DaysBefore[x - 1] \in Nat /\ DaysBefore[x - 1] <= 31 * (x - 1)
    BY <2>4
  <2>8. QED
    BY <2>2, <2>4, <2>5, <2>6, <2>7
<1>6. \A i \in 0..MaxMonths : DaysBefore[i] \in Nat /\ DaysBefore[i] <= 31 * i
  BY <1>5
<1>7. QED
  BY <1>4, <1>6 DEF RunsTo

(* The search for the firing before. *)
Since(fired, now, w) == {f \in fired : now < f + Windows[w] /\ f < now}
Hits(fired, now) == {w \in DOMAIN Windows : Since(fired, now, w) # {}}

Recent(fired, now) == \E f \in fired : f < now /\ now < f + 200

LEMMA PreviousFound ==
    ASSUME NEW fired \in SUBSET (Nat \ {0}), NEW now \in Nat
    PROVE  /\ Recent(fired, now) => /\ PrevFire(fired, now) \in fired
                                    /\ PrevFire(fired, now) < now
                                    /\ now < PrevFire(fired, now) + 200
                                    /\ \A f \in fired : f < now => f <= PrevFire(fired, now)
           /\ ~Recent(fired, now) => PrevFire(fired, now) = 0
<1>1. PrevFire(fired, now) = IF Hits(fired, now) = {} THEN 0
                             ELSE Greatest(Since(fired, now, Least(Hits(fired, now))))
  BY DEF PrevFire, Hits, Since
<1>2. /\ DOMAIN Windows = 1..4
      /\ Windows[1] = 1 /\ Windows[2] = 7 /\ Windows[3] = 40 /\ Windows[4] = 200
  BY DEF Windows
<1>3. ASSUME NEW w \in 1..4 PROVE Windows[w] \in Nat /\ Windows[w] <= 200
  <2>1. w = 1 \/ w = 2 \/ w = 3 \/ w = 4
    BY <1>3
  <2>2. QED
    BY <1>2, <2>1
<1>4. \A w, f : f \in Since(fired, now, w) <=> f \in fired /\ now < f + Windows[w] /\ f < now
  BY DEF Since
<1>5. \A w : w \in Hits(fired, now) <=> w \in 1..4 /\ Since(fired, now, w) # {}
  BY <1>2 DEF Hits
<1>6. ASSUME Recent(fired, now) PROVE Hits(fired, now) # {}
  <2>1. PICK f \in fired : f < now /\ now < f + 200
    BY <1>6 DEF Recent
  <2>2. f \in Since(fired, now, 4)
    BY <1>2, <1>4, <2>1
  <2>3. QED
    BY <1>5, <2>2
<1>7. ASSUME ~Recent(fired, now) PROVE Hits(fired, now) = {}
  <2>1. SUFFICES ASSUME NEW w \in Hits(fired, now) PROVE FALSE
    OBVIOUS
  <2>2. PICK f \in Since(fired, now, w) : w \in 1..4
    BY <1>5
  <2>3. f \in Nat /\ Windows[w] \in Nat /\ Windows[w] <= 200
    BY <1>3, <1>4, <2>2
  <2>4. f \in fired /\ f < now /\ now < f + 200
    BY <1>4, <2>2, <2>3
  <2>5. QED
    BY <1>7, <2>4 DEF Recent
<1>8. ASSUME Hits(fired, now) # {}, NEW p, p = PrevFire(fired, now)
      PROVE  p \in fired /\ p < now /\ now < p + 200 /\ \A f \in fired : f < now => f <= p
  <2>1. PICK w : w \in Hits(fired, now) /\ p = Greatest(Since(fired, now, w))
    <3>1. Hits(fired, now) \in SUBSET Nat
      BY <1>5
    <3>2. \E x \in Hits(fired, now) : \A y \in Hits(fired, now) : x <= y
      BY <1>8, <3>1, Earliest
    <3>3. Least(Hits(fired, now)) \in Hits(fired, now)
      BY <3>2 DEF Least
    <3>4. QED
      BY <1>1, <1>8, <3>3
  <2>2. PICK S : S = Since(fired, now, w)
    OBVIOUS
  <2>3. S \in SUBSET (0..now) /\ S # {}
    <3>1. \A f \in S : f \in Nat /\ f < now
      BY <1>4, <2>2
    <3>2. S # {}
      BY <1>5, <2>1, <2>2
    <3>3. QED
      BY <3>1, <3>2
  <2>4. \E j \in S : \A k \in S : k <= j
    BY <2>3, Latest
  <2>5. \A j, k \in S : k <= j <=> j >= k
    BY <2>3
  <2>6. p \in S /\ \A k \in S : p >= k
    BY <2>1, <2>2, <2>4, <2>5 DEF Greatest
  <2>7. w \in 1..4 /\ Windows[w] \in Nat /\ Windows[w] <= 200
    BY <1>3, <1>5, <2>1
  <2>8. p \in fired /\ p \in Nat /\ p < now /\ now < p + Windows[w]
    BY <1>4, <2>2, <2>6
  <2>9. ASSUME NEW f \in fired, f < now PROVE f <= p
    <3>1. f \in Nat
      OBVIOUS
    <3>2. CASE now < f + Windows[w]
      <4>1. f \in S
        BY <1>4, <2>2, <2>9, <3>2
      <4>2. QED
        BY <2>6, <2>8, <3>1, <4>1
    <3>3. CASE ~(now < f + Windows[w])
      BY <2>7, <2>8, <3>1, <3>3
    <3>4. QED
      BY <3>2, <3>3
  <2>10. QED
    BY <2>7, <2>8, <2>9
<1>9. QED
  BY <1>1, <1>6, <1>7, <1>8

(* The months shown have numbers of days below a bound. *)
LEMMA FiringDays == ASSUME NEW e PROVE Firings(e) \in SUBSET (1..(31 * MaxMonths + 31))
<1>1. SUFFICES ASSUME NEW n \in Firings(e) PROVE n \in 1..(31 * MaxMonths + 31)
  OBVIOUS
<1>2. PICK i \in 0..MaxMonths : \E date \in Dates(i) : n = date.n
  BY <1>1 DEF Firings
<1>3. PICK d \in 1..MonthLength(i) : n = DaysBefore[i] + d
  BY <1>2 DEF Dates
<1>4. MaxMonths \in Nat /\ i \in Nat /\ i <= MaxMonths
  BY CronBounds
<1>5. MonthLength(i) \in 28..31
  BY <1>4, LengthRange
<1>6. d \in Nat /\ 1 <= d /\ d <= 31
  BY <1>3, <1>5
<1>7. DaysBefore[i] \in Nat /\ DaysBefore[i] <= 31 * i
  BY DaysCounted
<1>8. QED
  BY <1>3, <1>4, <1>6, <1>7

(* A period begins the day after the firing before, or after the present one. *)
LEMMA NoDayAgain == ASSUME NEW e PROVE
    LET fired == Firings(e)
    IN \A n \in fired :
         LET from == PeriodFrom(fired, n)
         IN \A f \in fired : f < n => from > f /\ from > PeriodTo(f)
<1>1. PICK fired : fired = Firings(e)
  OBVIOUS
<1>2. \A n \in fired : n \in Nat \ {0}
  BY <1>1, FiringDays, CronBounds
<1>3. fired \in SUBSET (Nat \ {0})
  BY <1>2
<1>4. SUFFICES ASSUME NEW n \in fired, NEW f \in fired, f < n
               PROVE  PeriodFrom(fired, n) > f /\ PeriodFrom(fired, n) > PeriodTo(f)
  BY <1>1
<1>5. PICK p : p = PrevFire(fired, n)
  OBVIOUS
<1>6. n \in Nat /\ f \in Nat
  BY <1>2
<1>7. PeriodFrom(fired, n) = (1 + IF p # 0 THEN p ELSE n) /\ PeriodTo(f) = -1 + f
  BY <1>5 DEF PeriodFrom, PeriodTo, Expand
<1>8. CASE Recent(fired, n)
  <2>1. p \in fired /\ f <= p
    BY <1>3, <1>4, <1>5, <1>6, <1>8, PreviousFound
  <2>2. p \in Nat /\ p # 0
    BY <1>2, <2>1
  <2>3. QED
    BY <1>6, <1>7, <2>1, <2>2
<1>9. CASE ~Recent(fired, n)
  <2>1. p = 0
    BY <1>3, <1>5, <1>6, <1>9, PreviousFound
  <2>2. QED
    BY <1>4, <1>6, <1>7, <2>1
<1>10. QED
  BY <1>8, <1>9

(* A date of a month the calendar shows. *)
LEMMA DateShown ==
    ASSUME NEW i \in 0..MaxMonths, NEW date \in Dates(i)
    PROVE  date.month \in 1..12 /\ date.day \in 1..31 /\ date.weekday \in 0..6
<1>1. PICK before : before = DaysBefore[i]
  OBVIOUS
<1>2. before \in Nat
  BY <1>1, DaysCounted
<1>3. PICK length \in 28..31 : length = MonthLength(i)
  <2>1. i \in Nat
    OBVIOUS
  <2>2. QED
    BY <2>1, LengthRange
<1>4. PICK d \in 1..length :
        date = [month |-> (i % 12) + 1, day |-> d, weekday |-> (before + d) % 7,
                last |-> d = MonthLength(i), n |-> before + d]
  BY <1>1, <1>3 DEF Dates
<1>5. i % 12 \in 0..11 /\ (before + d) % 7 \in 0..6
  BY <1>2
<1>6. QED
  BY <1>4, <1>5

(* Fields as the calendar has to tell them apart. *)
Simple(field) == \A p \in field : p.k # "last" /\ (p.k = "num" => p.lo = p.hi)

AllPlain(field) == \A p \in field : p.plain

Readable(e) == Simple(e.dom \ {LastDay}) /\ Simple(e.month) /\ Simple(e.dow)

InField(field, value, min, max) == \E p \in field : Within(p, value, min, max)

LEMMA MatchesInField ==
    ASSUME NEW field, Simple(field), AllPlain(field), NEW value, NEW min, NEW max, NEW isLast
    PROVE  FieldMatches(field, value, min, max, isLast) <=> InField(field, value, min, max)
BY DEF Simple, AllPlain, FieldMatches, InField

LEMMA StarsMatch ==
    ASSUME NEW min \in Nat, NEW max \in Nat, NEW value \in min..max
    PROVE  InField(Stars, value, min, max)
BY PartKinds DEF Stars, InField, Within

(* Days of the week: without a step that starts from a day, the calendar's *)
(* 7 adds nothing.                                                         *)
LEMMA SundayOnce ==
    ASSUME NEW dow \in CronFields, StandardAccepts(dow, 0, 6, TRUE), \A p \in dow : p.k = "num" => p.step = 0,
           NEW day \in 0..6
    PROVE  InField(dow, day, 0, 7) \/ (day = 0 /\ InField(dow, 7, 0, 7)) <=> InField(dow, day, 0, 6)
<1>1. \A p \in dow : p \in Parts /\ (p.k # "star" => 0 <= p.lo /\ p.lo <= p.hi /\ p.hi <= 6)
  BY DEF CronFields, StandardAccepts
<1>2. ASSUME NEW p \in dow PROVE Within(p, day, 0, 7) <=> Within(p, day, 0, 6)
  BY <1>1, <1>2 DEF Within, Parts
<1>3. ASSUME NEW p \in dow, Within(p, 7, 0, 7) PROVE Within(p, 0, 0, 6)
  <2>1. p.k = "star"
    BY <1>1, <1>3 DEF Within, Parts
  <2>2. p.step \in Nat /\ (p.step > 0 => 0 % p.step = 0)
    BY <1>1, <1>3 DEF Parts
  <2>3. QED
    BY <2>1, <2>2 DEF Within
<1>4. QED
  BY <1>2, <1>3 DEF InField

(* The two readings of an expression. *)
LEMMA SameDays ==
    ASSUME NEW e, WellFormed(e), Readable(e), CronAccepted(e), SameReading(e),
           NEW date, date.month \in 1..12, date.day \in 1..31, date.weekday \in 0..6
    PROVE  CronFiresOnDate(e, date) <=> SchedulerFires(e, date)
<1> DEFINE inMonth == InField(e.month, date.month, 1, 12)
           onDay   == InField(e.dom, date.day, 1, 31)
           onDow   == InField(e.dow, date.weekday, 0, 6)
<1>1. e.dom \in CronFields /\ e.dow \in CronFields /\ \A p \in e.dom : p.k = "last" => p = LastDay
  BY DEF WellFormed
<1>5. ~e.descriptor /\ AllPlain(e.dom) /\ AllPlain(e.month) /\ AllPlain(e.dow)
  BY DEF SameReading, AllPlain
<1>2. CASE HasL(e)
  <2>1. /\ e.month = Stars /\ e.dow = Stars
        /\ \A p \in e.dom \ {LastDay} : p.k = "num" /\ p.step = 0
    BY <1>2 DEF CronAccepted, MonthDaysAccepted
  <2>2. e.dom # Stars
    BY <1>2, PartKinds DEF HasL, Stars
  <2>3. FieldMatches(e.month, date.month, 1, 12, FALSE)
    <3>1. Simple(Stars) /\ AllPlain(Stars)
      BY PartKinds DEF Simple, AllPlain, Stars
    <3>2. InField(Stars, date.month, 1, 12)
      BY StarsMatch
    <3>3. QED
      BY <2>1, <3>1, <3>2, MatchesInField
  <2>4. CronFiresOnDate(e, date) <=> FieldMatches(e.dom, date.day, 1, 31, date.last)
    BY <1>5, <2>1, <2>2, <2>3 DEF CronFiresOnDate
  <2>5. SchedulerFires(e, date) <=> Num(date.day) \in e.dom \/ date.last
    BY <1>2 DEF SchedulerFires
  <2>6. ASSUME NEW p \in e.dom \ {LastDay}
        PROVE  p.k # "last" /\ (Within(p, date.day, 1, 31) <=> p = Num(date.day))
    <3>1. p \in Parts /\ p.k = "num" /\ p.step = 0 /\ p.lo = p.hi
      BY <1>1, <2>1, <2>6 DEF CronFields, Readable, Simple
    <3>2. Within(p, date.day, 1, 31) <=> p.lo = date.day
      BY <3>1 DEF Within, Parts
    <3>3. p.lo = date.day <=> p = Num(date.day)
      <4>1. p.plain = TRUE
        BY <1>5, <2>6, <3>1 DEF AllPlain, Parts
      <4>2. QED
        BY <3>1, <4>1 DEF Parts, Num, Part
    <3>4. QED
      BY <3>1, <3>2, <3>3
  <2>7. LastDay.k = "last" /\ Num(date.day) # LastDay
    <3>1. date.day \in Nat
      OBVIOUS
    <3>2. QED
      BY <3>1, PartKinds
  <2>8. FieldMatches(e.dom, date.day, 1, 31, date.last) <=> Num(date.day) \in e.dom \/ date.last
    BY <1>2, <1>5, <2>6, <2>7 DEF FieldMatches, HasL, AllPlain
  <2>9. QED
    BY <2>4, <2>5, <2>8
<1>3. CASE ~HasL(e)
  <2>1. StandardAccepts(e.dow, 0, 6, TRUE)
    BY <1>3 DEF CronAccepted
  <2>2. Simple(e.dom) /\ Simple(e.month) /\ Simple(e.dow)
    BY <1>3 DEF Readable, HasL, Simple
  <2>3. FieldMatches(e.month, date.month, 1, 12, FALSE) <=> inMonth
    BY <1>5, <2>2, MatchesInField
  <2>4. FieldMatches(e.dom, date.day, 1, 31, date.last) <=> onDay
    BY <1>5, <2>2, MatchesInField
  <2>5. \/ FieldMatches(e.dow, date.weekday, 0, 7, FALSE)
        \/ date.weekday = 0 /\ FieldMatches(e.dow, 7, 0, 7, FALSE)
        <=> onDow
    <3>1. /\ FieldMatches(e.dow, date.weekday, 0, 7, FALSE) <=> InField(e.dow, date.weekday, 0, 7)
          /\ FieldMatches(e.dow, 7, 0, 7, FALSE) <=> InField(e.dow, 7, 0, 7)
      BY <1>5, <2>2, MatchesInField
    <3>2. QED
      BY <1>1, <2>1, <3>1, SundayOnce DEF SameReading
  <2>6. CronFiresOnDate(e, date) <=>
          /\ inMonth
          /\ IF e.dom = Stars /\ e.dow = Stars THEN TRUE
             ELSE IF e.dow = Stars THEN onDay
             ELSE IF e.dom = Stars THEN onDow ELSE onDay \/ onDow
    BY <1>5, <2>3, <2>4, <2>5 DEF CronFiresOnDate
  <2>7. SchedulerFires(e, date) <=>
          /\ inMonth
          /\ IF StarBit(e.dom) \/ StarBit(e.dow) THEN onDay /\ onDow ELSE onDay \/ onDow
    BY <1>3 DEF SchedulerFires, InField
  <2>8. (StarBit(e.dom) <=> e.dom = Stars) /\ (StarBit(e.dow) <=> e.dow = Stars)
    <3>1. StarBit(Stars)
      BY PartKinds DEF StarBit, Stars
    <3>2. QED
      BY <3>1 DEF SameReading
  <2>9. (e.dom = Stars => onDay) /\ (e.dow = Stars => onDow)
    BY StarsMatch
  <2>10. QED
    BY <2>6, <2>7, <2>8, <2>9
<1>4. QED
  BY <1>2, <1>3

(* What the builder writes. *)
LEMMA BuiltReadable ==
    ASSUME NEW m, IsModel(m), m # Custom
    PROVE  Readable(BuildCron(m))
<1>1. SUFFICES ASSUME NEW e, e = BuildCron(m) PROVE Readable(e)
  OBVIOUS
<1>2. Simple(Stars) /\ Simple(Stars \ {LastDay})
  BY PartKinds DEF Simple, Stars
<1>3. ASSUME NEW S \in SUBSET Nat PROVE Simple({Num(d) : d \in S})
  BY <1>3, PartKinds DEF Simple
<1>4. ASSUME NEW unit \in {"minute", "hour"}, NEW n \in Nat \ {0}, m = EveryN(unit, n)
      PROVE  Readable(e)
  <2>1. m.mode = "everyN"
    BY <1>4 DEF EveryN, Model
  <2>2. e.dom = Stars /\ e.month = Stars /\ e.dow = Stars
    BY <1>1, <2>1 DEF BuildCron, Cron
  <2>3. QED
    BY <1>2, <2>2 DEF Readable
<1>5. ASSUME NEW h \in 0..23, NEW i \in 0..59, m = Daily(h, i)
      PROVE  Readable(e)
  <2>1. m.mode = "daily"
    BY <1>5 DEF Daily, Model
  <2>2. e.dom = Stars /\ e.month = Stars /\ e.dow = Stars
    BY <1>1, <2>1 DEF BuildCron, Cron
  <2>3. QED
    BY <1>2, <2>2 DEF Readable
<1>6. ASSUME NEW h \in 0..23, NEW i \in 0..59, NEW days \in SUBSET (0..6), days # {},
             m = Weekly(days, h, i)
      PROVE  Readable(e)
  <2>1. m.mode = "weekly" /\ m.days = days
    BY <1>6 DEF Weekly, Model
  <2>2. PICK dow : dow = BuildDaysField(days)
    OBVIOUS
  <2>3. e.dom = Stars /\ e.month = Stars /\ e.dow = dow
    BY <1>1, <2>1, <2>2 DEF BuildCron, Cron
  <2>4. Simple(dow)
    <3>1. \/ dow = {Span(Least(days), Greatest(days))}
          \/ dow = {Num(d) : d \in days}
      BY <1>6, <2>2 DEF BuildDaysField
    <3>2. Simple({Span(Least(days), Greatest(days))})
      BY DEF Simple, Span, Part
    <3>3. days \in SUBSET Nat
      OBVIOUS
    <3>4. QED
      BY <1>3, <3>1, <3>2, <3>3
  <2>5. QED
    BY <1>2, <2>3, <2>4 DEF Readable
<1>7. ASSUME NEW h \in 0..23, NEW i \in 0..59, NEW days \in SUBSET (1..31), NEW lastDay \in BOOLEAN,
             m = Monthly(days, lastDay, h, i)
      PROVE  Readable(e)
  <2>1. m.mode = "monthly" /\ m.days = days
    BY <1>7 DEF Monthly, Model
  <2>2. PICK nums : nums = {Num(d) : d \in days}
    OBVIOUS
  <2>3. /\ e.month = Stars /\ e.dow = Stars
        /\ \A p \in e.dom : p \in nums \/ p = LastDay \/ p = Num(1)
    BY <1>1, <2>1, <2>2 DEF BuildCron, Cron
  <2>4. Simple(nums) /\ Simple({Num(1)})
    <3>1. days \in SUBSET Nat
      OBVIOUS
    <3>2. QED
      BY <1>3, <2>2, <3>1, PartKinds DEF Simple
  <2>5. QED
    BY <1>2, <2>3, <2>4 DEF Readable, Simple
<1>8. QED
  BY <1>4, <1>5, <1>6, <1>7 DEF IsModel

(* The expression on the page is one it can hold, and what the builder     *)
(* wrote last is still what it shows.                                      *)
CronInv ==
    /\ left \in Purses
    /\ ui \in [page : {"cron"}, expr : {ui.expr}, emitted : {ui.emitted}, cursor : 0..MaxMonths]
    /\ WellFormed(ui.expr) /\ Readable(ui.expr)
    /\ ui.emitted # Custom => Builder = ui.emitted /\ CronAccepted(ui.expr)

LEMMA CronStart == CronInit => CronInv
<1> SUFFICES ASSUME CronInit PROVE CronInv
  OBVIOUS
<1>1. left \in Purses
  BY PageBounds DEF CronInit, Bounds, Purses
<1>2. PICK z, h : z = {Num(0)} /\ h = {Num(8)}
  OBVIOUS
<1>3. ui.expr = [minute |-> z, hour |-> h, dom |-> Stars, month |-> Stars, dow |-> Stars,
         descriptor |-> FALSE]
  BY <1>2 DEF CronInit, Cron
<1>4. z \in CronFields /\ h \in CronFields
  BY <1>2, IntWritten
<1>5. WellFormed(ui.expr) /\ Readable(ui.expr)
  BY <1>3, <1>4, StarWritten, PartKinds DEF WellFormed, Readable, Simple, Stars
<1>6. MaxMonths \in Nat
  BY CronBounds
<1>7. QED
  BY <1>1, <1>5, <1>6 DEF CronInit, CronInv

(* The models as sets of records. *)
EveryNs  == [mode : {"everyN"}, unit : {"minute", "hour"}, n : Nat \ {0}, days : {{}},
             lastDay : BOOLEAN, hour : {0}, minute : {0}]
Dailies  == [mode : {"daily"}, unit : {"none"}, n : {0}, days : {{}}, lastDay : BOOLEAN,
             hour : 0..23, minute : 0..59]
Weeklies == [mode : {"weekly"}, unit : {"none"}, n : {0}, days : SUBSET (0..6), lastDay : BOOLEAN,
             hour : 0..23, minute : 0..59]
Monthlies == [mode : {"monthly"}, unit : {"none"}, n : {0}, days : SUBSET (1..31),
              lastDay : BOOLEAN, hour : 0..23, minute : 0..59]

LEMMA ModelSets ==
    ASSUME NEW m
    PROVE  IsModel(m) <=> \/ m = Custom
                          \/ ~m.lastDay /\ (m \in EveryNs \/ m \in Dailies)
                          \/ ~m.lastDay /\ m \in Weeklies /\ m.days # {}
                          \/ m \in Monthlies /\ (m.days # {} \/ m.lastDay)
<1>1. ASSUME NEW unit \in {"minute", "hour"}, NEW n \in Nat \ {0}, m = EveryN(unit, n)
      PROVE  m \in EveryNs /\ ~m.lastDay
  BY <1>1 DEF EveryN, Model, EveryNs
<1>2. ASSUME NEW h \in 0..23, NEW i \in 0..59, m = Daily(h, i)
      PROVE  m \in Dailies /\ ~m.lastDay
  BY <1>2 DEF Daily, Model, Dailies
<1>3. ASSUME NEW h \in 0..23, NEW i \in 0..59, NEW days \in SUBSET (0..6), days # {},
             m = Weekly(days, h, i)
      PROVE  m \in Weeklies /\ ~m.lastDay /\ m.days # {}
  BY <1>3 DEF Weekly, Model, Weeklies
<1>4. ASSUME NEW h \in 0..23, NEW i \in 0..59, NEW days \in SUBSET (1..31),
             NEW lastDay \in BOOLEAN, days # {} \/ lastDay,
             m = Monthly(days, lastDay, h, i)
      PROVE  m \in Monthlies /\ (m.days # {} \/ m.lastDay)
  BY <1>4 DEF Monthly, Model, Monthlies
<1>5. m \in EveryNs /\ ~m.lastDay => /\ m = EveryN(m.unit, m.n)
                                     /\ m.unit \in {"minute", "hour"} /\ m.n \in Nat \ {0}
  BY DEF EveryN, Model, EveryNs
<1>6. m \in Dailies /\ ~m.lastDay => /\ m = Daily(m.hour, m.minute)
                                     /\ m.hour \in 0..23 /\ m.minute \in 0..59
  BY DEF Daily, Model, Dailies
<1>7. m \in Weeklies /\ ~m.lastDay => /\ m = Weekly(m.days, m.hour, m.minute)
                                      /\ m.days \in SUBSET (0..6)
                                      /\ m.hour \in 0..23 /\ m.minute \in 0..59
  BY DEF Weekly, Model, Weeklies
<1>8. m \in Monthlies => /\ m = Monthly(m.days, m.lastDay, m.hour, m.minute)
                         /\ m.days \in SUBSET (1..31) /\ m.lastDay \in BOOLEAN
                         /\ m.hour \in 0..23 /\ m.minute \in 0..59
  BY DEF Monthly, Model, Monthlies
<1>9. ASSUME IsModel(m), m # Custom
      PROVE  \/ ~m.lastDay /\ (m \in EveryNs \/ m \in Dailies)
             \/ ~m.lastDay /\ m \in Weeklies /\ m.days # {}
             \/ m \in Monthlies /\ (m.days # {} \/ m.lastDay)
  BY <1>1, <1>2, <1>3, <1>4, <1>9 DEF IsModel
<1>10. ~m.lastDay /\ m \in EveryNs => IsModel(m)
  BY <1>5 DEF IsModel
<1>11. ~m.lastDay /\ m \in Dailies => IsModel(m)
  BY <1>6 DEF IsModel
<1>12. ~m.lastDay /\ m \in Weeklies /\ m.days # {} => IsModel(m)
  BY <1>7 DEF IsModel
<1>13. m \in Monthlies /\ (m.days # {} \/ m.lastDay) => IsModel(m)
  BY <1>8 DEF IsModel
<1>14. QED
  BY <1>9, <1>10, <1>11, <1>12, <1>13 DEF IsModel

LEMMA ModelModes ==
    ASSUME NEW m, IsModel(m)
    PROVE  /\ m.mode = "everyN" => m \in EveryNs /\ ~m.lastDay
           /\ m.mode = "daily" => m \in Dailies /\ ~m.lastDay
           /\ m.mode = "weekly" => m \in Weeklies /\ ~m.lastDay /\ m.days # {}
           /\ m.mode = "monthly" => m \in Monthlies /\ (m.days # {} \/ m.lastDay)
<1>1. m = Custom => m.mode = "custom"
  BY DEF Custom, Model
<1>2. /\ m \in EveryNs => m.mode = "everyN"
      /\ m \in Dailies => m.mode = "daily"
      /\ m \in Weeklies => m.mode = "weekly"
      /\ m \in Monthlies => m.mode = "monthly"
  BY DEF EveryNs, Dailies, Weeklies, Monthlies
<1>3. QED
  BY <1>1, <1>2, ModelSets

LEMMA ModelDays ==
    ASSUME NEW m, IsModel(m)
    PROVE  m.days \subseteq IF m.mode = "weekly" THEN 0..6 ELSE 1..31
<1>1. m = Custom => m.days = {} /\ m.mode = "custom"
  BY DEF Custom, Model
<1>2. QED
  BY <1>1, ModelSets DEF EveryNs, Dailies, Weeklies, Monthlies

(* Every control starts from a model and emits one. *)
LEMMA Chosen ==
    ASSUME NEW m, IsModel(m), NEW mode \in {"everyN", "daily", "weekly", "monthly"}, NEW d,
           d = DefaultModel(mode, TimeOf(m))
    PROVE  IsModel(d) /\ d # Custom
<1>1. PICK t : t = TimeOf(m)
  OBVIOUS
<1>2. t.hour \in 0..23 /\ t.minute \in 0..59
  <2>1. CASE m.mode \in {"daily", "weekly", "monthly"}
    <3>1. m.hour \in 0..23 /\ m.minute \in 0..59
      BY <2>1, ModelModes DEF Dailies, Weeklies, Monthlies
    <3>2. QED
      BY <1>1, <2>1, <3>1 DEF TimeOf
  <2>2. CASE m.mode \notin {"daily", "weekly", "monthly"}
    BY <1>1, <2>2 DEF TimeOf
  <2>3. QED
    BY <2>1, <2>2
<1>3. d.mode = mode
  BY <1>1 DEF DefaultModel, EveryN, Daily, Weekly, Monthly, Model
<1>4. d # Custom
  BY <1>3 DEF Custom, Model
<1>5. CASE mode = "everyN"
  <2>1. d = EveryN("minute", 30)
    BY <1>5 DEF DefaultModel
  <2>2. 30 \in Nat \ {0} /\ "minute" \in {"minute", "hour"}
    OBVIOUS
  <2>3. QED
    BY <1>4, <2>1, <2>2 DEF IsModel
<1>6. CASE mode = "daily"
  <2>1. d = Daily(t.hour, t.minute)
    BY <1>1, <1>6 DEF DefaultModel
  <2>2. QED
    BY <1>2, <1>4, <2>1 DEF IsModel
<1>7. CASE mode = "weekly"
  <2>1. d = Weekly({1}, t.hour, t.minute)
    BY <1>1, <1>7 DEF DefaultModel
  <2>2. {1} \in SUBSET (0..6) /\ {1} # {}
    OBVIOUS
  <2>3. QED
    BY <1>2, <1>4, <2>1, <2>2 DEF IsModel
<1>8. CASE mode = "monthly"
  <2>1. d = Monthly({1}, FALSE, t.hour, t.minute)
    BY <1>1, <1>8 DEF DefaultModel
  <2>2. {1} \in SUBSET (1..31) /\ {1} # {}
    OBVIOUS
  <2>3. QED
    BY <1>2, <1>4, <2>1, <2>2 DEF IsModel
<1>9. QED
  BY <1>5, <1>6, <1>7, <1>8

LEMMA CronSteps == CronInv /\ [CronNext]_webVars => CronInv'
<1> SUFFICES ASSUME CronInv, [CronNext]_webVars PROVE CronInv'
  OBVIOUS
<1>1. ui \in [page : {"cron"}, expr : {ui.expr}, emitted : {ui.emitted}, cursor : 0..MaxMonths]
  BY DEF CronInv
<1>2. ASSUME NEW e, NEW m, WellFormed(e), Readable(e), m # Custom => ParseCron(e) = m /\ CronAccepted(e),
             ui' = [ui EXCEPT !.expr = e, !.emitted = m], Free
      PROVE  CronInv'
  <2>1. ui' \in [page : {"cron"}, expr : {e}, emitted : {m}, cursor : {ui.cursor}]
    BY <1>1, <1>2
  <2>2. ui'.expr = e /\ ui'.emitted = m /\ ui'.cursor = ui.cursor
    BY <2>1
  <2>3. ui' \in [page : {"cron"}, expr : {e}, emitted : {m}, cursor : 0..MaxMonths]
    BY <1>1, <2>1
  <2>4. QED
    BY <1>2, <2>2, <2>3 DEF CronInv, Free, Builder
<1>3. ASSUME NEW m, IsModel(m), m # Custom, Emit(m) PROVE CronInv'
  <2>1. PICK e : e = BuildCron(m)
    OBVIOUS
  <2>2. WellFormed(e) /\ ParseCron(e) = m /\ CronAccepted(e)
    BY <1>3, <2>1, ReadsBack
  <2>3. Readable(e)
    BY <1>3, <2>1, BuiltReadable
  <2>4. QED
    BY <1>2, <1>3, <2>1, <2>2, <2>3 DEF Emit
<1>4. PICK b : b = Builder
  OBVIOUS
<1>5. IsModel(b)
  BY <1>4, ReadsModel DEF CronInv, Builder
<1>6. ASSUME ChooseMode PROVE CronInv'
  <2>1. PICK mode \in {"everyN", "daily", "weekly", "monthly"} :
          Emit(DefaultModel(mode, TimeOf(Builder)))
    BY <1>6 DEF ChooseMode
  <2>2. PICK d : d = DefaultModel(mode, TimeOf(b))
    OBVIOUS
  <2>3. IsModel(d) /\ d # Custom
    BY <1>5, <2>2, Chosen
  <2>4. QED
    BY <1>3, <1>4, <2>1, <2>2, <2>3
<1>7. ASSUME ChangeN \/ ChangeUnit PROVE CronInv'
  <2>1. b.mode = "everyN"
    BY <1>4, <1>7 DEF ChangeN, ChangeUnit
  <2>2. b \in EveryNs /\ ~b.lastDay
    BY <1>5, <2>1, ModelModes
  <2>3. PICK m \in EveryNs : Emit(m) /\ ~m.lastDay
    <3>1. CASE ChangeN
      <4>1. PICK k \in {1, 45, 90} : Emit([b EXCEPT !.n = k])
        BY <1>4, <3>1 DEF ChangeN
      <4>2. [b EXCEPT !.n = k] \in EveryNs /\ ~[b EXCEPT !.n = k].lastDay
        BY <2>2 DEF EveryNs
      <4>3. QED
        BY <4>1, <4>2
    <3>2. CASE ChangeUnit
      <4>1. PICK v \in {"minute", "hour"}, max \in {59, 23} :
              Emit([b EXCEPT !.unit = v, !.n = IF @ < max THEN @ ELSE max])
        BY <1>4, <3>2 DEF ChangeUnit
      <4>2. PICK k : k = IF b.n < max THEN b.n ELSE max
        OBVIOUS
      <4>3. k \in Nat \ {0}
        BY <2>2, <4>1, <4>2 DEF EveryNs
      <4>4. PICK m : m = [b EXCEPT !.unit = v, !.n = k]
        OBVIOUS
      <4>5. m \in EveryNs /\ ~m.lastDay
        BY <2>2, <4>1, <4>3, <4>4 DEF EveryNs
      <4>6. QED
        BY <4>1, <4>2, <4>4, <4>5
    <3>3. QED
      BY <1>7, <3>1, <3>2
  <2>4. IsModel(m) /\ m # Custom
    BY <2>3, ModelSets DEF EveryNs, Custom, Model
  <2>5. QED
    BY <1>3, <2>3, <2>4
<1>8. ASSUME ChangeTime PROVE CronInv'
  <2>1. PICK h \in {0, 23} : Emit([b EXCEPT !.hour = h, !.minute = 59])
    BY <1>4, <1>8 DEF ChangeTime
  <2>2. PICK d : d = [b EXCEPT !.hour = h, !.minute = 59]
    OBVIOUS
  <2>3. h \in 0..23 /\ 59 \in 0..59
    BY <2>1
  <2>4. b.mode \in {"daily", "weekly", "monthly"}
    BY <1>4, <1>8 DEF ChangeTime
  <2>5. \/ b \in Dailies /\ ~b.lastDay
        \/ b \in Weeklies /\ ~b.lastDay /\ b.days # {}
        \/ b \in Monthlies /\ (b.days # {} \/ b.lastDay)
    BY <1>5, <2>4, ModelModes
  <2>6. \/ d \in Dailies /\ ~d.lastDay
        \/ d \in Weeklies /\ ~d.lastDay /\ d.days # {}
        \/ d \in Monthlies /\ (d.days # {} \/ d.lastDay)
    <3>1. b \in Dailies => d \in Dailies /\ d.lastDay = b.lastDay
      BY <2>2, <2>3 DEF Dailies
    <3>2. b \in Weeklies => d \in Weeklies /\ d.days = b.days /\ d.lastDay = b.lastDay
      BY <2>2, <2>3 DEF Weeklies
    <3>3. b \in Monthlies => d \in Monthlies /\ d.days = b.days /\ d.lastDay = b.lastDay
      BY <2>2, <2>3 DEF Monthlies
    <3>4. QED
      BY <2>5, <3>1, <3>2, <3>3
  <2>7. IsModel(d)
    BY <2>6, ModelSets
  <2>8. d # Custom
    BY <2>6 DEF Dailies, Weeklies, Monthlies, Custom, Model
  <2>9. QED
    BY <1>3, <2>1, <2>2, <2>7, <2>8
<1>9. ASSUME ToggleWeekday PROVE CronInv'
  <2>1. PICK d \in 0..6 : /\ Flip(b.days, d) # {}
                          /\ Emit([b EXCEPT !.days = Flip(@, d)])
    BY <1>4, <1>9, CronBounds DEF ToggleWeekday
  <2>2. b.mode = "weekly"
    BY <1>4, <1>9 DEF ToggleWeekday
  <2>3. b \in Weeklies /\ ~b.lastDay
    BY <1>5, <2>2, ModelModes
  <2>4. PICK m : m = [b EXCEPT !.days = Flip(@, d)]
    OBVIOUS
  <2>5. Flip(b.days, d) \in SUBSET (0..6)
    BY <2>1, <2>3 DEF Flip, Weeklies
  <2>6. m \in Weeklies /\ ~m.lastDay /\ m.days # {}
    BY <2>1, <2>3, <2>4, <2>5 DEF Weeklies
  <2>7. IsModel(m) /\ m # Custom
    BY <2>6, ModelSets DEF Weeklies, Custom, Model
  <2>8. QED
    BY <1>3, <2>1, <2>4, <2>7
<1>10. ASSUME ToggleMonthDay \/ ToggleLastDay PROVE CronInv'
  <2>1. b.mode = "monthly"
    BY <1>4, <1>10 DEF ToggleMonthDay, ToggleLastDay
  <2>2. b \in Monthlies /\ (b.days # {} \/ b.lastDay)
    BY <1>5, <2>1, ModelModes
  <2>3. PICK m \in Monthlies : (m.days # {} \/ m.lastDay) /\ Emit(m)
    <3>1. CASE ToggleMonthDay
      <4>1. PICK d \in {1, 15, 31} : /\ Flip(b.days, d) # {} \/ b.lastDay
                                     /\ Emit([b EXCEPT !.days = Flip(@, d)])
        BY <1>4, <3>1 DEF ToggleMonthDay
      <4>2. PICK m : m = [b EXCEPT !.days = Flip(@, d)]
        OBVIOUS
      <4>3. Flip(b.days, d) \in SUBSET (1..31)
        BY <2>2 DEF Flip, Monthlies
      <4>4. m \in Monthlies /\ m.days = Flip(b.days, d) /\ m.lastDay = b.lastDay
        BY <2>2, <4>2, <4>3 DEF Monthlies
      <4>5. QED
        BY <4>1, <4>2, <4>4
    <3>2. CASE ToggleLastDay
      <4>1. (~b.lastDay \/ b.days # {}) /\ Emit([b EXCEPT !.lastDay = ~@])
        BY <1>4, <3>2 DEF ToggleLastDay
      <4>2. PICK m : m = [b EXCEPT !.lastDay = ~@]
        OBVIOUS
      <4>3. m \in Monthlies /\ m.days = b.days /\ m.lastDay = ~b.lastDay
        BY <2>2, <4>2 DEF Monthlies
      <4>4. QED
        BY <4>1, <4>2, <4>3
    <3>3. QED
      BY <1>10, <3>1, <3>2
  <2>4. IsModel(m) /\ m # Custom
    BY <2>3, ModelSets DEF Monthlies, Custom, Model
  <2>5. QED
    BY <1>3, <2>3, <2>4
<1>11. ASSUME TypeCron PROVE CronInv'
  <2>1. PICK e \in Typed : ui' = [ui EXCEPT !.expr = e, !.emitted = Custom]
    BY <1>11 DEF TypeCron
  <2>2. PICK doms, months, dows :
          /\ doms = {Stars, {Num(29)}, {Num(8), LastDay}, {LastDay}, {Every(10)}, {Every(1)},
                     {Star, Num(3)}, {From(10, 10)}, {Span(28, 31), Num(2)}, {Named(Star)}, {Num(1)}}
          /\ months = {Stars, {Num(2)}, {From(1, 5)}, {Named(Span(1, 3))}}
          /\ dows = {Stars, {Span(1, 5)}, {Num(0), Num(6)}, {Every(2)}, {From(1, 3)}, {Num(7)},
                     {Named(Span(1, 5))}, {Num(0)}}
    OBVIOUS
  <2>3. e \in [minute : {{Num(30)}, {Num(0)}}, hour : {{Num(7)}, {Num(0)}, Stars},
               dom : doms, month : months, dow : dows, descriptor : BOOLEAN]
    <3>1. CASE e \in Descriptors
      <4>1. PICK hour, dom, dow :
              /\ e = Descriptor(hour, dom, dow)
              /\ hour \in {{Num(0)}, Stars} /\ dom \in {Stars, {Num(1)}} /\ dow \in {Stars, {Num(0)}}
        BY <3>1 DEF Descriptors
      <4>2. dom \in doms /\ Stars \in months /\ dow \in dows
        BY <2>2, <4>1
      <4>3. QED
        BY <4>1, <4>2 DEF Descriptor
    <3>2. CASE e \notin Descriptors
      <4>1. PICK dom, month, dow :
              /\ e = Cron({Num(30)}, {Num(7)}, dom, month, dow)
              /\ dom \in doms /\ month \in months /\ dow \in dows
        BY <2>1, <2>2, <3>2 DEF Typed
      <4>2. QED
        BY <4>1 DEF Cron
    <3>3. QED
      BY <3>1, <3>2
  <2>4. PICK dom, month, dow : dom = e.dom /\ month = e.month /\ dow = e.dow
    OBVIOUS
  <2>5. dom \in CronFields /\ Simple(dom \ {LastDay}) /\ \A p \in dom : p.k = "last" => p = LastDay
    <3>1. /\ dom # {}
          /\ dom \subseteq {Star, Num(29), Num(8), LastDay, Every(10), Every(1), Num(3),
                            From(10, 10), Span(28, 31), Num(2), Named(Star), Num(1)}
      <4>1. dom \in doms
        BY <2>3, <2>4
      <4>2. dom \in {Stars, {Num(29)}, {Num(8), LastDay}, {LastDay}, {Every(10)}, {Every(1)},
                     {Star, Num(3)}, {From(10, 10)}, {Span(28, 31), Num(2)}, {Named(Star)}, {Num(1)}}
        BY <2>2, <4>1
      <4>3. QED
        BY <4>2 DEF Stars
    <3>2. \A p \in dom : p \in Parts /\ (p.k = "last" => p = LastDay) /\ (p.k = "num" => p.lo = p.hi)
      <4>1. \A p \in {Star, LastDay, Every(10), Every(1), From(10, 10), Span(28, 31), Named(Star)} :
              p \in Parts /\ (p.k = "last" => p = LastDay) /\ (p.k = "num" => p.lo = p.hi)
        BY PartKinds, NamedKinds
      <4>2. \A p \in {Num(29), Num(8), Num(3), Num(2), Num(1)} :
              p \in Parts /\ p.k = "num" /\ p.lo = p.hi
        BY PartKinds
      <4>3. QED
        BY <3>1, <4>1, <4>2
    <3>3. QED
      BY <3>1, <3>2 DEF CronFields, Simple
  <2>6. month \in CronFields /\ dow \in CronFields /\ Simple(month) /\ Simple(dow)
    <3>1. /\ month # {} /\ dow # {}
          /\ month \subseteq {Star, Num(2), From(1, 5), Named(Span(1, 3))}
          /\ dow \subseteq {Star, Span(1, 5), Num(0), Num(6), Every(2), From(1, 3), Num(7),
                            Named(Span(1, 5))}
      <4>1. month \in months /\ dow \in dows
        BY <2>3, <2>4
      <4>2. month # {} /\ month \subseteq {Star, Num(2), From(1, 5), Named(Span(1, 3))}
        <5>1. month \in {Stars, {Num(2)}, {From(1, 5)}, {Named(Span(1, 3))}}
          BY <2>2, <4>1
        <5>2. QED
          BY <5>1 DEF Stars
      <4>3. dow # {} /\ dow \subseteq {Star, Span(1, 5), Num(0), Num(6), Every(2), From(1, 3),
                                       Num(7), Named(Span(1, 5))}
        <5>1. dow \in {Stars, {Span(1, 5)}, {Num(0), Num(6)}, {Every(2)}, {From(1, 3)}, {Num(7)},
                       {Named(Span(1, 5))}, {Num(0)}}
          BY <2>2, <4>1
        <5>2. QED
          BY <5>1 DEF Stars
      <4>4. QED
        BY <4>2, <4>3
    <3>2. \A p \in month \cup dow : p \in Parts /\ p.k # "last" /\ (p.k = "num" => p.lo = p.hi)
      BY <3>1, PartKinds, NamedKinds
    <3>3. QED
      BY <3>1, <3>2 DEF CronFields, Simple
  <2>7. e.minute \in CronFields /\ e.hour \in CronFields
    <3>1. {Num(30)} \in CronFields /\ {Num(7)} \in CronFields /\ {Num(0)} \in CronFields
      BY IntWritten
    <3>2. QED
      BY <2>3, <3>1, StarWritten
  <2>8. WellFormed(e) /\ Readable(e)
    <3>1. e \in [minute : CronFields, hour : CronFields, dom : CronFields, month : CronFields,
                 dow : CronFields, descriptor : BOOLEAN]
      BY <2>3, <2>5, <2>6, <2>7, <2>4
    <3>2. QED
      BY <2>5, <2>6, <2>4, <3>1 DEF WellFormed, Readable
  <2>9. QED
    BY <1>2, <1>11, <2>1, <2>8 DEF TypeCron
<1>12. ASSUME Shift PROVE CronInv'
  <2>1. PICK i \in 0..MaxMonths : ui' = [ui EXCEPT !.cursor = i]
    BY <1>12 DEF Shift
  <2>2. ui' \in [page : {"cron"}, expr : {ui.expr}, emitted : {ui.emitted}, cursor : {i}]
    BY <1>1, <2>1
  <2>3. QED
    BY <1>12, <2>2 DEF Shift, Free, CronInv, Builder
<1>13. CASE UNCHANGED webVars
  BY <1>13 DEF webVars, CronInv, Builder
<1>14. QED
  BY <1>6, <1>7, <1>8, <1>9, <1>10, <1>11, <1>12, <1>13 DEF CronNext

-----------------------------------------------------------------------------
(* The page of automations. *)

Sources == {"none", "loading", "last", "defaults", "empty"}

FormStates(m) == [mounted : BOOLEAN, source : Sources, of : 0..m]

Modals(n, m) == {NoModal} \cup [id : 1..n, defaults : BOOLEAN, force : BOOLEAN,
                                form : FormStates(m)]

AutomationEditors(n) == [open : BOOLEAN, id : 0..n, defaults : DefaultsText, error : BOOLEAN]

AutomationRequests(n, m) ==
    [op : {"create"}, id : {0}, defaults : BOOLEAN, state : {"sent", "ok", "error"}, job : 0..m,
     n : Nat]
    \cup [op : {"execute", "update", "remove"}, id : 1..n, defaults : BOOLEAN,
          state : {"sent", "ok", "error"}, job : 0..m, n : Nat]

AutomationsAnswers(n) ==
    [k \in {AutomationsKey} |-> SUBSET [id : 1..n, defaults : BOOLEAN]]

(* The jobs of an automation, and 0. *)
RunsOf(a, jobs) == {0} \cup {j \in 1..Len(jobs) : jobs[j] = a}

LastAnswers(n, jobs) == [a \in 0..n |-> RunsOf(a, jobs)]

AutomationsShape(u, n, jobs) ==
    /\ u \in [page : {"automations"}, query : {u.query}, last : {u.last},
              sent : SUBSET AutomationRequests(n, Len(jobs)), editor : AutomationEditors(n),
              modal : Modals(n, Len(jobs)), dialog : 0..n, viewing : 0..Len(jobs)]
    /\ QueryIn(u.query, AutomationsAnswers(n))
    /\ QueryIn(u.last, LastAnswers(n, jobs))

(* The form of any state of the page: filled from what is the source now,  *)
(* and from an execution of the modal's automation if from any.            *)
Suits(u, jobs) ==
    u.modal.form.mounted =>
        /\ u.modal.form.source = Source(u)
        /\ u.modal.form.source = "last" => u.modal.form.of \in RunsOf(u.modal.id, jobs) \ {0}

AutomationsUI(u, n, jobs) == AutomationsShape(u, n, jobs) /\ Suits(u, jobs)

AutomationRow == [live : BOOLEAN, defaults : BOOLEAN]

AutomationsInv ==
    /\ left \in Purses
    /\ srv \in [rows : Seq(AutomationRow), jobs : Seq(Nat)]
    /\ AutomationsUI(ui, Len(srv.rows), srv.jobs)

LEMMA NoModalTyped ==
    /\ Unmounted = [mounted |-> FALSE, source |-> "none", of |-> 0]
    /\ NoModal.id = 0 /\ NoModal.defaults = FALSE /\ NoModal.force = FALSE
    /\ NoModal.form = Unmounted /\ ~Unmounted.mounted
    /\ \A m \in Nat : Unmounted \in FormStates(m)
BY DEF NoModal, Unmounted, FormStates, Sources

LEMMA ModalTyped ==
    ASSUME NEW n \in Nat, NEW m \in Nat, NEW modal \in Modals(n, m)
    PROVE  /\ modal \in [id : 0..n, defaults : BOOLEAN, force : BOOLEAN, form : FormStates(m)]
           /\ modal # NoModal => modal.id \in 1..n
<1>1. NoModal \in [id : 0..n, defaults : BOOLEAN, force : BOOLEAN, form : FormStates(m)]
  <2>1. NoModal = [id |-> 0, defaults |-> FALSE, force |-> FALSE, form |-> Unmounted]
    BY DEF NoModal
  <2>2. QED
    BY <2>1, NoModalTyped
<1>2. QED
  BY <1>1 DEF Modals

LEMMA AutomationsStart == AutomationsInit => AutomationsInv
<1> SUFFICES ASSUME AutomationsInit PROVE AutomationsInv
  OBVIOUS
<1>1. left \in Purses
  BY PageBounds, AutomationsBounds DEF AutomationsInit, Bounds, Purses
<1>2. PICK a \in AutomationRow, b \in AutomationRow :
        a = [live |-> TRUE, defaults |-> TRUE] /\ b = [live |-> TRUE, defaults |-> FALSE]
  BY DEF AutomationRow
<1>3. srv = [rows |-> <<a, b>>, jobs |-> <<1>>]
  BY <1>2 DEF AutomationsInit
<1>4. /\ srv \in [rows : Seq(AutomationRow), jobs : Seq(Nat)]
      /\ Len(srv.rows) = 2 /\ Len(srv.jobs) = 1
  BY <1>3
<1>5. NoEditor \in AutomationEditors(2)
  BY DEF NoEditor, AutomationEditors, DefaultsText
<1>6. /\ ui \in [page : {"automations"}, query : {NewQuery}, last : {NewQuery},
                 sent : SUBSET AutomationRequests(2, 1), editor : AutomationEditors(2),
                 modal : Modals(2, 1), dialog : 0..2, viewing : 0..1]
      /\ ui.modal = NoModal
  BY <1>5 DEF AutomationsInit, Modals
<1>7. AutomationsShape(ui, 2, srv.jobs)
  BY <1>4, <1>6, NewQueryIn DEF AutomationsShape
<1>8. Suits(ui, srv.jobs)
  BY <1>6, NoModalTyped DEF Suits
<1>9. QED
  BY <1>1, <1>4, <1>7, <1>8 DEF AutomationsInv, AutomationsUI

LEMMA MoreAutomations ==
    ASSUME NEW n \in Nat, NEW N \in Nat, n <= N,
           NEW jobs \in Seq(Nat), NEW more \in Seq(Nat), Len(jobs) <= Len(more),
           \A j \in 1..Len(jobs) : more[j] = jobs[j],
           NEW u, AutomationsUI(u, n, jobs)
    PROVE  AutomationsUI(u, N, more)
<1> DEFINE m == Len(jobs)
           M == Len(more)
<1>1. \A k : /\ k \in 0..n => k \in 0..N
             /\ k \in 1..n => k \in 1..N
             /\ k \in 0..m => k \in 0..M
  OBVIOUS
<1>2. FormStates(m) \subseteq FormStates(M)
  BY <1>1 DEF FormStates
<1>3. Modals(n, m) \subseteq Modals(N, M)
  BY <1>1, <1>2 DEF Modals
<1>4. AutomationEditors(n) \subseteq AutomationEditors(N)
  BY <1>1 DEF AutomationEditors
<1>5. AutomationRequests(n, m) \subseteq AutomationRequests(N, M)
  BY <1>1 DEF AutomationRequests
<1>6. QueryIn(u.query, AutomationsAnswers(N))
  <2>1. [id : 1..n, defaults : BOOLEAN] \subseteq [id : 1..N, defaults : BOOLEAN]
    BY <1>1
  <2>2. QED
    BY <2>1, MoreAnswers DEF AutomationsUI, AutomationsShape, AutomationsAnswers
<1>7. \A a : RunsOf(a, jobs) \subseteq RunsOf(a, more)
  BY <1>1 DEF RunsOf
<1>8. QueryIn(u.last, LastAnswers(N, more))
  <2>1. \A k \in DOMAIN LastAnswers(n, jobs) :
          /\ k \in DOMAIN LastAnswers(N, more)
          /\ \A a \in LastAnswers(n, jobs)[k] : a \in LastAnswers(N, more)[k]
    BY <1>1, <1>7 DEF LastAnswers
  <2>2. QED
    BY <2>1, MoreAnswers DEF AutomationsUI, AutomationsShape
<1>9. Suits(u, more)
  BY <1>7 DEF AutomationsUI, Suits
<1>10. QED
  BY <1>1, <1>3, <1>4, <1>5, <1>6, <1>8, <1>9 DEF AutomationsUI, AutomationsShape

-----------------------------------------------------------------------------
(* Where the values of the form come from, by what it depends on.          *)

SourceOf(last, id, force, defaults) ==
    IF ~HasData(last, id) /\ id \notin last.failed THEN "loading"
    ELSE IF (IF HasData(last, id) THEN last.cache[id] ELSE 0) # 0 /\ ~force THEN "last"
    ELSE IF defaults THEN "defaults" ELSE "empty"

LEMMA SourceBy ==
    ASSUME NEW u
    PROVE  Source(u) = SourceOf(u.last, u.modal.id, u.modal.force, u.modal.defaults)
BY DEF Source, SourceOf, Loading, LastRun, ParamsKey

LEMMA SourceTyped == ASSUME NEW u PROVE Source(u) \in Sources
BY DEF Source, Sources

(* What is shown after a change says its source, if nothing but the render *)
(* has touched the form.                                                   *)
LEMMA RenderedTyped ==
    ASSUME NEW n \in Nat, NEW jobs \in Seq(Nat), AutomationsUI(ui, n, jobs),
           NEW u, AutomationsShape(u, n, jobs), u.modal.form \in {ui.modal.form, Unmounted}
    PROVE  AutomationsUI(Rendered(u), n, jobs)
<1> DEFINE m == Len(jobs)
<1>1. /\ u.modal \in [id : 0..n, defaults : BOOLEAN, force : BOOLEAN, form : FormStates(m)]
      /\ u.modal \in Modals(n, m)
      /\ u.modal # NoModal => u.modal.id \in 1..n
  BY ModalTyped DEF AutomationsShape
<1>2. ASSUME NEW form \in FormStates(m), u.modal = NoModal => form = Unmounted,
             form.mounted => form.source = Source(u),
             form.mounted /\ form.source = "last" => form.of \in RunsOf(u.modal.id, jobs) \ {0},
             NEW v, v = [u EXCEPT !.modal.form = form]
      PROVE  AutomationsUI(v, n, jobs)
  <2>1. PICK modal : modal = [u.modal EXCEPT !.form = form]
    OBVIOUS
  <2>2. /\ modal \in [id : 0..n, defaults : BOOLEAN, force : BOOLEAN, form : FormStates(m)]
        /\ modal.id = u.modal.id /\ modal.force = u.modal.force
        /\ modal.defaults = u.modal.defaults /\ modal.form = form
    BY <1>1, <1>2, <2>1
  <2>3. modal \in Modals(n, m)
    <3>1. CASE u.modal = NoModal
      <4>1. modal = NoModal
        BY <1>2, <2>1, <3>1, NoModalTyped DEF NoModal
      <4>2. QED
        BY <4>1 DEF Modals
    <3>2. CASE u.modal # NoModal
      BY <1>1, <2>2, <3>2 DEF Modals
    <3>3. QED
      BY <3>1, <3>2
  <2>4. v = [u EXCEPT !.modal = modal]
    BY <1>2, <2>1 DEF AutomationsShape
  <2>5. AutomationsShape(v, n, jobs) /\ v.modal = modal /\ v.last = u.last
    BY <2>3, <2>4 DEF AutomationsShape
  <2>6. Source(v) = Source(u)
    BY <2>2, <2>5, SourceBy
  <2>7. QED
    BY <1>2, <2>2, <2>5, <2>6 DEF AutomationsUI, Suits
<1>3. CASE u.modal = NoModal \/ Source(u) = "loading"
  <2>1. Rendered(u) = [u EXCEPT !.modal.form = Unmounted]
    BY <1>3 DEF Rendered
  <2>2. Unmounted \in FormStates(m) /\ ~Unmounted.mounted
    BY NoModalTyped
  <2>3. QED
    BY <1>2, <2>1, <2>2
<1>4. CASE ~(u.modal = NoModal \/ Source(u) = "loading")
  <2>1. CASE ui.modal.form.mounted /\ FormKey(u) = FormKey(ui)
    <3>1. Source(u) = Source(ui) /\ u.modal.id = ui.modal.id
      BY <2>1 DEF FormKey
    <3>2. Suits(u, jobs)
      BY <3>1, NoModalTyped DEF Suits, AutomationsUI
    <3>3. Rendered(u) = u
      BY <1>4, <2>1 DEF Rendered
    <3>4. QED
      BY <3>2, <3>3 DEF AutomationsUI
  <2>2. CASE ~(ui.modal.form.mounted /\ FormKey(u) = FormKey(ui))
    <3>1. Rendered(u) = [u EXCEPT !.modal.form = Filled(u)]
      BY <1>4, <2>2 DEF Rendered
    <3>2. LastRun(u) \in RunsOf(u.modal.id, jobs)
      BY DEF LastRun, ParamsKey, HasData, AutomationsShape, QueryIn, LastAnswers, RunsOf
    <3>3. Source(u) = "last" => LastRun(u) # 0
      BY DEF Source
    <3>4. PICK of \in RunsOf(u.modal.id, jobs) : of = IF Source(u) = "last" THEN LastRun(u) ELSE 0
      BY <3>2 DEF RunsOf
    <3>5. of \in 0..m
      BY <3>4 DEF RunsOf
    <3>6. /\ Filled(u) \in FormStates(m)
          /\ Filled(u).source = Source(u) /\ Filled(u).of = of
      BY <3>4, <3>5, SourceTyped DEF Filled, FormStates
    <3>7. QED
      BY <1>2, <1>4, <3>1, <3>3, <3>4, <3>6
  <2>3. QED
    BY <2>1, <2>2
<1>5. QED
  BY <1>3, <1>4

LEMMA LastParamsTyped ==
    ASSUME NEW a, srv.jobs \in Seq(Nat)
    PROVE  LastParams(a) \in RunsOf(a, srv.jobs)
<1> DEFINE mine == {j \in 1..Len(srv.jobs) : srv.jobs[j] = a}
<1>1. CASE mine = {}
  BY <1>1 DEF LastParams, RunsOf
<1>2. CASE mine # {}
  <2>1. mine \in SUBSET (0..Len(srv.jobs)) /\ Len(srv.jobs) \in Nat
    OBVIOUS
  <2>2. \E j \in mine : \A k \in mine : k <= j
    BY <1>2, <2>1, Latest
  <2>3. LastParams(a) \in mine
    BY <1>2, <2>2 DEF LastParams
  <2>4. QED
    BY <2>3 DEF RunsOf
<1>3. QED
  BY <1>1, <1>2

(* Dialogs, the editor and requests leave the modal alone. *)
LEMMA ModalLeftAlone ==
    ASSUME NEW n \in Nat, NEW jobs \in Seq(Nat), AutomationsUI(ui, n, jobs),
           NEW S \in SUBSET AutomationRequests(n, Len(jobs)), NEW e \in AutomationEditors(n),
           NEW d \in 0..n, NEW v \in 0..Len(jobs),
           ui' = [ui EXCEPT !.sent = S, !.editor = e, !.dialog = d, !.viewing = v]
    PROVE  AutomationsUI(ui', n, jobs)
<1>1. AutomationsShape(ui', n, jobs) /\ ui'.modal = ui.modal /\ ui'.last = ui.last
  BY DEF AutomationsUI, AutomationsShape
<1>2. Source(ui') = Source(ui)
  BY <1>1, SourceBy
<1>3. Suits(ui', jobs)
  BY <1>1, <1>2 DEF AutomationsUI, Suits
<1>4. QED
  BY <1>1, <1>3 DEF AutomationsUI

LEMMA AutomationsSteps == AutomationsInv /\ [AutomationsNext]_webVars => AutomationsInv'
<1> SUFFICES ASSUME AutomationsInv, [AutomationsNext]_webVars PROVE AutomationsInv'
  OBVIOUS
<1> DEFINE n == Len(srv.rows)
           jobs == srv.jobs
           m == Len(jobs)
<1>1. /\ n \in Nat /\ m \in Nat /\ jobs \in Seq(Nat) /\ AutomationsUI(ui, n, jobs)
      /\ srv \in [rows : Seq(AutomationRow), jobs : Seq(Nat)]
  BY DEF AutomationsInv
<1>2. /\ ui \in [page : {"automations"}, query : {ui.query}, last : {ui.last},
                 sent : SUBSET AutomationRequests(n, m), editor : AutomationEditors(n),
                 modal : Modals(n, m), dialog : 0..n, viewing : 0..m]
      /\ QueryIn(ui.query, AutomationsAnswers(n))
      /\ QueryIn(ui.last, LastAnswers(n, jobs))
  BY <1>1 DEF AutomationsUI, AutomationsShape
<1>3. Automations \in SUBSET [id : 1..n, defaults : BOOLEAN]
  <2>1. \A a \in 1..n : srv.rows[a] \in AutomationRow
    BY <1>1
  <2>2. QED
    BY <2>1 DEF Automations, AutomationRow
<1>4. \A a \in AutomationRows : a.id \in 1..n /\ a.defaults \in BOOLEAN
  <2>1. AutomationRows \in SUBSET [id : 1..n, defaults : BOOLEAN]
    BY <1>2 DEF AutomationRows, HasData, QueryIn, AutomationsAnswers
  <2>2. QED
    BY <2>1
<1>5. /\ ui.modal \in [id : 0..n, defaults : BOOLEAN, force : BOOLEAN, form : FormStates(m)]
      /\ ui.modal # NoModal => ui.modal.id \in 1..n
      /\ ui.modal.form.mounted => ui.modal # NoModal
  BY <1>1, <1>2, ModalTyped, NoModalTyped
(* Steps that leave the server alone. *)
<1>6. ASSUME UNCHANGED srv, Act \/ Change \/ Loss \/ Free, AutomationsUI(ui', n, jobs)
      PROVE  AutomationsInv'
  <2>1. left' \in Purses
    BY <1>6, Paid DEF AutomationsInv
  <2>2. QED
    BY <1>1, <1>6, <2>1 DEF AutomationsInv
<1>7. ASSUME NEW u, Render(u), AutomationsShape(u, n, jobs),
             u.modal.form \in {ui.modal.form, Unmounted}
      PROVE  AutomationsUI(ui', n, jobs)
  BY <1>1, <1>7, RenderedTyped DEF Render
(* The two queries. *)
<1>8. ASSUME NEW q, QueryIn(q, AutomationsAnswers(n)), Render([ui EXCEPT !.query = q])
      PROVE  AutomationsUI(ui', n, jobs)
  <2>1. AutomationsShape([ui EXCEPT !.query = q], n, jobs)
    BY <1>2, <1>8 DEF AutomationsShape
  <2>2. [ui EXCEPT !.query = q].modal = ui.modal
    BY <1>2
  <2>3. QED
    BY <1>7, <1>8, <2>1, <2>2
<1>9. ASSUME NEW q, QueryIn(q, LastAnswers(n, jobs)), Render([ui EXCEPT !.last = q])
      PROVE  AutomationsUI(ui', n, jobs)
  <2>1. AutomationsShape([ui EXCEPT !.last = q], n, jobs)
    BY <1>2, <1>9 DEF AutomationsShape
  <2>2. [ui EXCEPT !.last = q].modal = ui.modal
    BY <1>2
  <2>3. QED
    BY <1>7, <1>9, <2>1, <2>2
<1>10. ASSUME FetchAutomations PROVE AutomationsInv'
  <2>1. ~Fetching(ui.query, AutomationsKey)
    BY <1>10 DEF FetchAutomations, NeedsFetch
  <2>2. /\ AutomationsKey \in DOMAIN AutomationsAnswers(n)
        /\ Automations \in AutomationsAnswers(n)[AutomationsKey]
    BY <1>3 DEF AutomationsAnswers
  <2>3. QueryIn(StartFetch(ui.query, AutomationsKey, Automations), AutomationsAnswers(n))
    BY <1>2, <2>1, <2>2, StartFetchIn
  <2>4. Render([ui EXCEPT !.query = StartFetch(ui.query, AutomationsKey, Automations)])
    BY <1>10 DEF FetchAutomations
  <2>5. QED
    BY <1>6, <1>8, <1>10, <2>3, <2>4 DEF FetchAutomations
<1>11. ASSUME DeliverAutomations PROVE AutomationsInv'
  <2>1. PICK f \in ui.query.fetching : Render([ui EXCEPT !.query = Deliver(ui.query, f)])
    BY <1>11 DEF DeliverAutomations
  <2>2. QueryIn(Deliver(ui.query, f), AutomationsAnswers(n))
    BY <1>2, DeliverIn
  <2>3. QED
    BY <1>6, <1>8, <1>11, <2>1, <2>2 DEF DeliverAutomations
<1>12. ASSUME FetchLast PROVE AutomationsInv'
  <2>1. ~Fetching(ui.last, ui.modal.id) /\ ui.modal.id \in 0..n
    BY <1>5, <1>12 DEF FetchLast, NeedsFetch, ParamsKey
  <2>2. /\ ui.modal.id \in DOMAIN LastAnswers(n, jobs)
        /\ LastParams(ui.modal.id) \in LastAnswers(n, jobs)[ui.modal.id]
    BY <1>1, <2>1, LastParamsTyped DEF LastAnswers
  <2>3. QueryIn(StartFetch(ui.last, ui.modal.id, LastParams(ui.modal.id)), LastAnswers(n, jobs))
    BY <1>2, <2>1, <2>2, StartFetchIn
  <2>4. Render([ui EXCEPT !.last = StartFetch(ui.last, ui.modal.id, LastParams(ui.modal.id))])
    BY <1>12 DEF FetchLast, ParamsKey
  <2>5. QED
    BY <1>6, <1>9, <1>12, <2>3, <2>4 DEF FetchLast
<1>13. ASSUME DeliverLast PROVE AutomationsInv'
  <2>1. PICK f \in ui.last.fetching : Render([ui EXCEPT !.last = Deliver(ui.last, f)])
    BY <1>13 DEF DeliverLast
  <2>2. QueryIn(Deliver(ui.last, f), LastAnswers(n, jobs))
    BY <1>2, DeliverIn
  <2>3. QED
    BY <1>6, <1>9, <1>13, <2>1, <2>2 DEF DeliverLast
<1>14. ASSUME LoseLast PROVE AutomationsInv'
  <2>1. PICK f \in ui.last.fetching :
          Render([ui EXCEPT !.last = Fail(ui.last, f, LastParams(f.key))])
    BY <1>14 DEF LoseLast
  <2>2. f.key \in DOMAIN LastAnswers(n, jobs)
    BY <1>2 DEF QueryIn
  <2>3. LastParams(f.key) \in LastAnswers(n, jobs)[f.key]
    BY <1>1, <2>2, LastParamsTyped DEF LastAnswers
  <2>4. QueryIn(Fail(ui.last, f, LastParams(f.key)), LastAnswers(n, jobs))
    BY <1>2, <2>3, FailIn
  <2>5. QED
    BY <1>6, <1>9, <1>14, <2>1, <2>4 DEF LoseLast
<1>15. ASSUME Refocus PROVE AutomationsInv'
  <2>1. PICK q : q = [ui.last EXCEPT !.due = ui.last.due \cup {ui.modal.id}]
    OBVIOUS
  <2>2. q \in [cache : {ui.last.cache}, fetching : {ui.last.fetching},
               due : {ui.last.due \cup {ui.modal.id}}, failed : {ui.last.failed}]
    BY <1>2, <2>1 DEF QueryIn
  <2>3. ui.modal.id \in DOMAIN LastAnswers(n, jobs)
    BY <1>5 DEF LastAnswers
  <2>4. QueryIn(q, LastAnswers(n, jobs))
    BY <1>2, <2>2, <2>3 DEF QueryIn
  <2>5. Render([ui EXCEPT !.last = q])
    BY <1>15, <2>1 DEF Refocus, ParamsKey
  <2>6. QED
    BY <1>6, <1>9, <1>15, <2>4, <2>5 DEF Refocus
(* The modal. *)
<1>16. ASSUME NEW d \in Modals(n, m), d.form \in {ui.modal.form, Unmounted},
              Render([ui EXCEPT !.modal = d])
       PROVE  AutomationsUI(ui', n, jobs)
  <2>1. AutomationsShape([ui EXCEPT !.modal = d], n, jobs)
    BY <1>2 DEF AutomationsShape
  <2>2. [ui EXCEPT !.modal = d].modal = d
    BY <1>2
  <2>3. QED
    BY <1>7, <1>16, <2>1, <2>2
<1>17. ASSUME ClickExecutar PROVE AutomationsInv'
  <2>1. PICK a \in AutomationRows :
          Render([ui EXCEPT !.modal = [NoModal EXCEPT !.id = a.id, !.defaults = a.defaults]])
    BY <1>17 DEF ClickExecutar
  <2>2. PICK d : d = [NoModal EXCEPT !.id = a.id, !.defaults = a.defaults]
    OBVIOUS
  <2>3. NoModal = [id |-> 0, defaults |-> FALSE, force |-> FALSE, form |-> Unmounted]
    BY DEF NoModal
  <2>4. /\ d \in [id : 1..n, defaults : BOOLEAN, force : BOOLEAN, form : {Unmounted}]
        /\ d.form = Unmounted
    BY <1>4, <2>2, <2>3
  <2>5. d \in Modals(n, m)
    BY <1>1, <2>4, NoModalTyped DEF Modals
  <2>6. AutomationsUI(ui', n, jobs)
    BY <1>16, <2>1, <2>2, <2>4, <2>5
  <2>7. QED
    BY <1>6, <1>17, <2>6 DEF ClickExecutar
<1>18. ASSUME BackToDefaults PROVE AutomationsInv'
  <2>1. PICK d : d = [ui.modal EXCEPT !.force = TRUE]
    OBVIOUS
  <2>2. /\ d \in [id : 1..n, defaults : BOOLEAN, force : BOOLEAN, form : FormStates(m)]
        /\ d.form = ui.modal.form
    BY <1>5, <1>18, <2>1 DEF BackToDefaults, Open
  <2>3. d \in Modals(n, m)
    BY <2>2 DEF Modals
  <2>4. Render([ui EXCEPT !.modal = d])
    <3>1. Render([ui EXCEPT !.modal.force = TRUE])
      BY <1>18 DEF BackToDefaults
    <3>2. [ui EXCEPT !.modal.force = TRUE] = [ui EXCEPT !.modal = d]
      BY <1>2, <2>1
    <3>3. QED
      BY <3>1, <3>2
  <2>5. AutomationsUI(ui', n, jobs)
    BY <1>16, <2>2, <2>3, <2>4
  <2>6. QED
    BY <1>6, <1>18, <2>5 DEF BackToDefaults
<1>19. ASSUME CloseModal PROVE AutomationsInv'
  <2>1. NoModal \in Modals(n, m) /\ NoModal.form = Unmounted
    BY NoModalTyped DEF Modals
  <2>2. AutomationsUI(ui', n, jobs)
    BY <1>16, <1>19, <2>1 DEF CloseModal
  <2>3. QED
    BY <1>6, <1>19, <2>2 DEF CloseModal
(* Dialogs, the editor and requests. *)
<1>20. ASSUME NEW op, NEW id, NEW defaults \in BOOLEAN,
              \/ op = "create" /\ id = 0
              \/ op \in {"execute", "update", "remove"} /\ id \in 1..n,
              SendAutomation(op, id, defaults), Act \/ Free
       PROVE  AutomationsInv'
  <2>1. PICK r : r = [op |-> op, id |-> id, defaults |-> defaults, state |-> "sent", job |-> 0,
                      n |-> left.acts]
    OBVIOUS
  <2>2. r \in AutomationRequests(n, m)
    BY <1>1, <1>20, <2>1 DEF AutomationRequests, AutomationsInv, Purses
  <2>3. PICK S : S = ui.sent \cup {r}
    OBVIOUS
  <2>4. S \in SUBSET AutomationRequests(n, m)
    BY <1>2, <2>2, <2>3
  <2>5. ui' = [ui EXCEPT !.sent = S, !.editor = ui.editor, !.dialog = 0, !.viewing = ui.viewing]
    <3>1. ui' = [ui EXCEPT !.dialog = 0, !.sent = S]
      BY <1>20, <2>1, <2>3 DEF SendAutomation
    <3>2. QED
      BY <1>2, <3>1
  <2>6. ui.editor \in AutomationEditors(n) /\ ui.viewing \in 0..m /\ 0 \in 0..n
    BY <1>1, <1>2
  <2>7. AutomationsUI(ui', n, jobs)
    BY <1>1, <2>4, <2>5, <2>6, ModalLeftAlone
  <2>8. QED
    BY <1>6, <1>20, <2>7 DEF SendAutomation
<1>21. ASSUME Executar PROVE AutomationsInv'
  BY <1>5, <1>20, <1>21 DEF Executar
<1>22. ASSUME ConfirmRemover PROVE AutomationsInv'
  <2>1. ui.dialog \in 1..n
    BY <1>2, <1>22 DEF ConfirmRemover
  <2>2. QED
    BY <1>20, <1>22, <2>1 DEF ConfirmRemover
<1>23. ASSUME NEW e \in AutomationEditors(n), ui' = [ui EXCEPT !.editor = e]
       PROVE  AutomationsUI(ui', n, jobs)
  <2>1. ui' = [ui EXCEPT !.sent = ui.sent, !.editor = e, !.dialog = ui.dialog,
                         !.viewing = ui.viewing]
    BY <1>2, <1>23
  <2>2. QED
    BY <1>1, <1>2, <2>1, ModalLeftAlone
<1>24. ASSUME NEW id \in 0..n, NEW defaults \in BOOLEAN, OpenAutomation(id, defaults)
       PROVE  AutomationsInv'
  <2>1. PICK e : e = [open |-> TRUE, id |-> id, error |-> FALSE,
                      defaults |-> IF defaults THEN "object" ELSE "none"]
    OBVIOUS
  <2>2. e \in AutomationEditors(n)
    BY <2>1 DEF AutomationEditors, DefaultsText
  <2>3. AutomationsUI(ui', n, jobs)
    BY <1>23, <1>24, <2>1, <2>2 DEF OpenAutomation
  <2>4. QED
    BY <1>6, <1>24, <2>3 DEF OpenAutomation
<1>25. ASSUME NewAutomation \/ EditAutomation PROVE AutomationsInv'
  <2>1. CASE NewAutomation
    <3>1. 0 \in 0..n /\ FALSE \in BOOLEAN
      BY <1>1
    <3>2. QED
      BY <1>24, <2>1, <3>1 DEF NewAutomation
  <2>2. CASE EditAutomation
    <3>1. PICK a \in AutomationRows : OpenAutomation(a.id, a.defaults)
      BY <2>2 DEF EditAutomation
    <3>2. a.id \in 0..n /\ a.defaults \in BOOLEAN
      BY <1>4
    <3>3. QED
      BY <1>24, <3>1, <3>2
  <2>3. QED
    BY <1>25, <2>1, <2>2
<1>26. ASSUME TypeDefaults PROVE AutomationsInv'
  <2>1. PICK t \in DefaultsText : ui' = [ui EXCEPT !.editor.defaults = t]
    BY <1>26 DEF TypeDefaults
  <2>2. PICK e : e = [ui.editor EXCEPT !.defaults = t]
    OBVIOUS
  <2>3. e \in AutomationEditors(n)
    BY <1>2, <2>2 DEF AutomationEditors
  <2>4. ui' = [ui EXCEPT !.editor = e]
    BY <1>2, <2>1, <2>2
  <2>5. QED
    BY <1>6, <1>23, <1>26, <2>3, <2>4 DEF TypeDefaults
<1>27. ASSUME FormatDefaults PROVE AutomationsInv'
  <2>1. PICK e : e = [ui.editor EXCEPT !.error = ui.editor.defaults = "invalid"]
    OBVIOUS
  <2>2. e \in AutomationEditors(n)
    BY <1>2, <2>1 DEF AutomationEditors
  <2>3. ui' = [ui EXCEPT !.editor = e]
    BY <1>2, <1>27, <2>1 DEF FormatDefaults
  <2>4. QED
    BY <1>6, <1>23, <1>27, <2>2, <2>3 DEF FormatDefaults
<1>28. ASSUME SubmitAutomation PROVE AutomationsInv'
  <2>1. CASE ui' = [ui EXCEPT !.editor.error = TRUE] /\ UNCHANGED srv
    <3>1. PICK e : e = [ui.editor EXCEPT !.error = TRUE]
      OBVIOUS
    <3>2. e \in AutomationEditors(n)
      BY <1>2, <3>1 DEF AutomationEditors
    <3>3. ui' = [ui EXCEPT !.editor = e]
      BY <1>2, <2>1, <3>1
    <3>4. QED
      BY <1>6, <1>23, <1>28, <2>1, <3>2, <3>3 DEF SubmitAutomation
  <2>2. CASE SendAutomation(IF ui.editor.id = 0 THEN "create" ELSE "update", ui.editor.id,
                            ui.editor.defaults = "object")
    <3>1. ui.editor.id \in 0..n
      BY <1>2 DEF AutomationEditors
    <3>2. (ui.editor.defaults = "object") \in BOOLEAN
      OBVIOUS
    <3>3. PICK d \in BOOLEAN : d = (ui.editor.defaults = "object")
      BY <3>2
    <3>4. CASE ui.editor.id = 0
      BY <1>20, <1>28, <2>2, <3>3, <3>4 DEF SubmitAutomation
    <3>5. CASE ui.editor.id # 0
      <4>1. ui.editor.id \in 1..n
        BY <3>1, <3>5
      <4>2. QED
        BY <1>20, <1>28, <2>2, <3>3, <3>5, <4>1 DEF SubmitAutomation
    <3>6. QED
      BY <3>4, <3>5
  <2>3. QED
    BY <1>28, <2>1, <2>2 DEF SubmitAutomation
<1>29. ASSUME CloseAutomation PROVE AutomationsInv'
  <2>1. NoEditor \in AutomationEditors(n)
    BY <1>1 DEF NoEditor, AutomationEditors, DefaultsText
  <2>2. QED
    BY <1>6, <1>23, <1>29, <2>1 DEF CloseAutomation
<1>30. ASSUME ClickRemover \/ DeclineRemover PROVE AutomationsInv'
  <2>1. PICK d \in 0..n : ui' = [ui EXCEPT !.dialog = d]
    <3>1. 0 \in 0..n /\ 1..n \subseteq 0..n
      BY <1>1
    <3>2. CASE ClickRemover
      <4>1. PICK a \in AutomationRows : ui' = [ui EXCEPT !.dialog = a.id]
        BY <3>2 DEF ClickRemover
      <4>2. a.id \in 0..n
        BY <1>4, <3>1
      <4>3. QED
        BY <4>1, <4>2
    <3>3. CASE DeclineRemover
      BY <3>1, <3>3 DEF DeclineRemover
    <3>4. QED
      BY <1>30, <3>2, <3>3
  <2>2. ui' = [ui EXCEPT !.sent = ui.sent, !.editor = ui.editor, !.dialog = d,
                         !.viewing = ui.viewing]
    BY <1>2, <2>1
  <2>3. ui.viewing \in 0..m /\ ui.editor \in AutomationEditors(n) /\ d \in 0..n
    BY <1>2, <2>1
  <2>4. AutomationsUI(ui', n, jobs)
    BY <1>1, <1>2, <2>2, <2>3, ModalLeftAlone
  <2>5. QED
    BY <1>6, <1>30, <2>4 DEF ClickRemover, DeclineRemover
<1>31. ASSUME CloseJob PROVE AutomationsInv'
  <2>1. ui' = [ui EXCEPT !.sent = ui.sent, !.editor = ui.editor, !.dialog = ui.dialog,
                         !.viewing = 0]
    BY <1>2, <1>31 DEF CloseJob
  <2>2. 0 \in 0..m
    BY <1>1
  <2>3. AutomationsUI(ui', n, jobs)
    BY <1>1, <1>2, <2>1, <2>2, ModalLeftAlone
  <2>4. QED
    BY <1>6, <1>31, <2>3 DEF CloseJob
(* The server answers. *)
<1>32. ASSUME ServeAutomations PROVE AutomationsInv'
  <2>1. PICK r \in ui.sent, lost \in BOOLEAN :
          /\ srv' = IF AutomationAccepted(r) THEN AutomationEffect(r) ELSE srv
          /\ ui' = [ui EXCEPT !.sent = (ui.sent \ {r}) \cup
                      {[r EXCEPT !.state = IF AutomationAccepted(r) /\ ~lost THEN "ok" ELSE "error",
                                 !.job = Len(srv'.jobs)]}]
          /\ Loss \/ Free
    BY <1>32 DEF ServeAutomations
  <2>2. /\ r.op = "create" \/ (r.op \in {"execute", "update", "remove"} /\ r.id \in 1..n)
        /\ r.defaults \in BOOLEAN
        /\ r \in AutomationRequests(n, m)
    BY <1>2 DEF AutomationRequests
  <2> DEFINE N == Len(srv'.rows)
             more == srv'.jobs
             M == Len(more)
  <2>3. /\ srv' \in [rows : Seq(AutomationRow), jobs : Seq(Nat)]
        /\ N \in Nat /\ M \in Nat /\ n <= N /\ m <= M
        /\ \A j \in 1..m : more[j] = jobs[j]
    <3>1. CASE srv' = srv
      BY <1>1, <3>1
    <3>2. CASE srv' = AutomationEffect(r)
      <4>1. CASE r.op = "create"
        <5>1. [live |-> TRUE, defaults |-> r.defaults] \in AutomationRow
          BY <2>2 DEF AutomationRow
        <5>2. srv' = [srv EXCEPT !.rows =
                        Append(srv.rows, [live |-> TRUE, defaults |-> r.defaults])]
          BY <3>2, <4>1 DEF AutomationEffect
        <5>3. /\ srv'.rows \in Seq(AutomationRow) /\ Len(srv'.rows) = n + 1
              /\ srv'.jobs = srv.jobs /\ srv' \in [rows : {srv'.rows}, jobs : {srv.jobs}]
          BY <1>1, <5>1, <5>2, AppendProperties
        <5>4. QED
          BY <1>1, <5>3
      <4>2. CASE r.op = "execute"
        <5>1. srv' = [srv EXCEPT !.jobs = Append(srv.jobs, r.id)] /\ r.id \in Nat
          BY <2>2, <3>2, <4>2 DEF AutomationEffect
        <5>2. /\ srv'.jobs \in Seq(Nat) /\ Len(srv'.jobs) = m + 1
              /\ srv'.rows = srv.rows /\ srv' \in [rows : {srv.rows}, jobs : {srv'.jobs}]
          BY <1>1, <5>1, AppendProperties
        <5>3. \A j \in 1..m : srv'.jobs[j] = srv.jobs[j]
          BY <1>1, <5>1, AppendProperties
        <5>4. QED
          BY <1>1, <5>2, <5>3
      <4>3. CASE r.op \in {"update", "remove"}
        <5>1. r.id \in 1..n
          BY <2>2, <4>3
        <5>2. srv.rows[r.id] \in AutomationRow
          BY <1>1, <5>1
        <5>3. PICK row \in AutomationRow :
                srv' = [srv EXCEPT !.rows = [srv.rows EXCEPT ![r.id] = row]]
          <6>1. CASE r.op = "update"
            <7>1. [srv.rows[r.id] EXCEPT !.defaults = r.defaults] \in AutomationRow
              BY <2>2, <5>2 DEF AutomationRow
            <7>2. srv' = [srv EXCEPT !.rows[r.id].defaults = r.defaults]
              BY <3>2, <6>1 DEF AutomationEffect
            <7>3. QED
              BY <1>1, <7>1, <7>2
          <6>2. CASE r.op = "remove"
            <7>1. [srv.rows[r.id] EXCEPT !.live = FALSE] \in AutomationRow
              BY <5>2 DEF AutomationRow
            <7>2. srv' = [srv EXCEPT !.rows[r.id].live = FALSE]
              BY <3>2, <6>2 DEF AutomationEffect
            <7>3. QED
              BY <1>1, <7>1, <7>2
          <6>3. QED
            BY <4>3, <6>1, <6>2
        <5>4. PICK rows \in Seq(AutomationRow) :
                rows = [srv.rows EXCEPT ![r.id] = row] /\ Len(rows) = n
          BY <1>1, <5>1, <5>3, ExceptSeq
        <5>5. srv' = [srv EXCEPT !.rows = rows]
          BY <5>3, <5>4
        <5>6. srv' \in [rows : {rows}, jobs : {srv.jobs}]
          BY <1>1, <5>5
        <5>7. srv'.rows = rows /\ srv'.jobs = srv.jobs
          BY <5>6
        <5>8. N = n /\ M = m
          BY <5>4, <5>7
        <5>9. QED
          BY <1>1, <5>4, <5>6, <5>8
      <4>4. QED
        BY <2>2, <4>1, <4>2, <4>3
    <3>3. QED
      BY <2>1, <3>1, <3>2
  <2>4. AutomationsUI(ui, N, more)
    BY <1>1, <2>3, MoreAutomations
  <2>5. ui \in [page : {"automations"}, query : {ui.query}, last : {ui.last},
                sent : SUBSET AutomationRequests(N, M), editor : AutomationEditors(N),
                modal : Modals(N, M), dialog : 0..N, viewing : 0..M]
    BY <2>4 DEF AutomationsUI, AutomationsShape
  <2>6. PICK s : s = [r EXCEPT !.state = IF AutomationAccepted(r) /\ ~lost THEN "ok" ELSE "error",
                               !.job = M]
    OBVIOUS
  <2>7. s \in AutomationRequests(N, M)
    <3>1. r \in AutomationRequests(N, M) /\ M \in 0..M
      BY <2>3, <2>5
    <3>2. QED
      BY <2>6, <3>1 DEF AutomationRequests
  <2>8. PICK S : S = (ui.sent \ {r}) \cup {s}
    OBVIOUS
  <2>9. S \in SUBSET AutomationRequests(N, M)
    BY <2>5, <2>7, <2>8
  <2>10. ui' = [ui EXCEPT !.sent = S, !.editor = ui.editor, !.dialog = ui.dialog,
                          !.viewing = ui.viewing]
    BY <2>1, <2>5, <2>6, <2>8
  <2>11. AutomationsUI(ui', N, more)
    BY <2>3, <2>4, <2>5, <2>9, <2>10, ModalLeftAlone
  <2>12. left' \in Purses
    BY <2>1, Paid DEF AutomationsInv
  <2>13. QED
    BY <2>3, <2>11, <2>12 DEF AutomationsInv
<1>33. ASSUME AutomationAnswered PROVE AutomationsInv'
  <2>1. PICK r \in ui.sent :
          Render(AutomationSucceeded(r)) \/ ui' = [ui EXCEPT !.sent = ui.sent \ {r}]
    BY <1>33 DEF AutomationAnswered
  <2>2. ui.sent \ {r} \in SUBSET AutomationRequests(n, m) /\ r.job \in 0..m
    BY <1>2 DEF AutomationRequests
  <2>3. CASE Render(AutomationSucceeded(r))
    <3>1. /\ QueryIn(Invalidate(ui.last, r.id), LastAnswers(n, jobs))
          /\ QueryIn(Invalidate(ui.last, ui.modal.id), LastAnswers(n, jobs))
          /\ QueryIn(Invalidate(ui.query, AutomationsKey), AutomationsAnswers(n))
      BY <1>2, InvalidateIn
    <3>2. PICK u : u = AutomationSucceeded(r)
      OBVIOUS
    <3>3. AutomationsShape(u, n, jobs) /\ u.modal.form \in {ui.modal.form, Unmounted}
      <4>1. CASE r.op = "execute"
        <5>1. u = [ui EXCEPT !.sent = ui.sent \ {r}, !.last = Invalidate(ui.last, r.id),
                             !.modal = NoModal, !.viewing = r.job]
          BY <3>2, <4>1 DEF AutomationSucceeded
        <5>2. NoModal \in Modals(n, m)
          BY DEF Modals
        <5>3. u \in [page : {"automations"}, query : {ui.query}, last : {Invalidate(ui.last, r.id)},
                     sent : SUBSET AutomationRequests(n, m), editor : AutomationEditors(n),
                     modal : {NoModal}, dialog : 0..n, viewing : 0..m]
          BY <1>2, <2>2, <5>1
        <5>4. QED
          BY <1>2, <3>1, <5>2, <5>3, NoModalTyped DEF AutomationsShape
      <4>2. CASE r.op # "execute"
        <5>1. PICK e : e = IF \/ r.op = "create" /\ ui.editor.id = 0
                              \/ r.op = "update" /\ ui.editor.id # 0 THEN NoEditor ELSE ui.editor
          OBVIOUS
        <5>2. u = [ui EXCEPT !.sent = ui.sent \ {r},
                             !.query = Invalidate(ui.query, AutomationsKey),
                             !.last = Invalidate(ui.last, ui.modal.id), !.editor = e]
          BY <3>2, <4>2, <5>1 DEF AutomationSucceeded
        <5>3. NoEditor \in AutomationEditors(n)
          BY <1>1 DEF NoEditor, AutomationEditors, DefaultsText
        <5>4. e \in AutomationEditors(n)
          BY <1>2, <5>1, <5>3
        <5>5. u \in [page : {"automations"}, query : {Invalidate(ui.query, AutomationsKey)},
                     last : {Invalidate(ui.last, ui.modal.id)},
                     sent : SUBSET AutomationRequests(n, m), editor : AutomationEditors(n),
                     modal : {ui.modal}, dialog : 0..n, viewing : 0..m]
          BY <1>2, <2>2, <5>2, <5>4
        <5>6. QED
          BY <1>2, <3>1, <5>5 DEF AutomationsShape
      <4>3. QED
        BY <4>1, <4>2
    <3>4. AutomationsUI(ui', n, jobs)
      BY <1>7, <2>3, <3>2, <3>3
    <3>5. QED
      BY <1>6, <1>33, <3>4 DEF AutomationAnswered
  <2>4. CASE ui' = [ui EXCEPT !.sent = ui.sent \ {r}]
    <3>1. ui' = [ui EXCEPT !.sent = ui.sent \ {r}, !.editor = ui.editor, !.dialog = ui.dialog,
                           !.viewing = ui.viewing]
      BY <1>2, <2>4
    <3>2. AutomationsUI(ui', n, jobs)
      BY <1>1, <1>2, <2>2, <3>1, ModalLeftAlone
    <3>3. QED
      BY <1>6, <1>33, <3>2 DEF AutomationAnswered
  <2>5. QED
    BY <2>1, <2>3, <2>4
<1>34. ASSUME UNCHANGED webVars PROVE AutomationsInv'
  <2>1. UNCHANGED <<ui, srv, left>>
    BY <1>34 DEF webVars
  <2>2. QED
    BY <1>1, <1>6, <2>1 DEF Free
<1>35. QED
  BY <1>10, <1>11, <1>12, <1>13, <1>14, <1>15, <1>17, <1>18, <1>19, <1>21, <1>22, <1>25, <1>26,
     <1>27, <1>28, <1>29, <1>30, <1>31, <1>32, <1>33, <1>34 DEF AutomationsNext

-----------------------------------------------------------------------------
(* The client with any of its pages open.  The page stays the same, and    *)
(* its steps are the only ones.                                            *)

WebInv ==
    \/ JobsInv \/ SchedulesInv \/ UsersInv \/ AutomationsInv \/ SessionInv
    \/ FormInv \/ EditorInv \/ CronInv \/ XmlInv \/ CardsInv

LEMMA OpenPage ==
    /\ JobsInv => ui.page = "jobs"
    /\ SchedulesInv => ui.page = "schedules"
    /\ UsersInv => ui.page = "users"
    /\ AutomationsInv => ui.page = "automations"
    /\ SessionInv => ui.page = "session"
    /\ FormInv => ui.page = "form"
    /\ EditorInv => ui.page = "editor"
    /\ CronInv => ui.page = "cron"
    /\ XmlInv => ui.page = "xml"
    /\ CardsInv => ui.page = "cards"
<1>1. JobsInv => ui.page = "jobs"
  BY DEF JobsInv, JobsUI
<1>2. SchedulesInv => ui.page = "schedules"
  BY DEF SchedulesInv, SchedulesUI
<1>3. UsersInv => ui.page = "users"
  BY DEF UsersInv, UsersUI
<1>4. AutomationsInv => ui.page = "automations"
  BY DEF AutomationsInv, AutomationsUI, AutomationsShape
<1>5. SessionInv => ui.page = "session"
  BY DEF SessionInv, SessionUI
<1>6. FormInv => ui.page = "form"
  BY DEF FormInv, FormUI
<1>7. EditorInv => ui.page = "editor"
  BY DEF EditorInv, EditorUI
<1>8. CronInv => ui.page = "cron"
  BY DEF CronInv
<1>9. XmlInv => ui.page = "xml"
  BY DEF XmlInv, XmlUI, XmlShape
<1>10. CardsInv => ui.page = "cards"
  BY DEF CardsInv, CardsUI
<1>11. QED
  BY <1>1, <1>2, <1>3, <1>4, <1>5, <1>6, <1>7, <1>8, <1>9, <1>10

LEMMA StepOfPage ==
    /\ JobsNext => ui.page = "jobs"
    /\ SchedulesNext => ui.page = "schedules"
    /\ UsersNext => ui.page = "users"
    /\ AutomationsNext => ui.page = "automations"
    /\ SessionNext => ui.page = "session"
    /\ FormNext => ui.page = "form"
    /\ EditorNext => ui.page = "editor"
    /\ CronNext => ui.page = "cron"
    /\ XmlNext => ui.page = "xml"
    /\ CardsNext => ui.page = "cards"
<1>1. JobsNext => ui.page = "jobs"
  BY DEF JobsNext, OnJobs, FetchList, DeliverList, LoseList, RetryList, ChangeStatusFilter,
         ChangeErrorClass, Anterior, Proximo, ClickCancel, ClickRetry, ServeCancel, ServeRetry,
         Answered, Refused, JobMoves, JobCreated
<1>2. SchedulesNext => ui.page = "schedules"
  BY DEF SchedulesNext, OnSchedules, InForm, FetchSchedules, DeliverSchedules, LoseSchedules,
         NewSchedule, Duplicate, Edit, ChangeAutomation, ChangeCron, ChangeEnabled, TypeParameter,
         CloseForm, SubmitForm, Toggle, ClickRemove, Confirm, Decline, ServeSchedules, Succeeded,
         FailedSilently, SwitchedElsewhere
<1>3. UsersNext => ui.page = "users"
  BY DEF UsersNext, OnUsers, AtList, FetchUsers, DeliverUsers, LoseUsers, ToggleInactive, NewUser,
         EditUser, ResetUser, OpenEditor, ChangeRole, CloseEditor, SubmitEditor, ClickDeactivate,
         ConfirmDeactivate, DeclineDeactivate, ClickReactivate, RequestElsewhere, ReadUser,
         WriteUser, CreateUser, UserSucceeded, UserFailed
<1>4. AutomationsNext => ui.page = "automations"
  BY DEF AutomationsNext, OnAutomations, AtAutomations, FetchAutomations, DeliverAutomations,
         FetchLast, DeliverLast, LoseLast, Refocus, ClickExecutar, BackToDefaults, CloseModal,
         Executar, NewAutomation, EditAutomation, OpenAutomation, TypeDefaults, FormatDefaults,
         SubmitAutomation, CloseAutomation, ClickRemover, ConfirmRemover, DeclineRemover, CloseJob,
         ServeAutomations, AutomationAnswered
<1>5. SessionNext => ui.page = "session"
  BY DEF SessionNext, OnSession, StorageEvent, Load, Logout, Visit, SubmitLogin, SubmitPassword,
         AskData, At, Serve, Receive, Expire
<1>6. FormNext => ui.page = "form"
  BY DEF FormNext, OnForm, Enter, Check, ToggleChip, AddCustom, SetDynamic, SubmitValues, Reopen
<1>7. EditorNext => ui.page = "editor"
  BY DEF EditorNext, OnEditor, AddField, RemoveField, NameField, RetypeField, RequireField,
         SetOptions, SetItemType, TogglePaste, Paste, ApplyPaste
<1>8. CronNext => ui.page = "cron"
  BY DEF CronNext, OnCron, Emit, ChooseMode, ChangeN, ChangeUnit, ChangeTime, ToggleWeekday,
         ToggleMonthDay, ToggleLastDay, TypeCron, Shift
<1>9. XmlNext => ui.page = "xml"
  BY DEF XmlNext, OnXml, OnNotas, Reload, SetFilter, ClickClearEmpresa, ClearAllFilters,
         PickEmpresa, ProximaPagina, PaginaAnterior, Save, Forget, ApplyPreset, ForgetElsewhere,
         ChangeTab, SetTab, SwitchView, PickStatus, DrillFromEmpresas, DrillFromPainel
<1>10. CardsNext => ui.page = "cards"
  BY DEF CardsNext, OnCards, PickRange, PickField, FilterBy, FetchOverview, DeliverOverview,
         LoseOverview, FetchEmpresas, DeliverEmpresas, LoseEmpresas, Arrive
<1>11. QED
  BY <1>1, <1>2, <1>3, <1>4, <1>5, <1>6, <1>7, <1>8, <1>9, <1>10

LEMMA WebStart == WebInit => WebInv
BY JobsStart, SchedulesStart, UsersStart, AutomationsStart, SessionStart, FormStart, EditorStart,
   CronStart, XmlStart, CardsStart DEF WebInit, WebInv

LEMMA WebSteps == WebInv /\ [WebNext]_webVars => WebInv'
<1> SUFFICES ASSUME WebInv, [WebNext]_webVars PROVE WebInv'
  OBVIOUS
<1>1. CASE JobsInv
  <2>1. [JobsNext]_webVars
    BY <1>1, OpenPage, StepOfPage DEF WebNext
  <2>2. QED
    BY <1>1, <2>1, JobsSteps DEF WebInv
<1>2. CASE SchedulesInv
  <2>1. [SchedulesNext]_webVars
    BY <1>2, OpenPage, StepOfPage DEF WebNext
  <2>2. QED
    BY <1>2, <2>1, SchedulesSteps DEF WebInv
<1>3. CASE UsersInv
  <2>1. [UsersNext]_webVars
    BY <1>3, OpenPage, StepOfPage DEF WebNext
  <2>2. QED
    BY <1>3, <2>1, UsersSteps DEF WebInv
<1>4. CASE AutomationsInv
  <2>1. [AutomationsNext]_webVars
    BY <1>4, OpenPage, StepOfPage DEF WebNext
  <2>2. QED
    BY <1>4, <2>1, AutomationsSteps DEF WebInv
<1>5. CASE SessionInv
  <2>1. [SessionNext]_webVars
    BY <1>5, OpenPage, StepOfPage DEF WebNext
  <2>2. QED
    BY <1>5, <2>1, SessionSteps DEF WebInv
<1>6. CASE FormInv
  <2>1. [FormNext]_webVars
    BY <1>6, OpenPage, StepOfPage DEF WebNext
  <2>2. QED
    BY <1>6, <2>1, FormSteps DEF WebInv
<1>7. CASE EditorInv
  <2>1. [EditorNext]_webVars
    BY <1>7, OpenPage, StepOfPage DEF WebNext
  <2>2. QED
    BY <1>7, <2>1, EditorSteps DEF WebInv
<1>8. CASE CronInv
  <2>1. [CronNext]_webVars
    BY <1>8, OpenPage, StepOfPage DEF WebNext
  <2>2. QED
    BY <1>8, <2>1, CronSteps DEF WebInv
<1>9. CASE XmlInv
  <2>1. [XmlNext]_webVars
    BY <1>9, OpenPage, StepOfPage DEF WebNext
  <2>2. QED
    BY <1>9, <2>1, XmlSteps DEF WebInv
<1>10. CASE CardsInv
  <2>1. [CardsNext]_webVars
    BY <1>10, OpenPage, StepOfPage DEF WebNext
  <2>2. QED
    BY <1>10, <2>1, CardsSteps DEF WebInv
<1>11. QED
  BY <1>1, <1>2, <1>3, <1>4, <1>5, <1>6, <1>7, <1>8, <1>9, <1>10 DEF WebInv

LEMMA WebKept == WebSpec => []WebInv
BY WebStart, WebSteps, PTL DEF WebSpec

-----------------------------------------------------------------------------
(* The shape of every page's state follows from its invariant. *)

LEMMA QueryShape == ASSUME NEW R, NEW q, QueryIn(q, R) PROVE QueryOK(q)
BY DEF QueryIn, QueryOK

LEMMA PageShape == WebInv => PageOK
<1> SUFFICES ASSUME WebInv PROVE PageOK
  OBVIOUS
<1>1. CASE JobsInv
  <2>1. ui.status \in Filters /\ ui.offset \in 0..MaxJobs /\ QueryOK(ui.query)
    BY <1>1, QueryShape DEF JobsInv, JobsUI
  <2>2. QED
    BY <1>1, <2>1, OpenPage DEF PageOK, OnJobs, OnSchedules, OnUsers, OnAutomations, OnSession,
                                OnForm, OnEditor, OnCron, OnXml, OnCards
<1>2. CASE SchedulesInv
  <2>1. /\ ui.form.automationId \in {0} \cup AutomationIds
        /\ {ui.dialog, ui.form.id} \subseteq 0..Len(srv.rows) /\ QueryOK(ui.query)
    BY <1>2, QueryShape DEF SchedulesInv, SchedulesUI, Forms
  <2>2. QED
    BY <1>2, <2>1, OpenPage DEF PageOK, OnJobs, OnSchedules, OnUsers, OnAutomations, OnSession,
                                OnForm, OnEditor, OnCron, OnXml, OnCards
<1>3. CASE UsersInv
  <2>1. /\ ui.editor \in Editors(Len(srv.rows)) /\ srv.rows \in Seq(User)
        /\ ui.dialog \in 0..Len(srv.rows) /\ QueryOK(ui.query)
    BY <1>3, QueryShape DEF UsersInv, UsersUI
  <2>2. ui.editor.id \in 0..Len(srv.rows)
    BY <2>1 DEF Editors, ClosedEditor
  <2>3. \A r \in ToSet(srv.rows) : r.role \in Roles
    <3>1. \A i \in DOMAIN srv.rows : srv.rows[i] \in User
      BY <2>1
    <3>2. QED
      BY <3>1 DEF ToSet, User
  <2>4. QED
    BY <1>3, <2>1, <2>2, <2>3, OpenPage DEF PageOK, OnJobs, OnSchedules, OnUsers, OnAutomations,
                                OnSession, OnForm, OnEditor, OnCron, OnXml, OnCards
<1>4. CASE AutomationsInv
  <2> DEFINE n == Len(srv.rows)
             m == Len(srv.jobs)
  <2>1. /\ ui.editor \in AutomationEditors(n) /\ ui.dialog \in 0..n /\ ui.viewing \in 0..m
        /\ ui.modal \in Modals(n, m) /\ n \in Nat /\ m \in Nat
        /\ QueryOK(ui.query) /\ QueryOK(ui.last)
    BY <1>4, QueryShape DEF AutomationsInv, AutomationsUI, AutomationsShape
  <2>2. ui.editor.id \in 0..n /\ ui.modal.id \in 0..n
    BY <2>1, ModalTyped DEF AutomationEditors
  <2>3. QED
    BY <1>4, <2>1, <2>2, OpenPage DEF PageOK, OnJobs, OnSchedules, OnUsers, OnAutomations,
                                OnSession, OnForm, OnEditor, OnCron, OnXml, OnCards
<1>5. CASE SessionInv
  <2>1. ui.stored \in 0..srv.issued /\ \A t \in Tabs : ui.tabs[t].shown \in 0..srv.issued
    BY <1>5 DEF SessionInv, SessionUI, TabStates
  <2>2. QED
    BY <1>5, <2>1, OpenPage DEF PageOK, OnJobs, OnSchedules, OnUsers, OnAutomations, OnSession,
                                OnForm, OnEditor, OnCron, OnXml, OnCards
<1>6. CASE FormInv
  <2>1. ui.field \in Fields /\ (ui.dynamic => CanToggleDynamic(ui.field, ui.allowDynamic))
    BY <1>6 DEF FormInv, FormUI
  <2>2. QED
    BY <1>6, <2>1, OpenPage DEF PageOK, OnJobs, OnSchedules, OnUsers, OnAutomations, OnSession,
                                OnForm, OnEditor, OnCron, OnXml, OnCards
<1>7. CASE EditorInv
  <2>1. ui.fields \in Seq(SchemaFields)
    BY <1>7 DEF EditorInv, EditorUI
  <2>2. \A f \in ToSet(ui.fields) : f.type \in Types /\ f.itemType \in {"number", "text"}
    <3>1. \A i \in DOMAIN ui.fields : ui.fields[i] \in SchemaFields
      BY <2>1
    <3>2. QED
      BY <3>1 DEF ToSet, SchemaFields, EditorFields
  <2>3. QED
    BY <1>7, <2>2, OpenPage DEF PageOK, OnJobs, OnSchedules, OnUsers, OnAutomations, OnSession,
                                OnForm, OnEditor, OnCron, OnXml, OnCards
<1>8. CASE CronInv
  <2>1. PICK b : b = Builder
    OBVIOUS
  <2>2. IsModel(b)
    BY <1>8, <2>1, ReadsModel DEF CronInv, Builder
  <2>3. Builder.days \subseteq IF Builder.mode = "weekly" THEN 0..6 ELSE 1..31
    BY <2>1, <2>2, ModelDays
  <2>4. QED
    BY <1>8, <2>3, OpenPage DEF PageOK, OnJobs, OnSchedules, OnUsers, OnAutomations, OnSession,
                                OnForm, OnEditor, OnCron, OnXml, OnCards
<1>9. CASE XmlInv
  <2>1. DOMAIN ui.filters = DOMAIN Defaults /\ ui.offset \in 0..2
    <3>1. ui.filters \in XmlFilters /\ ui.offset \in 0..2
      BY <1>9 DEF XmlInv, XmlUI, XmlShape
    <3>2. QED
      BY <3>1, FilterKeys DEF XmlFilters
  <2>2. QED
    BY <1>9, <2>1, OpenPage DEF PageOK, OnJobs, OnSchedules, OnUsers, OnAutomations, OnSession,
                                OnForm, OnEditor, OnCron, OnXml, OnCards
<1>10. CASE CardsInv
  <2>1. ui.company \in Companies /\ QueryOK(ui.overview) /\ QueryOK(ui.empresas)
    BY <1>10, QueryShape DEF CardsInv, CardsUI
  <2>2. QED
    BY <1>10, <2>1, OpenPage DEF PageOK, OnJobs, OnSchedules, OnUsers, OnAutomations, OnSession,
                                OnForm, OnEditor, OnCron, OnXml, OnCards
<1>11. QED
  BY <1>1, <1>2, <1>3, <1>4, <1>5, <1>6, <1>7, <1>8, <1>9, <1>10 DEF WebInv

LEMMA WebShape == WebInv => WebTypeOK
<1> SUFFICES ASSUME WebInv PROVE WebTypeOK
  OBVIOUS
<1>1. left \in Purses
  BY DEF WebInv, JobsInv, SchedulesInv, UsersInv, AutomationsInv, SessionInv, FormInv, EditorInv,
         CronInv, XmlInv, CardsInv
<1>2. QED
  BY <1>1, PageShape DEF WebTypeOK, Purses

-----------------------------------------------------------------------------
(* The theorems, about any page with any bounds. *)

(* Every page's state has its shape: what a page points at exists, a query *)
(* has one request for a key, and repeats it once.                         *)
THEOREM WebTypeCorrect == WebSpec => []WebTypeOK
BY WebKept, WebShape, PTL

(* Rows shown as those of the present page were asked for with the present *)
(* filter and position, whichever requests were lost, repeated and         *)
(* overtaken.                                                              *)
THEOREM RowsAsAsked == WebSpec => []RowsMatchRequest
<1>1. WebInv => RowsMatchRequest
  BY RowsMatch, OpenPage DEF WebInv, RowsMatchRequest, OnJobs
<1>2. QED
  BY <1>1, WebKept, PTL

(* A page past the last job can be left. *)
THEOREM PagerNeverStuck == WebSpec => []PagerLeadsBack
<1>1. WebInv => PagerLeadsBack
  BY PagerWorks, OpenPage DEF WebInv, PagerLeadsBack, OnJobs
<1>2. QED
  BY <1>1, WebKept, PTL

(* However often the automation is changed in the form, and however old    *)
(* the row an edit, a copy or the switch starts from, a schedule is stored *)
(* with parameters of its own automation.                                  *)
THEOREM ParametersFit == WebSpec => []ParametersFitSchema
<1>1. SchedulesInv => ParametersFitSchema
  BY DEF SchedulesInv, ParametersFitSchema, Rows, StoredRows
<1>2. WebInv => ParametersFitSchema
  BY <1>1, OpenPage DEF WebInv, ParametersFitSchema, OnSchedules
<1>3. QED
  BY <1>2, WebKept, PTL

(* Updates of a profile that run beside deactivations, reactivations and   *)
(* new passwords undo none of them, however many requests there are.       *)
THEOREM AccountsKept == WebSpec => []AccountAsAsked
<1>1. WebInv => AccountAsAsked
  BY OpenPage DEF WebInv, UsersInv, AccountAsAsked, OnUsers
<1>2. QED
  BY <1>1, WebKept, PTL

(* The form of the modal never has values of another automation's          *)
(* execution, nor of any execution once the user has gone back to the      *)
(* default, however many modals were opened and whatever arrived late.     *)
THEOREM FormKept == WebSpec => []FormSuitsModal
<1>1. AutomationsInv => FormSuitsModal
  <2>1. ASSUME NEW u, Source(u) = "last" PROVE ~u.modal.force
    BY <2>1 DEF Source
  <2>2. QED
    BY <2>1 DEF AutomationsInv, AutomationsUI, Suits, RunsOf, FormSuitsModal
<1>2. WebInv => FormSuitsModal
  BY <1>1, OpenPage DEF WebInv, FormSuitsModal, OnAutomations
<1>3. QED
  BY <1>2, WebKept, PTL

(* What the form sends has the type of its field, whatever was typed,      *)
(* picked or opened before.                                                *)
THEOREM TypesKept == WebSpec => []SentWellTyped
<1>1. FormInv => SentWellTyped
  BY DEF FormInv, FormUI, SentWellTyped
<1>2. WebInv => SentWellTyped
  BY <1>1, OpenPage DEF WebInv, SentWellTyped, OnForm
<1>3. QED
  BY <1>2, WebKept, PTL

(* Opening what the form has sent and sending it again changes nothing,    *)
(* whatever the schema, the placeholders and what was typed.               *)
THEOREM ReopeningKeeps == WebSpec => []ReopenKeeps
<1>1. FormInv => ReopenKeeps
  BY DEF FormInv, FormUI, Kept, SentAgain, ReopenKeeps, Resent
<1>2. WebInv => ReopenKeeps
  BY <1>1, OpenPage DEF WebInv, ReopenKeeps, OnForm
<1>3. QED
  BY <1>2, WebKept, PTL

(* A field inferred from an example gives the example back through the     *)
(* form, for schemas of any length and after any number of edits.          *)
THEOREM ExampleKept == WebSpec => []SampleComesBack
<1>1. EditorInv => SampleComesBack
  <2>1. SUFFICES ASSUME EditorInv, NEW i \in DOMAIN ui.fields, NEW f, f = ui.fields[i],
                        f.from # Unknown, Carried(f.from)
                 PROVE  Sends(f, InitialDisplay(f, f.from)) = InBrDates(f.from)
    BY DEF SampleComesBack
  <2>2. f \in EditorFields /\ FromExample(f)
    BY <2>1 DEF EditorInv, EditorUI, SchemaFields
  <2>3. PICK field : field = [type |-> f.type, itemType |-> f.itemType, required |-> f.required]
    OBVIOUS
  <2>4. /\ field \in Fields /\ f.from \in Sample
        /\ field.type = f.type /\ field.itemType = f.itemType /\ field.required = f.required
    BY <2>1, <2>2, <2>3 DEF EditorFields, Fields
  <2>5. SentAgain(field, f.from) = InBrDates(f.from)
    BY <2>1, <2>2, <2>4, SampleBack DEF FromExample
  <2>6. QED
    BY <2>4, <2>5, AsField
<1>2. WebInv => SampleComesBack
  BY <1>1, OpenPage DEF WebInv, SampleComesBack, OnEditor
<1>3. QED
  BY <1>2, WebKept, PTL

(* Each control of the builder writes an expression that is accepted and   *)
(* read as the model the control meant, whatever was typed or built before.*)
THEOREM BuilderKept == WebSpec => []BuilderReadsBack
<1>1. WebInv => BuilderReadsBack
  BY OpenPage DEF WebInv, CronInv, BuilderReadsBack, OnCron
<1>2. QED
  BY <1>1, WebKept, PTL

(* Of every expression that can be typed or built and that the server      *)
(* takes, the calendar marks the days the scheduler fires on, whichever    *)
(* month it shows; "SameReading" says what is left out.                    *)
THEOREM CalendarKept == WebSpec => []CalendarAgrees
<1>1. ASSUME CronInv, CronAccepted(ui.expr), SameReading(ui.expr), NEW date \in Dates(ui.cursor)
      PROVE  CronFiresOnDate(ui.expr, date) = SchedulerFires(ui.expr, date)
  <2>1. WellFormed(ui.expr) /\ Readable(ui.expr) /\ ui.cursor \in 0..MaxMonths
    BY <1>1 DEF CronInv
  <2>2. CronFiresOnDate(ui.expr, date) <=> SchedulerFires(ui.expr, date)
    BY <1>1, <2>1, DateShown, SameDays
  <2>3. QED
    BY <2>2 DEF CronFiresOnDate, SchedulerFires
<1>2. WebInv => CalendarAgrees
  BY <1>1, OpenPage DEF WebInv, CalendarAgrees, OnCron
<1>3. QED
  BY <1>2, WebKept, PTL

(* Whatever the schedule, a firing asks for no day that was there for an   *)
(* earlier one to ask for, however many months are looked at.              *)
THEOREM DaysTakenOnce == WebSpec => []NoDayTwice
<1>1. NoDayTwice
  BY NoDayAgain, Zenon DEF NoDayTwice
<1>2. QED
  BY <1>1, PTL

(* The URL of the page opens on the same view and the same notas: of their *)
(* filters it leaves out only what has its default and, without a date,    *)
(* the date's field.                                                       *)
THEOREM LinksKept == WebSpec => []LinkKeepsNotas
<1>1. WebInv => LinkKeepsNotas
  BY SharedLink, OpenPage DEF WebInv, LinkKeepsNotas, OnXml
<1>2. QED
  BY <1>1, WebKept, PTL

(* The branch filtered by is one of the company filtered by, on every way  *)
(* to filter: a link, a saved query, a row of the companies or the panel.  *)
THEOREM FilialKept == WebSpec => []FilialOfEmpresa
<1>1. WebInv => FilialOfEmpresa
  BY BranchOfCompany, OpenPage DEF WebInv, FilialOfEmpresa, OnXml
<1>2. QED
  BY <1>1, WebKept, PTL

(* A saved query asks for what it was saved with, also one of a version    *)
(* that knew fewer filters.                                                *)
THEOREM PresetsKept == WebSpec => PresetReproduces
<1>1. WebInv => [OnXml => \A p \in ui.items :
                   ApplyPreset(p) => NotasRequest(ui'.filters) = p.shown /\ ui'.offset = 0]_webVars
  BY PresetStep, OpenPage DEF WebInv, OnXml
<1>2. QED
  BY <1>1, WebKept, PTL DEF PresetReproduces

(* Whatever changes the request goes back to the first page. *)
THEOREM TopKept == WebSpec => FilterStartsAtTop
<1>1. WebInv /\ [WebNext]_webVars =>
        [OnXml /\ NotasRequest(ui'.filters) # NotasRequest(ui.filters) => ui'.offset = 0]_webVars
  <2>1. SUFFICES ASSUME WebInv, [WebNext]_webVars, OnXml,
                        NotasRequest(ui'.filters) # NotasRequest(ui.filters)
                 PROVE  ui'.offset = 0
    OBVIOUS
  <2>2. XmlInv
    BY <2>1, OpenPage DEF WebInv, OnXml
  <2>3. [XmlNext]_webVars
    BY <2>1, <2>2, OpenPage, StepOfPage DEF WebNext
  <2>4. QED
    BY <2>1, <2>2, <2>3, XmlSteps DEF AtTop
<1>2. QED
  BY <1>1, WebKept, PTL DEF FilterStartsAtTop, WebSpec

(* The cards never mix periods or companies: whatever answers are kept,    *)
(* come late or fail, their numbers are those of the period picked, of the *)
(* company filtered by or of all.                                          *)
THEOREM CardsKept == WebSpec => []CardsOfPeriod
<1>1. WebInv => CardsOfPeriod
  BY CardsOfMoment, OpenPage DEF WebInv, CardsOfPeriod, OnCards
<1>2. QED
  BY <1>1, WebKept, PTL

=============================================================================
