----------------------------- MODULE Pages_proofs -----------------------------
(***************************************************************************)
(* Inductive invariants of the pages of users, schedules and jobs.  What   *)
(* they share is that a cached or late answer, however old, is one that    *)
(* its key's request could have had.                                       *)
(***************************************************************************)
EXTENDS WebApp, FiniteSetTheorems, SequenceTheorems, TLAPS

(* A query whose answers for a key are in the set R has for it. *)
QueryIn(q, R) ==
    /\ q \in [cache : {q.cache}, fetching : {q.fetching}, due : {q.due}, failed : {q.failed}]
    /\ q.cache = [k \in DOMAIN q.cache |-> q.cache[k]]
    /\ \A k \in DOMAIN q.cache : k \in DOMAIN R /\ q.cache[k] \in R[k]
    /\ \A f \in q.fetching :
         /\ f \in [key : {f.key}, answer : {f.answer}, tries : {1, 2}]
         /\ f.key \in DOMAIN R /\ f.answer \in R[f.key]
    /\ \A f, g \in q.fetching : f.key = g.key => f = g
    /\ \A k \in q.due \cup q.failed : k \in DOMAIN R

LEMMA NewQueryIn == ASSUME NEW R PROVE QueryIn(NewQuery, R)
BY DEF QueryIn, NewQuery, NoData

LEMMA StartFetchIn ==
    ASSUME NEW R, NEW q, QueryIn(q, R), NEW key \in DOMAIN R, ~Fetching(q, key),
           NEW answer \in R[key]
    PROVE  QueryIn(StartFetch(q, key, answer), R)
<1> DEFINE f == [key |-> key, answer |-> answer, tries |-> 1]
           p == StartFetch(q, key, answer)
<1>1. p \in [cache : {q.cache}, fetching : {q.fetching \cup {f}}, due : {q.due \ {key}},
             failed : {q.failed \ {key}}]
  BY DEF QueryIn, StartFetch
<1>2. f.key = key /\ f.answer = answer /\ f \in [key : {key}, answer : {answer}, tries : {1, 2}]
  OBVIOUS
<1>3. QED
  BY <1>1, <1>2 DEF QueryIn, Fetching

LEMMA DeliverIn ==
    ASSUME NEW R, NEW q, QueryIn(q, R), NEW f \in q.fetching
    PROVE  QueryIn(Deliver(q, f), R)
<1> DEFINE cache == [k \in DOMAIN q.cache \cup {f.key} |->
                        IF k = f.key THEN f.answer ELSE q.cache[k]]
           p == Deliver(q, f)
<1>1. p \in [cache : {cache}, fetching : {q.fetching \ {f}}, due : {q.due \ {f.key}},
             failed : {q.failed}]
  BY DEF QueryIn, Deliver
<1>2. QED
  BY <1>1 DEF QueryIn

LEMMA FailIn ==
    ASSUME NEW R, NEW q, QueryIn(q, R), NEW f \in q.fetching, NEW again \in R[f.key]
    PROVE  QueryIn(Fail(q, f, again), R)
<1> DEFINE g == [f EXCEPT !.answer = again, !.tries = 2]
           p == Fail(q, f, again)
<1>1. CASE f.tries = 1
  <2>1. g \in [key : {f.key}, answer : {again}, tries : {1, 2}]
    BY DEF QueryIn
  <2>2. /\ g.key = f.key /\ g.answer = again
        /\ g \in [key : {g.key}, answer : {g.answer}, tries : {1, 2}]
    BY <2>1
  <2>3. p \in [cache : {q.cache}, fetching : {(q.fetching \ {f}) \cup {g}}, due : {q.due},
               failed : {q.failed}]
    BY <1>1 DEF QueryIn, Fail
  <2>4. QED
    BY <2>2, <2>3 DEF QueryIn
<1>2. CASE f.tries # 1
  <2>1. p \in [cache : {q.cache}, fetching : {q.fetching \ {f}}, due : {q.due},
               failed : {q.failed \cup {f.key}}]
    BY <1>2 DEF QueryIn, Fail
  <2>2. QED
    BY <2>1 DEF QueryIn
<1>3. QED
  BY <1>1, <1>2

LEMMA InvalidateIn ==
    ASSUME NEW R, NEW q, QueryIn(q, R), NEW key
    PROVE  QueryIn(Invalidate(q, key), R)
<1> DEFINE p == Invalidate(q, key)
<1>1. p \in [cache : {q.cache}, fetching : {{f \in q.fetching : f.key = key => ~HasData(q, key)}},
             due : {q.due \cup DOMAIN q.cache \cup q.failed}, failed : {q.failed}]
  BY DEF QueryIn, Invalidate
<1>2. QED
  BY <1>1 DEF QueryIn

LEMMA MoreAnswers ==
    ASSUME NEW R, NEW S, NEW q, QueryIn(q, R),
           \A k \in DOMAIN R : k \in DOMAIN S /\ \A a \in R[k] : a \in S[k]
    PROVE  QueryIn(q, S)
BY DEF QueryIn

-----------------------------------------------------------------------------
(* What is left of the bounds. *)

Purses == [acts : Nat, changes : 0..MaxChanges, losses : 0..MaxLosses]

LEMMA Paid ==
    ASSUME left \in Purses, Act \/ Change \/ Loss \/ Free
    PROVE  left' \in Purses
<1>1. MaxChanges \in Nat /\ MaxLosses \in Nat
  BY PageBounds
<1>2. CASE Act
  <2>1. left.acts - 1 \in Nat
    BY <1>2 DEF Act, Purses
  <2>2. QED
    BY <1>2, <2>1 DEF Act, Purses
<1>3. CASE Change
  <2>1. left.changes - 1 \in 0..MaxChanges
    BY <1>1, <1>3 DEF Change, Purses
  <2>2. QED
    BY <1>3, <2>1 DEF Change, Purses
<1>4. CASE Loss
  <2>1. left.losses - 1 \in 0..MaxLosses
    BY <1>1, <1>4 DEF Loss, Purses
  <2>2. QED
    BY <1>4, <2>1 DEF Loss, Purses
<1>5. QED
  BY <1>2, <1>3, <1>4 DEF Free

-----------------------------------------------------------------------------
(* The page of users. *)

User == [role : Roles, active : BOOLEAN, password : Nat]

Editors(n) == {ClosedEditor} \cup [kind : {"create"}, id : {0}, role : Roles]
                             \cup [kind : {"update", "reset"}, id : 1..n, role : Roles]

UserRequests(n) ==
    [by : {1, 2}, op : {"create"}, id : {0}, role : Roles, row : {NoUser},
     state : {"sent", "ok", "error"}, n : Nat]
    \cup [by : {1, 2}, op : {"update"}, id : 1..n, role : Roles, row : {NoUser} \cup User,
          state : {"sent", "read", "ok", "error"}, n : Nat]
    \cup [by : {1, 2}, op : {"deactivate", "reactivate", "reset"}, id : 1..n,
          role : Roles \cup {"none"}, row : {NoUser} \cup User,
          state : {"sent", "read", "ok", "error"}, n : Nat]

UsersAnswers(n) ==
    [inactive \in BOOLEAN |-> SUBSET [id : 1..n, role : Roles, active : BOOLEAN]]

UsersUI(u, n) ==
    /\ u \in [page : {"users"}, includeInactive : BOOLEAN, query : {u.query},
              sent : SUBSET UserRequests(n), editor : Editors(n), dialog : 0..n]
    /\ QueryIn(u.query, UsersAnswers(n))

UsersInv ==
    /\ left \in Purses
    /\ srv \in [rows : Seq(User), asked : Seq(User)]
    /\ Len(srv.asked) = Len(srv.rows)
    /\ UsersUI(ui, Len(srv.rows))
    /\ AccountAsAsked

LEMMA UsersStart == UsersInit => UsersInv
<1> SUFFICES ASSUME UsersInit PROVE UsersInv
  OBVIOUS
<1>1. left \in Purses
  BY PageBounds, UsersBounds DEF UsersInit, Bounds, Purses
<1>2. PICK row \in User : row = [role |-> "admin", active |-> TRUE, password |-> 0]
  BY DEF User, Roles
<1>3. /\ srv.asked = srv.rows /\ srv \in [rows : Seq(User), asked : Seq(User)]
      /\ Len(srv.rows) = 2
  <2>1. srv = [rows |-> <<row, row>>, asked |-> <<row, row>>]
    BY <1>2 DEF UsersInit
  <2>2. <<row, row>> \in Seq(User) /\ Len(<<row, row>>) = 2
    OBVIOUS
  <2>3. QED
    BY <2>1, <2>2
<1>4. ui \in [page : {"users"}, includeInactive : BOOLEAN, query : {NewQuery},
              sent : SUBSET UserRequests(2), editor : Editors(2), dialog : 0..2]
  BY DEF UsersInit, Editors
<1>5. QueryIn(ui.query, UsersAnswers(2))
  BY <1>4, NewQueryIn
<1>6. UsersUI(ui, 2)
  BY <1>4, <1>5 DEF UsersUI
<1>7. QED
  BY <1>1, <1>3, <1>6 DEF UsersInv, AccountAsAsked

LEMMA MoreUsers ==
    ASSUME NEW n \in Nat, NEW u, UsersUI(u, n)
    PROVE  UsersUI(u, n + 1)
<1>1. \A d : /\ d \in 0..n => d \in 0..(n + 1)
             /\ d \in 1..n => d \in 1..(n + 1)
  OBVIOUS
<1>2. Editors(n) \subseteq Editors(n + 1) /\ UserRequests(n) \subseteq UserRequests(n + 1)
  BY <1>1 DEF Editors, UserRequests
<1>3. [id : 1..n, role : Roles, active : BOOLEAN]
        \subseteq [id : 1..(n + 1), role : Roles, active : BOOLEAN]
  BY <1>1
<1>4. QueryIn(u.query, UsersAnswers(n + 1))
  BY <1>3, MoreAnswers DEF UsersUI, UsersAnswers
<1>5. QED
  BY <1>1, <1>2, <1>4 DEF UsersUI

LEMMA UsersSteps == UsersInv /\ [UsersNext]_webVars => UsersInv'
<1> SUFFICES ASSUME UsersInv, [UsersNext]_webVars PROVE UsersInv'
  OBVIOUS
<1> DEFINE n == Len(srv.rows)
           row(u) == srv.rows[u]
<1>1. /\ n \in Nat /\ ui.page = "users"
      /\ \A u \in 1..n : srv.rows[u] \in User /\ srv.asked[u] \in User
      /\ ui.sent \in SUBSET UserRequests(n) /\ ui.editor \in Editors(n) /\ ui.dialog \in 0..n
      /\ QueryIn(ui.query, UsersAnswers(n))
  BY DEF UsersInv, UsersUI
(* What the list answers, and what it shows. *)
<1>2. \A b \in BOOLEAN : GetAll(b) \in UsersAnswers(n)[b]
  BY <1>1 DEF GetAll, UsersAnswers, User
<1>3. UsersKey \in DOMAIN UsersAnswers(n) /\ UsersKey \in BOOLEAN
  BY DEF UsersKey, UsersInv, UsersUI, UsersAnswers
<1>4. \A u \in Users : u \in [id : 1..n, role : Roles, active : BOOLEAN]
  BY <1>1, <1>3 DEF Users, HasData, QueryIn, UsersAnswers
(* Steps that leave the server alone. *)
<1>5. ASSUME UNCHANGED srv, Act \/ Change \/ Loss \/ Free, UsersUI(ui', n) PROVE UsersInv'
  <2>1. left' \in Purses
    BY <1>5, Paid DEF UsersInv
  <2>2. AccountAsAsked'
    BY <1>1, <1>5 DEF UsersInv, AccountAsAsked, OnUsers
  <2>3. QED
    BY <1>5, <2>1, <2>2 DEF UsersInv
<1>6. ASSUME FetchUsers PROVE UsersInv'
  <2>1. ~Fetching(ui.query, UsersKey)
    BY <1>6 DEF FetchUsers, NeedsFetch
  <2>2. QueryIn(StartFetch(ui.query, UsersKey, GetAll(UsersKey)), UsersAnswers(n))
    BY <1>1, <1>2, <1>3, <2>1, StartFetchIn
  <2>3. UsersUI(ui', n)
    BY <1>6, <2>2 DEF FetchUsers, UsersInv, UsersUI
  <2>4. QED
    BY <1>5, <1>6, <2>3 DEF FetchUsers
<1>7. ASSUME DeliverUsers PROVE UsersInv'
  <2>1. PICK f \in ui.query.fetching : ui' = [ui EXCEPT !.query = Deliver(ui.query, f)]
    BY <1>7 DEF DeliverUsers
  <2>2. QueryIn(Deliver(ui.query, f), UsersAnswers(n))
    BY <1>1, DeliverIn
  <2>3. UsersUI(ui', n)
    BY <2>1, <2>2 DEF UsersInv, UsersUI
  <2>4. QED
    BY <1>5, <1>7, <2>3 DEF DeliverUsers
<1>8. ASSUME LoseUsers PROVE UsersInv'
  <2>1. PICK f \in ui.query.fetching :
          ui' = [ui EXCEPT !.query = Fail(ui.query, f, GetAll(f.key))]
    BY <1>8 DEF LoseUsers
  <2>2. f.key \in BOOLEAN
    BY <1>1 DEF QueryIn, UsersAnswers
  <2>3. QueryIn(Fail(ui.query, f, GetAll(f.key)), UsersAnswers(n))
    BY <1>1, <1>2, <2>2, FailIn
  <2>4. UsersUI(ui', n)
    BY <2>1, <2>3 DEF UsersInv, UsersUI
  <2>5. QED
    BY <1>5, <1>8, <2>4 DEF LoseUsers
<1>9. ASSUME ToggleInactive PROVE UsersInv'
  <2>1. UsersUI(ui', n)
    BY <1>9 DEF ToggleInactive, UsersInv, UsersUI
  <2>2. QED
    BY <1>5, <1>9, <2>1 DEF ToggleInactive
(* Editors and dialogs. *)
<1>10. ASSUME NEW e \in Editors(n), ui' = [ui EXCEPT !.editor = e] PROVE UsersUI(ui', n)
  BY <1>10 DEF UsersInv, UsersUI
<1>11. ASSUME NewUser \/ EditUser \/ ResetUser PROVE UsersInv'
  <2>1. CASE NewUser
    <3>1. ui' = [ui EXCEPT !.editor = [kind |-> "create", id |-> 0, role |-> "viewer"]]
      BY <2>1 DEF NewUser, OpenEditor
    <3>2. [kind |-> "create", id |-> 0, role |-> "viewer"] \in Editors(n)
      BY DEF Editors, Roles
    <3>3. QED
      BY <1>5, <1>10, <2>1, <3>1, <3>2 DEF NewUser, OpenEditor
  <2>2. CASE EditUser \/ ResetUser
    <3>1. PICK u \in Users, kind \in {"update", "reset"} : OpenEditor(kind, u.id, u.role)
      BY <2>2 DEF EditUser, ResetUser
    <3>2. u.id \in 1..n /\ u.role \in Roles
      BY <1>4
    <3>3. [kind |-> kind, id |-> u.id, role |-> u.role] \in Editors(n)
      BY <3>2 DEF Editors
    <3>4. QED
      BY <1>5, <1>10, <3>1, <3>3 DEF OpenEditor
  <2>3. QED
    BY <1>11, <2>1, <2>2
<1>12. ASSUME ChangeRole PROVE UsersInv'
  <2>1. PICK r \in Roles : ui' = [ui EXCEPT !.editor.role = r]
    BY <1>12 DEF ChangeRole
  <2>2. ui' = [ui EXCEPT !.editor = [ui.editor EXCEPT !.role = r]]
    BY <2>1
  <2>3. [ui.editor EXCEPT !.role = r] \in Editors(n)
    BY <1>1, <1>12 DEF Editors, ChangeRole, ClosedEditor
  <2>4. QED
    BY <1>5, <1>10, <1>12, <2>2, <2>3 DEF ChangeRole
<1>13. ASSUME CloseEditor PROVE UsersInv'
  <2>1. ClosedEditor \in Editors(n)
    BY DEF Editors
  <2>2. QED
    BY <1>5, <1>10, <1>13, <2>1 DEF CloseEditor
<1>14. ASSUME ClickDeactivate \/ DeclineDeactivate PROVE UsersInv'
  <2>1. PICK d \in 0..n : ui' = [ui EXCEPT !.dialog = d]
    BY <1>1, <1>4, <1>14 DEF ClickDeactivate, DeclineDeactivate
  <2>2. UsersUI(ui', n)
    BY <2>1 DEF UsersInv, UsersUI
  <2>3. QED
    BY <1>5, <1>14, <2>2 DEF ClickDeactivate, DeclineDeactivate
(* Requests. *)
<1>15. ASSUME NEW S \in SUBSET UserRequests(n), NEW d \in 0..n,
              ui' = [ui EXCEPT !.dialog = d, !.sent = S]
       PROVE  UsersUI(ui', n)
  BY <1>15 DEF UsersInv, UsersUI
<1>16. ASSUME NEW op, NEW id, NEW role, NewRequest(1, op, id, role) \in UserRequests(n),
              Send(op, id, role), Act \/ Free
       PROVE  UsersInv'
  <2>1. /\ ui' = [ui EXCEPT !.dialog = 0, !.sent = ui.sent \cup {NewRequest(1, op, id, role)}]
        /\ UNCHANGED srv
    BY <1>16 DEF Send
  <2>2. ui.sent \cup {NewRequest(1, op, id, role)} \in SUBSET UserRequests(n) /\ 0 \in 0..n
    BY <1>1, <1>16
  <2>3. UsersUI(ui', n)
    BY <1>15, <2>1, <2>2
  <2>4. QED
    BY <1>5, <1>16, <2>1, <2>3
<1>17. ASSUME NEW by \in {1, 2}, NEW op, NEW id, NEW role,
              \/ op = "create" /\ id = 0 /\ role \in Roles
              \/ op = "update" /\ id \in 1..n /\ role \in Roles
              \/ op \in {"deactivate", "reactivate", "reset"} /\ id \in 1..n
                 /\ role \in Roles \cup {"none"}
       PROVE  NewRequest(by, op, id, role) \in UserRequests(n)
  <2>1. PICK k \in Nat : k = IF by = 1 THEN left.acts ELSE left.changes
    BY DEF UsersInv, Purses
  <2>2. NewRequest(by, op, id, role) =
          [by |-> by, op |-> op, id |-> id, role |-> role, row |-> NoUser, state |-> "sent",
           n |-> k]
    BY <2>1 DEF NewRequest
  <2>3. QED
    BY <1>17, <2>2 DEF UserRequests
<1>18. ASSUME SubmitEditor PROVE UsersInv'
  <2>1. NewRequest(1, ui.editor.kind, ui.editor.id, ui.editor.role) \in UserRequests(n)
    BY <1>1, <1>17, <1>18 DEF SubmitEditor, Editors
  <2>2. QED
    BY <1>16, <1>18, <2>1 DEF SubmitEditor
<1>19. ASSUME ConfirmDeactivate PROVE UsersInv'
  <2>1. NewRequest(1, "deactivate", ui.dialog, "none") \in UserRequests(n)
    BY <1>1, <1>17, <1>19 DEF ConfirmDeactivate
  <2>2. QED
    BY <1>16, <1>19, <2>1 DEF ConfirmDeactivate
<1>20. ASSUME ClickReactivate PROVE UsersInv'
  <2>1. PICK u \in Users : Send("reactivate", u.id, "none")
    BY <1>20 DEF ClickReactivate
  <2>2. NewRequest(1, "reactivate", u.id, "none") \in UserRequests(n)
    BY <1>4, <1>17
  <2>3. QED
    BY <1>16, <1>20, <2>1, <2>2 DEF ClickReactivate
<1>21. ASSUME NEW S \in SUBSET UserRequests(n), ui' = [ui EXCEPT !.sent = S]
       PROVE  UsersUI(ui', n)
  BY <1>21 DEF UsersInv, UsersUI
<1>22. ASSUME RequestElsewhere PROVE UsersInv'
  <2>1. PICK op \in {"update", "deactivate", "reactivate", "reset"}, u \in 1..n :
          ui' = [ui EXCEPT !.sent = ui.sent \cup {NewRequest(2, op, u, "viewer")}]
    BY <1>22 DEF RequestElsewhere
  <2>2. NewRequest(2, op, u, "viewer") \in UserRequests(n)
    BY <1>17 DEF Roles
  <2>3. UsersUI(ui', n)
    BY <1>1, <1>21, <2>1, <2>2
  <2>4. QED
    BY <1>5, <1>22, <2>3 DEF RequestElsewhere
(* The handlers. *)
<1>23. ASSUME ReadUser PROVE UsersInv'
  <2>1. PICK m \in ui.sent :
          /\ m.state = "sent" /\ m.op # "create"
          /\ ui' = [ui EXCEPT !.sent = (ui.sent \ {m}) \cup
                      {IF m.op = "deactivate" /\ m.by = m.id
                       THEN [m EXCEPT !.state = "error"]
                       ELSE [m EXCEPT !.state = "read", !.row = srv.rows[m.id]]}]
    BY <1>23 DEF ReadUser
  <2>2. m \in UserRequests(n) /\ m.id \in 1..n /\ srv.rows[m.id] \in User
    BY <1>1, <2>1 DEF UserRequests
  <2>3. [m EXCEPT !.state = "error"] \in UserRequests(n)
    BY <2>1, <2>2 DEF UserRequests
  <2>4. [m EXCEPT !.state = "read", !.row = srv.rows[m.id]] \in UserRequests(n)
    BY <2>1, <2>2 DEF UserRequests
  <2>5. UsersUI(ui', n)
    BY <1>1, <1>21, <2>1, <2>3, <2>4
  <2>6. QED
    BY <1>5, <1>23, <2>5 DEF ReadUser
<1>24. ASSUME WriteUser PROVE UsersInv'
  <2>1. PICK m \in ui.sent, lost \in BOOLEAN :
          /\ m.state = "read"
          /\ srv' = [rows |-> [srv.rows EXCEPT ![m.id] = Written(m, srv.rows[m.id])],
                     asked |-> IF m.op = "update" THEN srv.asked
                               ELSE [srv.asked EXCEPT ![m.id] = Written(m, srv.asked[m.id])]]
          /\ ui' = [ui EXCEPT !.sent = (ui.sent \ {m}) \cup Reply(m, lost)]
          /\ IF lost THEN Loss ELSE Free
    BY <1>24 DEF WriteUser
  <2>2. /\ m \in UserRequests(n) /\ m.id \in 1..n
        /\ m.op = "update" => m.role \in Roles
    BY <1>1, <2>1 DEF UserRequests
  <2>3. \A r \in User : /\ Written(m, r) \in User
                        /\ m.op = "update" => /\ Written(m, r).active = r.active
                                              /\ Written(m, r).password = r.password
    <3>1. ASSUME NEW r \in User, m.op = "update"
          PROVE  /\ Written(m, r) \in User
                 /\ Written(m, r).active = r.active /\ Written(m, r).password = r.password
      BY <2>2, <3>1 DEF Written, Update, User
    <3>2. ASSUME NEW r \in User, m.op # "update" PROVE Written(m, r) \in User
      <4>1. \/ Written(m, r) = [r EXCEPT !.active = FALSE]
            \/ Written(m, r) = [r EXCEPT !.active = TRUE]
            \/ Written(m, r) = [r EXCEPT !.password = r.password + 1]
        BY <3>2 DEF Written
      <4>2. r.password + 1 \in Nat
        BY DEF User
      <4>3. QED
        BY <4>1, <4>2 DEF User
    <3>3. QED
      BY <3>1, <3>2
  <2>4. \A r, s \in User : r.active = s.active /\ r.password = s.password =>
          /\ Written(m, r).active = Written(m, s).active
          /\ Written(m, r).password = Written(m, s).password
    BY <2>2 DEF Written, Update, User
  <2>5. /\ srv.rows \in Seq(User) /\ srv.asked \in Seq(User) /\ Len(srv.asked) = n
        /\ \A u \in 1..n : /\ srv.rows[u].active = srv.asked[u].active
                           /\ srv.rows[u].password = srv.asked[u].password
    BY <1>1 DEF UsersInv, AccountAsAsked, OnUsers
  <2>6. /\ Written(m, srv.rows[m.id]) \in User /\ Written(m, srv.asked[m.id]) \in User
        /\ srv.rows[m.id] \in User /\ srv.asked[m.id] \in User
    BY <1>1, <2>2, <2>3
  <2>7. /\ srv'.rows \in Seq(User) /\ Len(srv'.rows) = n
        /\ srv'.asked \in Seq(User) /\ Len(srv'.asked) = n
    BY <2>1, <2>2, <2>5, <2>6
  <2>8. \A u \in 1..n : /\ srv'.rows[u].active = srv'.asked[u].active
                        /\ srv'.rows[u].password = srv'.asked[u].password
    <3>1. \A u \in 1..n \ {m.id} : srv'.rows[u] = srv.rows[u] /\ srv'.asked[u] = srv.asked[u]
      BY <2>1, <2>5
    <3>2. srv'.rows[m.id] = Written(m, srv.rows[m.id])
      BY <2>1, <2>2, <2>5
    <3>3. srv'.asked[m.id] = IF m.op = "update" THEN srv.asked[m.id]
                                                ELSE Written(m, srv.asked[m.id])
      BY <2>1, <2>2, <2>5
    <3>4. /\ srv'.rows[m.id].active = srv'.asked[m.id].active
          /\ srv'.rows[m.id].password = srv'.asked[m.id].password
      BY <2>2, <2>3, <2>4, <2>5, <2>6, <3>2, <3>3
    <3>5. QED
      <4>1. \A u \in 1..n \ {m.id} : /\ srv'.rows[u].active = srv'.asked[u].active
                                     /\ srv'.rows[u].password = srv'.asked[u].password
        BY <2>5, <3>1
      <4>2. QED
        BY <3>4, <4>1
  <2>9. Reply(m, lost) \in SUBSET UserRequests(n)
    BY <2>1, <2>2 DEF Reply, UserRequests
  <2>10. UsersUI(ui', n) /\ ui'.page = "users"
    <3>1. (ui.sent \ {m}) \cup Reply(m, lost) \in SUBSET UserRequests(n)
      BY <1>1, <2>9
    <3>2. UsersUI(ui', n)
      BY <1>21, <2>1, <3>1
    <3>3. QED
      BY <3>2 DEF UsersUI
  <2>11. left' \in Purses
    BY <2>1, Paid DEF UsersInv
  <2>12. srv' \in [rows : Seq(User), asked : Seq(User)]
    BY <2>1, <2>7
  <2>13. QED
    BY <2>7, <2>8, <2>10, <2>11, <2>12 DEF UsersInv, AccountAsAsked
<1>25. ASSUME CreateUser PROVE UsersInv'
  <2>1. PICK m \in ui.sent, lost \in BOOLEAN :
          LET new == [role |-> m.role, active |-> TRUE, password |-> 0]
          IN /\ m.state = "sent" /\ m.op = "create"
             /\ srv' = [rows |-> Append(srv.rows, new), asked |-> Append(srv.asked, new)]
             /\ ui' = [ui EXCEPT !.sent = (ui.sent \ {m}) \cup Reply(m, lost)]
             /\ IF lost THEN Loss ELSE Free
    BY <1>25 DEF CreateUser
  <2> DEFINE new == [role |-> m.role, active |-> TRUE, password |-> 0]
  <2>2. m \in UserRequests(n) /\ new \in User
    BY <1>1, <2>1 DEF UserRequests, User
  <2>3. /\ srv.rows \in Seq(User) /\ srv.asked \in Seq(User) /\ Len(srv.asked) = n
        /\ \A u \in 1..n : /\ srv.rows[u].active = srv.asked[u].active
                           /\ srv.rows[u].password = srv.asked[u].password
    BY <1>1 DEF UsersInv, AccountAsAsked, OnUsers
  <2>4. /\ srv' \in [rows : Seq(User), asked : Seq(User)]
        /\ srv'.rows \in Seq(User) /\ Len(srv'.rows) = n + 1 /\ Len(srv'.asked) = n + 1
    BY <2>1, <2>2, <2>3
  <2>5. \A u \in 1..(n + 1) : /\ srv'.rows[u].active = srv'.asked[u].active
                              /\ srv'.rows[u].password = srv'.asked[u].password
    <3>1. srv'.rows = Append(srv.rows, new) /\ srv'.asked = Append(srv.asked, new)
      BY <2>1
    <3>2. \A u \in 1..n : srv'.rows[u] = srv.rows[u] /\ srv'.asked[u] = srv.asked[u]
      BY <2>2, <2>3, <3>1
    <3>3. srv'.rows[n + 1] = new /\ srv'.asked[n + 1] = new
      BY <2>2, <2>3, <3>1
    <3>4. \A u \in 1..(n + 1) : u \in 1..n \/ u = n + 1
      BY <1>1
    <3>5. QED
      BY <2>3, <3>2, <3>3, <3>4
  <2>6. Reply(m, lost) \in SUBSET UserRequests(n)
    <3>1. m \in [by : {1, 2}, op : {"create"}, id : {0}, role : Roles, row : {NoUser},
                 state : {"sent", "ok", "error"}, n : Nat]
      BY <2>1, <2>2 DEF UserRequests
    <3>2. PICK s \in {"ok", "error"} : s = IF lost THEN "error" ELSE "ok"
      OBVIOUS
    <3>3. [m EXCEPT !.state = s, !.row = NoUser] \in UserRequests(n)
      BY <3>1 DEF UserRequests
    <3>4. Reply(m, lost) \subseteq {[m EXCEPT !.state = s, !.row = NoUser]}
      BY <3>2 DEF Reply
    <3>5. QED
      BY <3>3, <3>4
  <2>7. (ui.sent \ {m}) \cup Reply(m, lost) \in SUBSET UserRequests(n)
    BY <1>1, <2>6
  <2>8. UsersUI(ui', n)
    BY <1>21, <2>1, <2>7
  <2>9. UsersUI(ui', n + 1) /\ ui'.page = "users"
    BY <1>1, <2>8, MoreUsers DEF UsersUI
  <2>10. left' \in Purses
    BY <2>1, Paid DEF UsersInv
  <2>11. QED
    BY <2>4, <2>5, <2>9, <2>10 DEF UsersInv, AccountAsAsked
<1>26. ASSUME UserSucceeded PROVE UsersInv'
  <2>1. PICK m \in ui.sent :
          ui' = [ui EXCEPT !.sent = ui.sent \ {m},
                           !.query = IF m.op = "reset" THEN ui.query
                                                       ELSE Invalidate(ui.query, UsersKey),
                           !.editor = IF ui.editor.kind = m.op THEN ClosedEditor ELSE ui.editor]
    BY <1>26 DEF UserSucceeded
  <2>2. QueryIn(Invalidate(ui.query, UsersKey), UsersAnswers(n))
    BY <1>1, InvalidateIn
  <2>3. ClosedEditor \in Editors(n)
    BY DEF Editors
  <2>4. UsersUI(ui', n)
    BY <1>1, <2>1, <2>2, <2>3 DEF UsersInv, UsersUI
  <2>5. QED
    BY <1>5, <1>26, <2>4 DEF UserSucceeded
<1>27. ASSUME UserFailed PROVE UsersInv'
  <2>1. PICK m \in ui.sent : ui' = [ui EXCEPT !.sent = ui.sent \ {m}]
    BY <1>27 DEF UserFailed
  <2>2. UsersUI(ui', n)
    BY <1>1, <1>21, <2>1
  <2>3. QED
    BY <1>5, <1>27, <2>2 DEF UserFailed
<1>28. CASE UNCHANGED webVars
  BY <1>1, <1>5, <1>28 DEF webVars, UsersInv, Free
<1>29. QED
  BY <1>6, <1>7, <1>8, <1>9, <1>11, <1>12, <1>13, <1>14, <1>18, <1>19, <1>20, <1>22, <1>23,
     <1>24, <1>25, <1>26, <1>27, <1>28 DEF UsersNext

-----------------------------------------------------------------------------
(* The page of schedules.  Parameters fit the schema of their automation   *)
(* wherever a row is: on the server, in a cached or late answer, in the    *)
(* form and in a request under way.                                        *)

Parameters == {"stores", "month"}

FittingRows ==
    {r \in [automationId : AutomationIds, isEnabled : BOOLEAN, parameters : SUBSET Parameters] :
        r.parameters \subseteq Schema(r.automationId)}

StoredRows ==
    {r \in [automationId : {0} \cup AutomationIds, isEnabled : BOOLEAN,
            parameters : SUBSET Parameters] :
        r.automationId # 0 => r.parameters \subseteq Schema(r.automationId)}

Forms(n) ==
    {f \in [id : 0..n, automationId : {0} \cup AutomationIds, cron : BOOLEAN,
            isEnabled : BOOLEAN, parameters : SUBSET Parameters, values : SUBSET Parameters,
            open : BOOLEAN] :
        f.parameters \subseteq Schema(f.automationId)}

ScheduleRequests(n) ==
    [op : {"create", "update", "toggle", "remove"}, id : 0..n, valid : BOOLEAN,
     row : FittingRows, loaded : BOOLEAN, version : Nat, state : {"sent", "ok", "error"},
     n : Nat]

SchedulesAnswers(n) ==
    [k \in {SchedulesKey} |-> [version : Nat, rows : SUBSET [id : 1..n, row : FittingRows]]]

SchedulesUI(u, n) ==
    /\ u \in [page : {"schedules"}, query : {u.query}, sent : SUBSET ScheduleRequests(n),
              form : Forms(n), dialog : 0..n, seen : Nat]
    /\ QueryIn(u.query, SchedulesAnswers(n))

SchedulesInv ==
    /\ left \in Purses
    /\ srv \in [rows : Seq(StoredRows), version : Nat]
    /\ SchedulesUI(ui, Len(srv.rows))

LEMMA SchemaFacts ==
    /\ \A a \in AutomationIds : Schema(a) \subseteq Parameters
    /\ Schema(0) = {} /\ Schema(1) = {"stores"}
BY DEF Schema, AutomationIds, Parameters

LEMMA FirstRowFits == FirstRow \in FittingRows
BY SchemaFacts DEF FirstRow, FittingRows, AutomationIds, Parameters

LEMMA NoFormFits == ASSUME NEW n \in Nat PROVE NoForm \in Forms(n)
BY DEF NoForm, Forms

LEMMA SchedulesStart == SchedulesInit => SchedulesInv
<1> SUFFICES ASSUME SchedulesInit PROVE SchedulesInv
  OBVIOUS
<1>1. left \in Purses
  BY PageBounds, SchedulesBounds DEF SchedulesInit, Bounds, Purses
<1>2. FirstRow \in StoredRows
  BY FirstRowFits DEF FittingRows, StoredRows
<1>3. srv \in [rows : Seq(StoredRows), version : Nat] /\ Len(srv.rows) = 1
  BY <1>2 DEF SchedulesInit
<1>4. ui \in [page : {"schedules"}, query : {NewQuery}, sent : SUBSET ScheduleRequests(1),
              form : Forms(1), dialog : 0..1, seen : Nat]
  BY NoFormFits DEF SchedulesInit
<1>5. SchedulesUI(ui, 1)
  BY <1>4, NewQueryIn DEF SchedulesUI
<1>6. QED
  BY <1>1, <1>3, <1>5 DEF SchedulesInv

LEMMA MoreSchedules ==
    ASSUME NEW n \in Nat, NEW u, SchedulesUI(u, n)
    PROVE  SchedulesUI(u, n + 1)
<1>1. \A d : /\ d \in 0..n => d \in 0..(n + 1)
             /\ d \in 1..n => d \in 1..(n + 1)
  OBVIOUS
<1>2. Forms(n) \subseteq Forms(n + 1) /\ ScheduleRequests(n) \subseteq ScheduleRequests(n + 1)
  BY <1>1 DEF Forms, ScheduleRequests
<1>3. [version : Nat, rows : SUBSET [id : 1..n, row : FittingRows]]
      \subseteq [version : Nat, rows : SUBSET [id : 1..(n + 1), row : FittingRows]]
  BY <1>1
<1>4. \A k \in DOMAIN SchedulesAnswers(n) :
        /\ k \in DOMAIN SchedulesAnswers(n + 1)
        /\ \A a \in SchedulesAnswers(n)[k] : a \in SchedulesAnswers(n + 1)[k]
  BY <1>3 DEF SchedulesAnswers
<1>5. QueryIn(u.query, SchedulesAnswers(n + 1))
  BY <1>4, MoreAnswers DEF SchedulesUI
<1>6. QED
  BY <1>1, <1>2, <1>5 DEF SchedulesUI

LEMMA SchedulesSteps == SchedulesInv /\ [SchedulesNext]_webVars => SchedulesInv'
<1> SUFFICES ASSUME SchedulesInv, [SchedulesNext]_webVars PROVE SchedulesInv'
  OBVIOUS
<1> DEFINE n == Len(srv.rows)
<1>1. /\ n \in Nat /\ ui.page = "schedules"
      /\ \A i \in 1..n : srv.rows[i] \in StoredRows
      /\ ui.sent \in SUBSET ScheduleRequests(n) /\ ui.form \in Forms(n) /\ ui.dialog \in 0..n
      /\ ui.seen \in Nat
      /\ QueryIn(ui.query, SchedulesAnswers(n))
  BY DEF SchedulesInv, SchedulesUI
<1>2. Schedules \in SchedulesAnswers(n)[SchedulesKey]
  <2>1. \A i \in 1..n : srv.rows[i].automationId # 0 => srv.rows[i] \in FittingRows
    BY <1>1 DEF StoredRows, FittingRows
  <2>2. srv.version \in Nat
    BY DEF SchedulesInv
  <2>3. QED
    BY <2>1, <2>2 DEF Schedules, SchedulesAnswers, Rows
<1>3. SchedulesKey \in DOMAIN SchedulesAnswers(n)
  BY DEF SchedulesAnswers
<1>4. \A s \in Shown : s \in [id : 1..n, row : FittingRows]
  BY <1>1 DEF Shown, Loaded, HasData, QueryIn, SchedulesAnswers
(* Steps that leave the server alone. *)
<1>5. ASSUME UNCHANGED srv, Act \/ Change \/ Loss \/ Free, SchedulesUI(ui', n)
      PROVE  SchedulesInv'
  <2>1. left' \in Purses
    BY <1>5, Paid DEF SchedulesInv
  <2>2. QED
    BY <1>5, <2>1 DEF SchedulesInv
<1>6. ASSUME NEW q, QueryIn(q, SchedulesAnswers(n)), ui' = [ui EXCEPT !.query = q]
      PROVE  SchedulesUI(ui', n)
  BY <1>6 DEF SchedulesInv, SchedulesUI
<1>7. ASSUME FetchSchedules PROVE SchedulesInv'
  <2>1. ~Fetching(ui.query, SchedulesKey)
    BY <1>7 DEF FetchSchedules, NeedsFetch
  <2>2. QueryIn(StartFetch(ui.query, SchedulesKey, Schedules), SchedulesAnswers(n))
    BY <1>1, <1>2, <1>3, <2>1, StartFetchIn
  <2>3. SchedulesUI(ui', n)
    BY <1>6, <1>7, <2>2 DEF FetchSchedules
  <2>4. QED
    BY <1>5, <1>7, <2>3 DEF FetchSchedules
<1>8. ASSUME DeliverSchedules PROVE SchedulesInv'
  <2>1. PICK f \in ui.query.fetching : ui' = [ui EXCEPT !.query = Deliver(ui.query, f)]
    BY <1>8 DEF DeliverSchedules
  <2>2. SchedulesUI(ui', n)
    BY <1>1, <1>6, <2>1, DeliverIn
  <2>3. QED
    BY <1>5, <1>8, <2>2 DEF DeliverSchedules
<1>9. ASSUME LoseSchedules PROVE SchedulesInv'
  <2>1. PICK f \in ui.query.fetching : ui' = [ui EXCEPT !.query = Fail(ui.query, f, Schedules)]
    BY <1>9 DEF LoseSchedules
  <2>2. f.key = SchedulesKey
    BY <1>1 DEF QueryIn, SchedulesAnswers
  <2>3. QueryIn(Fail(ui.query, f, Schedules), SchedulesAnswers(n))
    BY <1>1, <1>2, <2>2, FailIn
  <2>4. SchedulesUI(ui', n)
    BY <1>6, <2>1, <2>3
  <2>5. QED
    BY <1>5, <1>9, <2>4 DEF LoseSchedules
(* The form. *)
<1>10. ASSUME NEW f \in Forms(n), ui' = [ui EXCEPT !.form = f], Act, UNCHANGED srv
       PROVE  SchedulesInv'
  <2>1. SchedulesUI(ui', n)
    BY <1>10 DEF SchedulesInv, SchedulesUI
  <2>2. QED
    BY <1>5, <1>10, <2>1
<1>11. \A f \in Forms(n) : Mount(f) \in Forms(n)
  BY DEF Mount, Forms
<1>12. ASSUME NEW f, f \in Forms(n), OpenForm(f) PROVE SchedulesInv'
  <2>1. [f EXCEPT !.open = TRUE] \in Forms(n)
    BY <1>12 DEF Forms
  <2>2. QED
    BY <1>10, <1>11, <1>12, <2>1 DEF OpenForm
<1>13. ASSUME NewSchedule PROVE SchedulesInv'
  <2>1. [NoForm EXCEPT !.isEnabled = TRUE] \in Forms(n)
    BY <1>1, NoFormFits DEF Forms
  <2>2. QED
    BY <1>12, <1>13, <2>1 DEF NewSchedule
<1>14. ASSUME NEW s \in Shown, NEW id \in {0, s.id}, OpenForm(FormOf(s, id)) PROVE SchedulesInv'
  <2>1. s.row \in FittingRows /\ id \in 0..n
    BY <1>1, <1>4
  <2>2. FormOf(s, id) \in Forms(n)
    BY <2>1 DEF FormOf, Forms, FittingRows
  <2>3. QED
    BY <1>12, <1>14, <2>2
<1>15. ASSUME NEW a \in AutomationIds, ChangeAutomation(a) PROVE SchedulesInv'
  <2>1. PICK next : /\ next = [ui.form EXCEPT !.automationId = a, !.parameters = {}]
                    /\ ui' = [ui EXCEPT !.form = next] \/ ui' = [ui EXCEPT !.form = Mount(next)]
    BY <1>15 DEF ChangeAutomation
  <2>2. next \in Forms(n)
    BY <1>1, <2>1 DEF Forms
  <2>3. QED
    BY <1>10, <1>11, <1>15, <2>1, <2>2 DEF ChangeAutomation
<1>16. ASSUME ChangeCron PROVE SchedulesInv'
  <2>1. [ui.form EXCEPT !.cron = ~ui.form.cron] \in Forms(n)
    BY <1>1 DEF Forms
  <2>2. QED
    BY <1>10, <1>16, <2>1 DEF ChangeCron
<1>17. ASSUME ChangeEnabled PROVE SchedulesInv'
  <2>1. [ui.form EXCEPT !.isEnabled = ~ui.form.isEnabled] \in Forms(n)
    BY <1>1 DEF Forms
  <2>2. QED
    BY <1>10, <1>17, <2>1 DEF ChangeEnabled
<1>18. ASSUME TypeParameter PROVE SchedulesInv'
  <2>1. PICK f \in Schema(ui.form.automationId) :
          ui' = [ui EXCEPT !.form.values = ui.form.values \cup {f}]
    BY <1>18 DEF TypeParameter
  <2>2. f \in Parameters
    BY <1>1, <2>1, SchemaFacts DEF Forms
  <2>3. [ui.form EXCEPT !.values = ui.form.values \cup {f}] \in Forms(n)
    BY <1>1, <2>2 DEF Forms
  <2>4. QED
    BY <1>10, <1>18, <2>1, <2>3 DEF TypeParameter
<1>19. ASSUME CloseForm PROVE SchedulesInv'
  BY <1>1, <1>10, <1>19, NoFormFits DEF CloseForm
(* Requests. *)
<1>20. ASSUME NEW S \in SUBSET ScheduleRequests(n), NEW d \in 0..n,
              ui' = [ui EXCEPT !.dialog = d, !.sent = S]
       PROVE  SchedulesUI(ui', n)
  BY <1>20 DEF SchedulesInv, SchedulesUI
<1>21. ASSUME NEW op \in {"create", "update", "toggle", "remove"}, NEW id \in 0..n,
              NEW valid \in BOOLEAN, NEW row \in FittingRows, Request(op, id, valid, row),
              Act \/ Free
       PROVE  SchedulesInv'
  <2> DEFINE m == [op |-> op, id |-> id, valid |-> valid, row |-> row,
                   loaded |-> Loaded, version |-> 0, state |-> "sent", n |-> left.acts]
  <2>1. ui' = [ui EXCEPT !.dialog = 0, !.sent = ui.sent \cup {m}] /\ UNCHANGED srv
    BY <1>21 DEF Request
  <2>2. m \in ScheduleRequests(n)
    BY DEF ScheduleRequests, Loaded, HasData, SchedulesInv, Purses
  <2>3. ui.sent \cup {m} \in SUBSET ScheduleRequests(n) /\ 0 \in 0..n
    BY <1>1, <2>2
  <2>4. SchedulesUI(ui', n)
    BY <1>20, <2>1, <2>3
  <2>5. QED
    BY <1>5, <1>21, <2>1, <2>4
<1>22. ASSUME SubmitForm PROVE SchedulesInv'
  <2>1. Submitted \subseteq Schema(ui.form.automationId) /\ Submitted \subseteq Parameters
    BY <1>1 DEF Submitted, Forms
  <2>2. RowOf(ui.form, Submitted) \in FittingRows
    BY <1>1, <1>22, <2>1 DEF RowOf, FittingRows, Forms, SubmitForm
  <2>3. ui.form.id \in 0..n /\ ui.form.cron \in BOOLEAN
    BY <1>1 DEF Forms
  <2>4. QED
    BY <1>21, <1>22, <2>2, <2>3 DEF SubmitForm
<1>23. ASSUME Toggle PROVE SchedulesInv'
  <2>1. PICK s \in Shown :
          Request("toggle", s.id, TRUE, [s.row EXCEPT !.isEnabled = ~s.row.isEnabled])
    BY <1>23 DEF Toggle
  <2>2. s.id \in 0..n /\ s.row \in FittingRows
    BY <1>1, <1>4
  <2>3. [s.row EXCEPT !.isEnabled = ~s.row.isEnabled] \in FittingRows
    BY <2>2 DEF FittingRows
  <2>4. QED
    BY <1>21, <1>23, <2>1, <2>2, <2>3 DEF Toggle
<1>24. ASSUME ClickRemove \/ Decline PROVE SchedulesInv'
  <2>1. PICK d \in 0..n : ui' = [ui EXCEPT !.dialog = d]
    BY <1>1, <1>4, <1>24 DEF ClickRemove, Decline
  <2>2. SchedulesUI(ui', n)
    BY <2>1 DEF SchedulesInv, SchedulesUI
  <2>3. QED
    BY <1>5, <1>24, <2>2 DEF ClickRemove, Decline
<1>25. ASSUME Confirm PROVE SchedulesInv'
  BY <1>1, <1>21, <1>25, FirstRowFits DEF Confirm
(* The server. *)
<1>26. ASSUME ServeSchedules PROVE SchedulesInv'
  <2>1. PICK m \in ui.sent, lost \in BOOLEAN :
          /\ srv' = IF Accepted(m)
                    THEN [rows |-> Effect(m), version |-> srv.version + 1] ELSE srv
          /\ ui' = [ui EXCEPT !.sent = (ui.sent \ {m}) \cup
                      {[m EXCEPT !.state = IF Accepted(m) /\ ~lost THEN "ok" ELSE "error",
                                 !.version = srv.version + 1]}]
          /\ IF lost THEN Loss ELSE Free
    BY <1>26 DEF ServeSchedules
  <2>2. /\ m \in ScheduleRequests(n) /\ m.id \in 0..n /\ m.row \in FittingRows
        /\ srv.version \in Nat /\ srv.version + 1 \in Nat
    BY <1>1 DEF ScheduleRequests, SchedulesInv
  <2>3. PICK answered : answered = [m EXCEPT !.state = IF Accepted(m) /\ ~lost THEN "ok" ELSE "error",
                                            !.version = srv.version + 1]
    OBVIOUS
  <2>4. answered \in ScheduleRequests(n)
    BY <2>2, <2>3 DEF ScheduleRequests
  <2>5. ui' = [ui EXCEPT !.sent = (ui.sent \ {m}) \cup {answered}]
    BY <2>1, <2>3
  <2>6. SchedulesUI(ui', n)
    <3>1. (ui.sent \ {m}) \cup {answered} \in SUBSET ScheduleRequests(n)
      BY <1>1, <2>4
    <3>2. QED
      BY <2>5, <3>1 DEF SchedulesInv, SchedulesUI
  <2>7. left' \in Purses
    BY <2>1, Paid DEF SchedulesInv
  <2>8. m.row \in StoredRows
    BY <2>2 DEF FittingRows, StoredRows
  <2>9. srv.rows \in Seq(StoredRows)
    BY DEF SchedulesInv
  <2>10. CASE ~Accepted(m)
    BY <2>1, <2>6, <2>7, <2>10 DEF SchedulesInv
  <2>11. CASE Accepted(m) /\ m.op = "create"
    <3>1. srv' = [rows |-> Append(srv.rows, m.row), version |-> srv.version + 1]
      BY <2>1, <2>11 DEF Effect
    <3>2. Append(srv.rows, m.row) \in Seq(StoredRows) /\ Len(Append(srv.rows, m.row)) = n + 1
      BY <2>8, <2>9
    <3>3. srv' \in [rows : Seq(StoredRows), version : Nat] /\ Len(srv'.rows) = n + 1
      BY <2>2, <3>1, <3>2
    <3>4. QED
      BY <1>1, <2>6, <2>7, <3>3, MoreSchedules DEF SchedulesInv
  <2>12. CASE Accepted(m) /\ m.op # "create"
    <3>1. m.id \in 1..n /\ srv.rows[m.id] \in StoredRows
      BY <1>1, <2>12 DEF Accepted, Rows
    <3>2. PICK row \in StoredRows : Effect(m) = [srv.rows EXCEPT ![m.id] = row]
      <4>1. CASE m.op = "remove"
        <5>1. [srv.rows[m.id] EXCEPT !.automationId = 0] \in StoredRows
          BY <3>1 DEF StoredRows
        <5>2. Effect(m) = [srv.rows EXCEPT ![m.id] = [srv.rows[m.id] EXCEPT !.automationId = 0]]
          BY <4>1 DEF Effect
        <5>3. QED
          BY <5>1, <5>2
      <4>2. CASE m.op # "remove"
        BY <2>8, <2>12, <4>2 DEF Effect
      <4>3. QED
        BY <4>1, <4>2
    <3>3. [srv.rows EXCEPT ![m.id] = row] \in Seq(StoredRows)
      BY <2>9, <3>1
    <3>4. Len([srv.rows EXCEPT ![m.id] = row]) = n
      BY <2>9, <3>1
    <3>5. srv' \in [rows : Seq(StoredRows), version : Nat] /\ Len(srv'.rows) = n
      BY <2>1, <2>2, <2>12, <3>2, <3>3, <3>4
    <3>6. QED
      BY <2>6, <2>7, <3>5 DEF SchedulesInv
  <2>13. QED
    BY <2>10, <2>11, <2>12
<1>27. ASSUME Succeeded PROVE SchedulesInv'
  <2>1. PICK m \in ui.sent :
          ui' = [ui EXCEPT !.sent = ui.sent \ {m},
                           !.query = Invalidate(ui.query, SchedulesKey),
                           !.form = IF Closes(m) THEN NoForm ELSE ui.form,
                           !.seen = IF m.loaded /\ m.version > ui.seen THEN m.version ELSE ui.seen]
    BY <1>27 DEF Succeeded
  <2>2. QueryIn(Invalidate(ui.query, SchedulesKey), SchedulesAnswers(n))
    BY <1>1, InvalidateIn
  <2>3. /\ (IF Closes(m) THEN NoForm ELSE ui.form) \in Forms(n)
        /\ (IF m.loaded /\ m.version > ui.seen THEN m.version ELSE ui.seen) \in Nat
        /\ ui.sent \ {m} \in SUBSET ScheduleRequests(n)
    BY <1>1, NoFormFits DEF ScheduleRequests
  <2>4. SchedulesUI(ui', n)
    BY <2>1, <2>2, <2>3 DEF SchedulesInv, SchedulesUI
  <2>5. QED
    BY <1>5, <1>27, <2>4 DEF Succeeded
<1>28. ASSUME FailedSilently PROVE SchedulesInv'
  <2>1. PICK m \in ui.sent : ui' = [ui EXCEPT !.sent = ui.sent \ {m}]
    BY <1>28 DEF FailedSilently
  <2>2. SchedulesUI(ui', n)
    BY <1>1, <2>1 DEF SchedulesInv, SchedulesUI
  <2>3. QED
    BY <1>5, <1>28, <2>2 DEF FailedSilently
<1>29. ASSUME SwitchedElsewhere PROVE SchedulesInv'
  <2>1. PICK i \in Rows :
          srv' = [srv EXCEPT !.rows[i].isEnabled = ~srv.rows[i].isEnabled,
                             !.version = srv.version + 1]
    BY <1>29 DEF SwitchedElsewhere
  <2>2. PICK row : row = [srv.rows[i] EXCEPT !.isEnabled = ~srv.rows[i].isEnabled]
    OBVIOUS
  <2>3. i \in 1..n /\ srv.rows \in Seq(StoredRows) /\ row \in StoredRows
    BY <1>1, <2>2 DEF Rows, StoredRows, SchedulesInv
  <2>4. srv' = [srv EXCEPT !.rows = [srv.rows EXCEPT ![i] = row], !.version = srv.version + 1]
    BY <2>1, <2>2
  <2>5. PICK rows : rows = [srv.rows EXCEPT ![i] = row]
    OBVIOUS
  <2>6. srv' \in [rows : Seq(StoredRows), version : Nat] /\ Len(srv'.rows) = n
    <3>1. srv.version + 1 \in Nat
      BY DEF SchedulesInv
    <3>2. srv' = [srv EXCEPT !.rows = rows, !.version = srv.version + 1]
      BY <2>4, <2>5
    <3>3. rows \in Seq(StoredRows) /\ Len(rows) = n
      BY <2>3, <2>5
    <3>4. QED
      BY <3>1, <3>2, <3>3 DEF SchedulesInv
  <2>7. left' \in Purses /\ ui' = ui
    BY <1>29, Paid DEF SwitchedElsewhere, SchedulesInv
  <2>8. QED
    BY <2>6, <2>7 DEF SchedulesInv
<1>30. CASE UNCHANGED webVars
  BY <1>1, <1>5, <1>30 DEF webVars, SchedulesInv, Free
<1>31. QED
  BY <1>7, <1>8, <1>9, <1>13, <1>14, <1>15, <1>16, <1>17, <1>18, <1>19, <1>22, <1>23, <1>24,
     <1>25, <1>26, <1>27, <1>28, <1>29, <1>30 DEF SchedulesNext, Duplicate, Edit

-----------------------------------------------------------------------------
(* The page of jobs.  An answer says what it was asked for, and is only    *)
(* kept under the key that asks for it.                                    *)

Statuses == Active \cup Retryable

Keys == [status : Filters, offset : 0..MaxJobs]

JobsAnswers(n) ==
    [k \in Keys |-> [asked : {k}, total : 0..MaxJobs,
                     items : SUBSET [id : 1..n, status : Statuses]]]

JobRequests(n) == [op : {"cancel", "retry"}, id : 1..n, state : {"sent", "ok", "error"}]

JobsUI(u, n) ==
    /\ u \in [page : {"jobs"}, status : Filters, cls : {"all", "some"}, offset : 0..MaxJobs,
              query : {u.query}, last : {NoKey} \cup Keys, sent : SUBSET JobRequests(n)]
    /\ QueryIn(u.query, JobsAnswers(n))
    /\ u.last # NoKey => u.last \in DOMAIN u.query.cache

JobsInv ==
    /\ left \in Purses
    /\ srv \in [jobs : Seq(Statuses)]
    /\ Len(srv.jobs) <= MaxJobs
    /\ JobsUI(ui, Len(srv.jobs))

LEMMA JobsStart == JobsInit => JobsInv
<1> SUFFICES ASSUME JobsInit PROVE JobsInv
  OBVIOUS
<1>1. left \in Purses
  BY PageBounds, JobsBounds DEF JobsInit, Bounds, Purses
<1>2. PICK a \in Statuses, b \in Statuses : a = "failed" /\ b = "running"
  BY DEF Statuses, Active, Retryable
<1>3. srv \in [jobs : Seq(Statuses)] /\ Len(srv.jobs) = 2
  <2>1. srv = [jobs |-> <<a, b>>]
    BY <1>2 DEF JobsInit
  <2>2. QED
    BY <2>1
<1>4. ui \in [page : {"jobs"}, status : Filters, cls : {"all", "some"}, offset : 0..MaxJobs,
              query : {NewQuery}, last : {NoKey}, sent : SUBSET JobRequests(2)]
  BY JobsBounds DEF JobsInit, Filters
<1>5. JobsUI(ui, 2)
  BY <1>4, NewQueryIn DEF JobsUI
<1>6. QED
  BY <1>1, <1>3, <1>5, JobsBounds DEF JobsInv

(* What a query has answered it keeps. *)
LEMMA CacheKept ==
    ASSUME NEW R, NEW q, QueryIn(q, R)
    PROVE  /\ \A key, answer : DOMAIN StartFetch(q, key, answer).cache = DOMAIN q.cache
           /\ \A f : DOMAIN q.cache \subseteq DOMAIN Deliver(q, f).cache
           /\ \A f, again : DOMAIN Fail(q, f, again).cache = DOMAIN q.cache
           /\ \A key : DOMAIN Invalidate(q, key).cache = DOMAIN q.cache
<1>1. q \in [cache : {q.cache}, fetching : {q.fetching}, due : {q.due}, failed : {q.failed}]
  BY DEF QueryIn
<1>2. \A key, answer : StartFetch(q, key, answer).cache = q.cache
  BY <1>1 DEF StartFetch
<1>3. \A f : Deliver(q, f).cache = [k \in DOMAIN q.cache \cup {f.key} |->
                                      IF k = f.key THEN f.answer ELSE q.cache[k]]
  BY <1>1 DEF Deliver
<1>4. \A f, again : Fail(q, f, again).cache = q.cache
  BY <1>1 DEF Fail
<1>5. \A key : Invalidate(q, key).cache = q.cache
  BY <1>1 DEF Invalidate
<1>6. QED
  BY <1>2, <1>3, <1>4, <1>5

LEMMA UpTo == ASSUME NEW n \in Nat PROVE IsFiniteSet(1..n) /\ Cardinality(1..n) = n
BY FS_Interval

(* The list answers what it was asked for. *)
LEMMA ListAnswers ==
    ASSUME srv \in [jobs : Seq(Statuses)], Len(srv.jobs) <= MaxJobs, NEW key \in Keys
    PROVE  List(key) \in JobsAnswers(Len(srv.jobs))[key]
<1> DEFINE n == Len(srv.jobs)
           match == {j \in 1..n : key.status = "all" \/ srv.jobs[j] = key.status}
<1>1. n \in Nat /\ n <= MaxJobs /\ MaxJobs \in Nat
  <2>1. srv.jobs \in Seq(Statuses)
    OBVIOUS
  <2>2. QED
    BY <2>1, JobsBounds
<1>2. IsFiniteSet(1..n) /\ Cardinality(1..n) = n
  BY <1>1, UpTo
<1>3. Cardinality(match) \in Nat /\ Cardinality(match) <= n
  BY <1>2, FS_Subset, FS_CardinalityType
<1>4. Cardinality(match) \in 0..MaxJobs
  BY <1>1, <1>3
<1>5. \A j \in match : j \in 1..n /\ srv.jobs[j] \in Statuses
  OBVIOUS
<1>6. PICK page \in SUBSET match :
        List(key) = [asked |-> key, total |-> Cardinality(match),
                     items |-> {[id |-> j, status |-> srv.jobs[j]] : j \in page}]
  BY DEF List
<1>7. {[id |-> j, status |-> srv.jobs[j]] : j \in page} \in SUBSET [id : 1..n, status : Statuses]
  BY <1>5
<1>8. QED
  BY <1>4, <1>6, <1>7 DEF JobsAnswers

LEMMA MoreJobs ==
    ASSUME NEW n \in Nat, NEW u, JobsUI(u, n)
    PROVE  JobsUI(u, n + 1)
<1>1. \A d : d \in 1..n => d \in 1..(n + 1)
  OBVIOUS
<1>2. JobRequests(n) \subseteq JobRequests(n + 1)
  BY <1>1 DEF JobRequests
<1>3. [id : 1..n, status : Statuses] \subseteq [id : 1..(n + 1), status : Statuses]
  BY <1>1
<1>4. \A k \in DOMAIN JobsAnswers(n) :
        /\ k \in DOMAIN JobsAnswers(n + 1)
        /\ \A a \in JobsAnswers(n)[k] : a \in JobsAnswers(n + 1)[k]
  BY <1>3 DEF JobsAnswers
<1>5. QueryIn(u.query, JobsAnswers(n + 1))
  BY <1>4, MoreAnswers DEF JobsUI
<1>6. QED
  BY <1>2, <1>5 DEF JobsUI

LEMMA JobsSteps == JobsInv /\ [JobsNext]_webVars => JobsInv'
<1> SUFFICES ASSUME JobsInv, [JobsNext]_webVars PROVE JobsInv'
  OBVIOUS
<1> DEFINE n == Len(srv.jobs)
<1>1. /\ n \in Nat /\ n <= MaxJobs /\ MaxJobs \in Nat /\ PageSize \in Nat \ {0}
      /\ ui.page = "jobs" /\ ui.offset \in 0..MaxJobs /\ ui.status \in Filters
      /\ ui.sent \in SUBSET JobRequests(n) /\ ui.last \in {NoKey} \cup Keys
      /\ QueryIn(ui.query, JobsAnswers(n))
      /\ ui.last # NoKey => ui.last \in DOMAIN ui.query.cache
  BY JobsBounds DEF JobsInv, JobsUI
<1>2. ListKey \in Keys /\ ListKey = ListRequest
  BY <1>1 DEF ListKey, ListRequest, Keys
<1>3. \A k \in Keys : List(k) \in JobsAnswers(n)[k]
  BY ListAnswers DEF JobsInv
<1>4. DOMAIN JobsAnswers(n) = Keys
  BY DEF JobsAnswers
(* What the page shows. *)
<1>5. /\ HasList => Listed.total \in 0..MaxJobs
                    /\ Listed.items \in SUBSET [id : 1..n, status : Statuses]
  <2>1. \A k \in DOMAIN ui.query.cache : ui.query.cache[k] \in JobsAnswers(n)[k] /\ k \in Keys
    BY <1>1, <1>4 DEF QueryIn
  <2>2. \A k \in DOMAIN ui.query.cache :
          /\ ui.query.cache[k].total \in 0..MaxJobs
          /\ ui.query.cache[k].items \in SUBSET [id : 1..n, status : Statuses]
    BY <2>1 DEF JobsAnswers
  <2>3. QED
    BY <1>1, <2>2 DEF HasList, Listed, Placeholder, HasData
<1>6. \A j \in Items : j.id \in 1..n
  BY <1>5 DEF Items
(* Steps that leave the server alone. *)
<1>7. ASSUME UNCHANGED srv, Act \/ Change \/ Loss \/ Free, JobsUI(ui', n) PROVE JobsInv'
  <2>1. left' \in Purses
    BY <1>7, Paid DEF JobsInv
  <2>2. QED
    BY <1>7, <2>1 DEF JobsInv
<1>8. ASSUME NEW q, QueryIn(q, JobsAnswers(n)), DOMAIN ui.query.cache \subseteq DOMAIN q.cache,
             ui' = [ui EXCEPT !.query = q]
      PROVE  JobsUI(ui', n)
  BY <1>8 DEF JobsInv, JobsUI
<1>9. ASSUME FetchList PROVE JobsInv'
  <2>1. ~Fetching(ui.query, ListKey)
    BY <1>9 DEF FetchList, NeedsFetch
  <2>2. QueryIn(StartFetch(ui.query, ListKey, List(ListRequest)), JobsAnswers(n))
    BY <1>1, <1>2, <1>3, <1>4, <2>1, StartFetchIn
  <2>3. JobsUI(ui', n)
    BY <1>1, <1>8, <1>9, <2>2, CacheKept DEF FetchList
  <2>4. QED
    BY <1>7, <1>9, <2>3 DEF FetchList
<1>10. ASSUME DeliverList PROVE JobsInv'
  <2>1. PICK f \in ui.query.fetching : ui' = [ui EXCEPT !.query = Deliver(ui.query, f)]
    BY <1>10 DEF DeliverList
  <2>2. JobsUI(ui', n)
    BY <1>1, <1>8, <2>1, DeliverIn, CacheKept
  <2>3. QED
    BY <1>7, <1>10, <2>2 DEF DeliverList
<1>11. ASSUME LoseList PROVE JobsInv'
  <2>1. PICK f \in ui.query.fetching :
          ui' = [ui EXCEPT !.query = Fail(ui.query, f, List(f.answer.asked))]
    BY <1>11 DEF LoseList
  <2>2. f.key \in Keys /\ f.answer \in JobsAnswers(n)[f.key]
    BY <1>1, <1>4 DEF QueryIn
  <2>3. f.answer.asked = f.key
    BY <2>2 DEF JobsAnswers
  <2>4. QueryIn(Fail(ui.query, f, List(f.answer.asked)), JobsAnswers(n))
    BY <1>1, <1>3, <2>2, <2>3, FailIn
  <2>5. JobsUI(ui', n)
    BY <1>1, <1>8, <2>1, <2>4, CacheKept
  <2>6. QED
    BY <1>7, <1>11, <2>5 DEF LoseList
<1>12. ASSUME RetryList PROVE JobsInv'
  <2>1. PICK q : q = [ui.query EXCEPT !.due = ui.query.due \cup {ListKey}]
    OBVIOUS
  <2>2. ui' = [ui EXCEPT !.query = q]
    BY <1>12, <2>1 DEF RetryList
  <2>3. q \in [cache : {ui.query.cache}, fetching : {ui.query.fetching},
               due : {ui.query.due \cup {ListKey}}, failed : {ui.query.failed}]
    BY <1>1, <2>1 DEF QueryIn
  <2>4. QueryIn(q, JobsAnswers(n)) /\ DOMAIN ui.query.cache \subseteq DOMAIN q.cache
    BY <1>1, <1>2, <1>4, <2>3 DEF QueryIn
  <2>5. QED
    BY <1>7, <1>8, <1>12, <2>2, <2>4 DEF RetryList
(* Filters and pager. *)
<1>13. LastKey \in {NoKey} \cup Keys /\ (LastKey # NoKey => LastKey \in DOMAIN ui.query.cache)
  BY <1>1, <1>2 DEF LastKey, HasData
<1>14. ASSUME NEW s \in Filters, ChangeStatusFilter(s) PROVE JobsInv'
  <2>1. PICK last : last = LastKey
    OBVIOUS
  <2>2. ui' = [ui EXCEPT !.status = s, !.offset = 0, !.last = last]
    BY <1>14, <2>1 DEF ChangeStatusFilter
  <2>3. 0 \in 0..MaxJobs
    BY <1>1
  <2>4. JobsUI(ui', n)
    BY <1>13, <2>1, <2>2, <2>3 DEF JobsInv, JobsUI
  <2>5. QED
    BY <1>7, <1>14, <2>4 DEF ChangeStatusFilter
<1>15. ASSUME NEW c \in {"all", "some"}, ChangeErrorClass(c) PROVE JobsInv'
  <2>1. JobsUI(ui', n)
    BY <1>15 DEF ChangeErrorClass, JobsInv, JobsUI
  <2>2. QED
    BY <1>7, <1>15, <2>1 DEF ChangeErrorClass
<1>16. ASSUME NEW o \in 0..MaxJobs, ui' = [ui EXCEPT !.offset = o, !.last = LastKey], Act,
              UNCHANGED srv
       PROVE  JobsInv'
  <2>1. JobsUI(ui', n)
    BY <1>13, <1>16 DEF JobsInv, JobsUI
  <2>2. QED
    BY <1>7, <1>16, <2>1
<1>17. ASSUME Anterior PROVE JobsInv'
  <2>1. (IF ui.offset > PageSize THEN ui.offset - PageSize ELSE 0) \in 0..MaxJobs
    BY <1>1
  <2>2. QED
    BY <1>16, <1>17, <2>1 DEF Anterior
<1>18. ASSUME Proximo PROVE JobsInv'
  <2>1. Total \in 0..MaxJobs
    BY <1>1, <1>5 DEF Total
  <2>2. ui.offset + PageSize \in 0..MaxJobs
    BY <1>1, <1>18, <2>1 DEF Proximo
  <2>3. QED
    BY <1>16, <1>18, <2>2 DEF Proximo
(* Requests. *)
<1>19. ASSUME NEW S \in SUBSET JobRequests(n), ui' = [ui EXCEPT !.sent = S] PROVE JobsUI(ui', n)
  BY <1>19 DEF JobsInv, JobsUI
<1>20. ASSUME NEW op \in {"cancel", "retry"}, NEW j \in Items, Submit(op, j.id) PROVE JobsInv'
  <2>1. [op |-> op, id |-> j.id, state |-> "sent"] \in JobRequests(n)
    BY <1>6 DEF JobRequests
  <2>2. JobsUI(ui', n)
    BY <1>1, <1>19, <1>20, <2>1 DEF Submit
  <2>3. QED
    BY <1>7, <1>20, <2>2 DEF Submit
<1>21. ASSUME ClickCancel \/ ClickRetry PROVE JobsInv'
  BY <1>20, <1>21 DEF ClickCancel, ClickRetry
<1>22. ASSUME Answered PROVE JobsInv'
  <2>1. PICK m \in ui.sent :
          ui' = [ui EXCEPT !.sent = ui.sent \ {m}, !.query = Invalidate(ui.query, ListKey)]
    BY <1>22 DEF Answered
  <2>2. PICK q : q = Invalidate(ui.query, ListKey)
    OBVIOUS
  <2>3. QueryIn(q, JobsAnswers(n)) /\ DOMAIN q.cache = DOMAIN ui.query.cache
    BY <1>1, <2>2, InvalidateIn, CacheKept
  <2>4. ui.sent \ {m} \in SUBSET JobRequests(n)
    BY <1>1
  <2>5. JobsUI(ui', n)
    BY <2>1, <2>2, <2>3, <2>4 DEF JobsInv, JobsUI
  <2>6. QED
    BY <1>7, <1>22, <2>5 DEF Answered
<1>23. ASSUME Refused PROVE JobsInv'
  <2>1. PICK m \in ui.sent : ui' = [ui EXCEPT !.sent = ui.sent \ {m}]
    BY <1>23 DEF Refused
  <2>2. JobsUI(ui', n)
    BY <1>1, <1>19, <2>1
  <2>3. QED
    BY <1>7, <1>23, <2>2 DEF Refused
(* The server: a job changes its status, or there is one more. *)
<1>24. ASSUME NEW j \in 1..n, NEW s \in Statuses, srv' = [srv EXCEPT !.jobs[j] = s]
       PROVE  srv' \in [jobs : Seq(Statuses)] /\ Len(srv'.jobs) = n
  <2>1. PICK jobs : jobs = [srv.jobs EXCEPT ![j] = s]
    OBVIOUS
  <2>2. srv.jobs \in Seq(Statuses)
    BY DEF JobsInv
  <2>3. jobs \in Seq(Statuses) /\ Len(jobs) = n
    BY <2>1, <2>2
  <2>4. srv' = [srv EXCEPT !.jobs = jobs]
    BY <1>24, <2>1
  <2>5. QED
    BY <2>3, <2>4 DEF JobsInv
<1>25. ASSUME n < MaxJobs, srv' = [srv EXCEPT !.jobs = Append(srv.jobs, "pending")]
       PROVE  srv' \in [jobs : Seq(Statuses)] /\ Len(srv'.jobs) = n + 1 /\ n + 1 <= MaxJobs
  <2>1. PICK jobs : jobs = Append(srv.jobs, "pending")
    OBVIOUS
  <2>2. srv.jobs \in Seq(Statuses) /\ "pending" \in Statuses
    BY DEF JobsInv, Statuses, Active
  <2>3. jobs \in Seq(Statuses) /\ Len(jobs) = n + 1
    BY <2>1, <2>2
  <2>4. srv' = [srv EXCEPT !.jobs = jobs]
    BY <1>25, <2>1
  <2>5. srv' \in [jobs : Seq(Statuses)] /\ srv'.jobs = jobs
    BY <2>3, <2>4 DEF JobsInv
  <2>6. n + 1 <= MaxJobs
    BY <1>1, <1>25
  <2>7. QED
    BY <2>3, <2>5, <2>6
<1>26. ASSUME srv' \in [jobs : Seq(Statuses)], Len(srv'.jobs) = n, JobsUI(ui', n),
              Act \/ Change \/ Loss \/ Free
       PROVE  JobsInv'
  <2>1. left' \in Purses
    BY <1>26, Paid DEF JobsInv
  <2>2. QED
    BY <1>1, <1>26, <2>1 DEF JobsInv
<1>27. ASSUME srv' \in [jobs : Seq(Statuses)], Len(srv'.jobs) = n + 1, n + 1 <= MaxJobs,
              JobsUI(ui', n), Act \/ Change \/ Loss \/ Free
       PROVE  JobsInv'
  <2>1. left' \in Purses
    BY <1>27, Paid DEF JobsInv
  <2>2. JobsUI(ui', n + 1)
    BY <1>1, <1>27, MoreJobs
  <2>3. QED
    BY <1>1, <1>27, <2>1, <2>2 DEF JobsInv
<1>28. ASSUME NEW m \in ui.sent, NEW s \in {"ok", "error"},
              ui' = [ui EXCEPT !.sent = (ui.sent \ {m}) \cup {[m EXCEPT !.state = s]}]
       PROVE  JobsUI(ui', n)
  <2>1. [m EXCEPT !.state = s] \in JobRequests(n)
    BY <1>1 DEF JobRequests
  <2>2. QED
    BY <1>1, <1>19, <1>28, <2>1
<1>29. ASSUME ServeCancel PROVE JobsInv'
  <2>1. PICK m \in ui.sent, lost \in BOOLEAN :
          /\ srv' = IF srv.jobs[m.id] = "pending"
                    THEN [srv EXCEPT !.jobs[m.id] = "canceled"] ELSE srv
          /\ ui' = [ui EXCEPT !.sent = (ui.sent \ {m}) \cup
                      {[m EXCEPT !.state = IF lost \/ srv.jobs[m.id] \notin Active
                                           THEN "error" ELSE "ok"]}]
          /\ IF lost THEN Loss ELSE Free
    BY <1>29 DEF ServeCancel
  <2>2. PICK s \in {"ok", "error"} :
          s = IF lost \/ srv.jobs[m.id] \notin Active THEN "error" ELSE "ok"
    OBVIOUS
  <2>3. JobsUI(ui', n)
    BY <1>28, <2>1, <2>2
  <2>4. m.id \in 1..n /\ "canceled" \in Statuses
    BY <1>1 DEF JobRequests, Statuses, Retryable
  <2>5. srv' \in [jobs : Seq(Statuses)] /\ Len(srv'.jobs) = n
    BY <1>24, <2>1, <2>4 DEF JobsInv
  <2>6. QED
    BY <1>26, <2>1, <2>3, <2>5
<1>30. ASSUME ServeRetry PROVE JobsInv'
  <2>1. PICK m \in ui.sent, lost \in BOOLEAN :
          /\ n < MaxJobs
          /\ srv' = [srv EXCEPT !.jobs = Append(srv.jobs, "pending")]
          /\ ui' = [ui EXCEPT !.sent = (ui.sent \ {m}) \cup
                      {[m EXCEPT !.state = IF lost THEN "error" ELSE "ok"]}]
          /\ IF lost THEN Loss ELSE Free
    BY <1>30 DEF ServeRetry
  <2>2. PICK s \in {"ok", "error"} : s = IF lost THEN "error" ELSE "ok"
    OBVIOUS
  <2>3. JobsUI(ui', n)
    BY <1>28, <2>1, <2>2
  <2>4. QED
    BY <1>25, <1>27, <2>1, <2>3
<1>31. ASSUME JobMoves PROVE JobsInv'
  <2>1. PICK j \in 1..n, s \in {"running", "failed", "completed"} :
          srv' = [srv EXCEPT !.jobs[j] = s]
    BY <1>31 DEF JobMoves
  <2>2. s \in Statuses
    BY DEF Statuses, Active, Retryable
  <2>3. JobsUI(ui', n)
    BY <1>31 DEF JobMoves, JobsInv
  <2>4. QED
    BY <1>24, <1>26, <1>31, <2>1, <2>2, <2>3 DEF JobMoves
<1>32. ASSUME JobCreated PROVE JobsInv'
  <2>1. JobsUI(ui', n)
    BY <1>32 DEF JobCreated, JobsInv
  <2>2. QED
    BY <1>25, <1>27, <1>32, <2>1 DEF JobCreated
<1>33. CASE UNCHANGED webVars
  BY <1>1, <1>7, <1>33 DEF webVars, JobsInv, Free
<1>34. QED
  BY <1>9, <1>10, <1>11, <1>12, <1>14, <1>15, <1>17, <1>18, <1>21, <1>22, <1>23, <1>29, <1>30,
     <1>31, <1>32, <1>33 DEF JobsNext

(* What is asked for and newest has none before it. *)
LEMMA NewestFirst ==
    ASSUME NEW n \in Nat, NEW match \in SUBSET (1..n), match # {}
    PROVE  \E j \in match : Cardinality({m \in match : m > j}) = 0
<1> DEFINE newer(j) == {m \in match : m > j}
           c == Cardinality(match)
           rank == [j \in match |-> Cardinality(newer(j))]
<1>1. IsFiniteSet(match) /\ c \in Nat /\ c # 0
  BY UpTo, FS_Subset, FS_CardinalityType, FS_EmptySet
<1>2. ASSUME NEW j \in match PROVE Cardinality(newer(j)) \in 0..(c - 1)
  <2>1. newer(j) \in SUBSET match /\ j \notin newer(j)
    OBVIOUS
  <2>2. /\ IsFiniteSet(newer(j)) /\ Cardinality(newer(j)) <= c
        /\ Cardinality(newer(j)) = c => newer(j) = match
    BY <1>1, <2>1, FS_Subset
  <2>3. Cardinality(newer(j)) \in Nat /\ Cardinality(newer(j)) # c
    BY <2>1, <2>2, FS_CardinalityType
  <2>4. QED
    BY <1>1, <2>2, <2>3
<1>3. ASSUME NEW i \in match, NEW j \in match, i < j
      PROVE  Cardinality(newer(i)) # Cardinality(newer(j))
  <2>a. i \in Nat /\ j \in Nat /\ \A m \in match : m \in Nat
    OBVIOUS
  <2>1. newer(j) \in SUBSET newer(i) /\ j \in newer(i) /\ j \notin newer(j)
    <3>1. \A m \in match : m > j => m > i
      BY <1>3, <2>a
    <3>2. j > i /\ ~(j > j)
      BY <1>3, <2>a
    <3>3. QED
      BY <3>1, <3>2
  <2>2. newer(i) \in SUBSET match
    OBVIOUS
  <2>3. IsFiniteSet(newer(i))
    BY <1>1, <2>2, FS_Subset
  <2>4. QED
    BY <2>1, <2>3, FS_Subset
<1>4. rank \in Injection(match, 0..(c - 1))
  <2>1. rank \in [match -> 0..(c - 1)]
    BY <1>2
  <2>2. \A i, j \in match : rank[i] = rank[j] => i = j
    <3>1. ASSUME NEW i \in match, NEW j \in match, rank[i] = rank[j] PROVE i = j
      <4>1. ~(i < j) /\ ~(j < i)
        BY <1>3, <3>1
      <4>2. QED
        BY <4>1
    <3>2. QED
      BY <3>1
  <2>3. QED
    BY <2>1, <2>2 DEF Injection, IsInjective
<1>5. IsFiniteSet(0..(c - 1)) /\ Cardinality(0..(c - 1)) = c
  BY <1>1, FS_Interval
<1>6. rank \in Surjection(match, 0..(c - 1))
  BY <1>4, <1>5, FS_Injection
<1>7. 0 \in 0..(c - 1)
  BY <1>1
<1>8. PICK j \in match : rank[j] = 0
  BY <1>6, <1>7 DEF Surjection
<1>9. QED
  BY <1>8

LEMMA PagerWorks == JobsInv => PagerLeadsBack
<1> SUFFICES ASSUME JobsInv, ~Placeholder, Listed = List(ListRequest), Listed.items = {},
                    Listed.total > 0
             PROVE  CanGoBack
  BY DEF PagerLeadsBack
<1>1. Total > 0
  BY DEF Total, HasList
<1>2. ASSUME ui.offset = 0 PROVE FALSE
  <2> DEFINE n == Len(srv.jobs)
             match == {j \in 1..n : ui.status = "all" \/ srv.jobs[j] = ui.status}
  <2>1. n \in Nat /\ PageSize \in Nat \ {0}
    BY JobsBounds DEF JobsInv
  <2> DEFINE page == {k \in match : Cardinality({m \in match : m > k}) \in 0..(0 + PageSize - 1)}
             items == {[id |-> j, status |-> srv.jobs[j]] : j \in page}
  <2>2. Listed.total = Cardinality(match) /\ Listed.items = items
    BY <1>2 DEF List, ListRequest
  <2>3. Cardinality(match) > 0
    BY <2>2
  <2>4. match \in SUBSET (1..n) /\ match # {}
    BY <2>3, FS_EmptySet
  <2>5. PICK j \in match : Cardinality({m \in match : m > j}) = 0
    BY <2>1, <2>4, NewestFirst
  <2>6. 0 \in 0..(0 + PageSize - 1)
    BY <2>1
  <2>7. j \in page
    BY <2>5, <2>6
  <2>8. items # {}
    BY <2>7
  <2>9. QED
    BY <2>2, <2>8
<1>3. QED
  BY <1>1, <1>2 DEF CanGoBack, PagerShown

LEMMA RowsMatch == JobsInv => RowsMatchRequest
<1> SUFFICES ASSUME JobsInv, ~Placeholder PROVE Listed.asked = ListRequest
  BY DEF RowsMatchRequest
<1>1. ListKey \in DOMAIN ui.query.cache /\ Listed = ui.query.cache[ListKey]
  BY DEF Placeholder, HasData, Listed
<1>2. Listed \in JobsAnswers(Len(srv.jobs))[ListKey] /\ ListKey \in Keys
  BY <1>1 DEF JobsInv, JobsUI, QueryIn, JobsAnswers
<1>3. Listed.asked = ListKey
  BY <1>2 DEF JobsAnswers
<1>4. QED
  BY <1>3 DEF ListKey, ListRequest

=============================================================================
