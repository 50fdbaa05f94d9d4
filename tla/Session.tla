------------------------------- MODULE Session -------------------------------
(***************************************************************************)
(* Logging in and out with the client open in two tabs.  The token is in   *)
(* the browser's localStorage, which the tabs share; each tab shows the    *)
(* user of the token it read last.  Every request carries the token stored *)
(* when it was sent, and every answer 401, whatever the request was, makes *)
(* the client drop the stored token and load the login page.               *)
(***************************************************************************)
EXTENDS Page

CONSTANTS
    SessionActs,   \* bounds the model: what the users of the tabs do
    MaxTokens      \* bounds the model: tokens issued

ASSUME SessionBounds == SessionActs \in Nat

Tabs == 1..2

(* A token is the number of its login; 0 stands for none. *)
SessionInit ==
    /\ ui = [page |-> "session", stored |-> 1, requests |-> {},
             tabs |-> [t \in Tabs |-> [at |-> "app", shown |-> 1, event |-> FALSE]]]
    /\ srv = [issued |-> 1, expired |-> {}]
    /\ left = Bounds(SessionActs)

OnSession == ui.page = "session"

-----------------------------------------------------------------------------
(* localStorage: a change is an event in the other tabs. *)

Store(u, t, token) ==
    [u EXCEPT !.stored = token,
              !.tabs = [s \in Tabs |->
                          [u.tabs[s] EXCEPT !.event = @ \/ (s # t /\ token # u.stored)]]]

(* notify: the tab that changed the token reads it again. *)
Notify(u, t) == [u EXCEPT !.tabs[t].shown = u.stored]

StorageEvent(t) ==
    /\ OnSession /\ ui.tabs[t].event
    /\ ui' = Notify([ui EXCEPT !.tabs[t].event = FALSE], t)
    /\ Free /\ UNCHANGED srv

(* window.location.href = "/login": the page is loaded anew. *)
Leave(u, t) == [u EXCEPT !.tabs[t].at = "leaving"]

Load(t) ==
    /\ OnSession /\ ui.tabs[t].at = "leaving"
    /\ ui' = [ui EXCEPT !.tabs[t] = [at |-> "login", shown |-> ui.stored, event |-> FALSE],
                        !.requests = {r \in @ : r.tab # t}]
    /\ Free /\ UNCHANGED srv

(* Mutant: the tab that logs in is left to find out. *)
LoginSilently(u, t, token) == [Store(u, t, token) EXCEPT !.tabs[t].at = "app"]

Login(u, t, token) == Notify([Store(u, t, token) EXCEPT !.tabs[t].at = "app"], t)

Logout(t) ==
    /\ OnSession /\ ui.tabs[t].at = "app" /\ ui.tabs[t].shown # 0
    /\ ui' = Leave(Notify(Store(ui, t, 0), t), t)
    /\ Act /\ UNCHANGED srv

(* The login page can be left and entered by its address. *)
Visit(t) ==
    /\ OnSession /\ ui.tabs[t].at \in {"login", "app"}
    /\ ui' = [ui EXCEPT !.tabs[t].at = IF @ = "login" THEN "app" ELSE "login",
                        !.tabs[t].shown = ui.stored,
                        !.requests = {r \in @ : r.tab # t}]
    /\ Act /\ UNCHANGED srv

-----------------------------------------------------------------------------
(* Requests.  right says whether the password typed is the account's.      *)

Ask(t, op, right) ==
    /\ ~\E r \in ui.requests : r.tab = t /\ r.op = op
    /\ ui' = [ui EXCEPT !.requests = @ \cup {[tab |-> t, op |-> op, right |-> right,
                                              token |-> ui.stored, answer |-> "none"]}]
    /\ Act /\ UNCHANGED srv

At(t, page) == OnSession /\ ui.tabs[t].at = page

SubmitLogin(t)    == At(t, "login") /\ \E right \in BOOLEAN : Ask(t, "login", right)
SubmitPassword(t) == At(t, "app") /\ \E right \in BOOLEAN : Ask(t, "password", right)
AskData(t)        == At(t, "app") /\ Ask(t, "data", TRUE)

Authorized(token) == token # 0 /\ token \notin srv.expired

(* POST /auth/login takes no token; the others go through JWTAuth first.   *)
(* ChangePassword answers 401 when the present password is wrong.          *)
Answer(r) == IF r.right /\ (r.op = "login" \/ Authorized(r.token)) THEN "ok" ELSE "401"

Serve ==
    /\ OnSession
    /\ \E r \in ui.requests :
         LET issues == r.op = "login" /\ Answer(r) = "ok"
         IN /\ r.answer = "none"
            /\ issues => srv.issued < MaxTokens
            /\ srv' = [srv EXCEPT !.issued = IF issues THEN @ + 1 ELSE @]
            /\ ui' = [ui EXCEPT !.requests = (@ \ {r}) \cup
                        {[r EXCEPT !.answer = Answer(r),
                                   !.token = IF issues THEN srv.issued + 1 ELSE @]}]
    /\ Free

(* The interceptor of the client, then the page that asked. *)
Receive ==
    /\ OnSession
    /\ \E r \in ui.requests :
         LET done == [ui EXCEPT !.requests = @ \ {r}]
         IN /\ r.answer # "none"
            /\ ui' = IF r.answer = "401" THEN Leave(Store(done, r.tab, 0), r.tab)
                     ELSE IF r.op = "login" THEN Login(done, r.tab, r.token) ELSE done
    /\ Free /\ UNCHANGED srv

Expire ==
    /\ OnSession
    /\ \E k \in 1..srv.issued \ srv.expired : srv' = [srv EXCEPT !.expired = @ \cup {k}]
    /\ Change /\ UNCHANGED ui

-----------------------------------------------------------------------------
SessionNext ==
    \/ \E t \in Tabs : \/ StorageEvent(t) \/ Load(t) \/ Logout(t) \/ Visit(t)
                       \/ SubmitLogin(t) \/ SubmitPassword(t) \/ AskData(t)
    \/ Serve \/ Receive \/ Expire

(* The browser delivers its events and loads its pages. *)
SessionStep == \E t \in Tabs : StorageEvent(t) \/ Load(t)

SessionSpec == SessionInit /\ [][SessionNext]_webVars /\ WF_webVars(SessionStep)

-----------------------------------------------------------------------------
(* Properties *)

(* Every tab comes to show the user of the stored token, wherever the      *)
(* login, the logout or the 401 happened.                                  *)
Disagrees(t) == OnSession /\ ui.tabs[t].shown # ui.stored

TabsAgree == \A t \in Tabs : Disagrees(t) ~> ~Disagrees(t)

(* The forms that ask for a password show "Email ou senha inválidos." and  *)
(* "senha atual incorreta" when it is wrong: a session that has not        *)
(* expired ends when its user logs out, not otherwise.                     *)
SessionEndsForCause ==
    [][OnSession /\ Authorized(ui.stored) /\ ui'.stored = 0 => \E t \in Tabs : Logout(t)]_webVars

=============================================================================
