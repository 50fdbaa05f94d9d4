-------------------------------- MODULE Page --------------------------------
(***************************************************************************)
(* What the pages of the web client have in common.  A page keeps its      *)
(* state in ui, whose field page says which page is mounted; srv is what   *)
(* the server holds for it.  Reads go through a query of TanStack Query, a *)
(* request in two steps: the server answers from its state of that moment, *)
(* and the answer arrives, or is lost, later.                              *)
(***************************************************************************)
EXTENDS Naturals, FiniteSets, SequencesExt

CONSTANTS
    MaxChanges,   \* bounds the model: what happens elsewhere, on a page
    MaxLosses     \* bounds the model: requests and answers that are lost

ASSUME PageBounds == MaxChanges \in Nat /\ MaxLosses \in Nat

VARIABLES ui, srv, left

webVars == <<ui, srv, left>>

(* What is left of the bounds: what the user of the page may still do,     *)
(* what may still happen elsewhere and be lost.                            *)
Bounds(acts) == [acts |-> acts, changes |-> MaxChanges, losses |-> MaxLosses]

(* Who pays for a step. *)
Act    == left.acts > 0 /\ left' = [left EXCEPT !.acts = @ - 1]
Change == left.changes > 0 /\ left' = [left EXCEPT !.changes = @ - 1]
Loss   == left.losses > 0 /\ left' = [left EXCEPT !.losses = @ - 1]
Free   == UNCHANGED left

-----------------------------------------------------------------------------
(* A query: what is cached for each key, the requests in flight, the keys  *)
(* to be fetched again when they are on the screen, and those whose last   *)
(* fetch failed for good.                                                  *)

NoData == [k \in {} |-> 0]

NewQuery == [cache |-> NoData, fetching |-> {}, due |-> {}, failed |-> {}]

HasData(q, key) == key \in DOMAIN q.cache

Fetching(q, key) == \E f \in q.fetching : f.key = key

(* The key on the screen is fetched when it has no data and when it was    *)
(* invalidated.                                                            *)
NeedsFetch(q, key) ==
    /\ ~Fetching(q, key)
    /\ key \in q.due \/ (~HasData(q, key) /\ key \notin q.failed)

StartFetch(q, key, answer) ==
    [q EXCEPT !.fetching = @ \cup {[key |-> key, answer |-> answer, tries |-> 1]},
              !.due = @ \ {key},
              !.failed = @ \ {key}]

(* An answer is the data of its key, and the key is valid again. *)
Deliver(q, f) ==
    [q EXCEPT !.cache = [k \in DOMAIN @ \cup {f.key} |-> IF k = f.key THEN f.answer ELSE @[k]],
              !.fetching = @ \ {f},
              !.due = @ \ {f.key}]

(* A fetch that fails is repeated once (retry: 1); what was cached stays. *)
Fail(q, f, again) ==
    IF f.tries = 1
    THEN [q EXCEPT !.fetching = (@ \ {f}) \cup {[f EXCEPT !.answer = again, !.tries = 2]}]
    ELSE [q EXCEPT !.fetching = @ \ {f}, !.failed = @ \cup {f.key}]

(* Mutant: what is cached is believed. *)
InvalidateNothing(q, key) == q

(* invalidateQueries while key is on the screen: its fetch is abandoned    *)
(* for a new one, unless it is the first, which goes on.                   *)
Invalidate(q, key) ==
    [q EXCEPT !.fetching = {f \in @ : f.key = key => ~HasData(q, key)},
              !.due = @ \cup DOMAIN q.cache \cup q.failed]

(* isPending of a useMutation hook: a button that waits for it is disabled. *)
Pending(sent, op) == \E m \in sent : m.op = op /\ m.state \in {"sent", "ok", "error"}

=============================================================================
