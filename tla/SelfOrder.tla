------------------------------ MODULE SelfOrder -----------------------------
(***************************************************************************)
(* /billcreation: a customer makes an order on the web page.  A signed     *)
(* link submits it; the plain page parks a draft in the process's memory   *)
(* and gives a code, and the WhatsApp message with the code takes it out.  *)
(* Either way place_order looks for the same order just made.              *)
(***************************************************************************)
EXTENDS Integers, Sequences

CONSTANTS
    Tap,             \* submits and messages being handled
    List,            \* what can be on an order: its lines, priced by the rate card
    Code,            \* order codes save_draft hands out
    MaxDrafts,       \* bound on the drafts
    MaxWebOrders,    \* bound on the orders
    MaxUpsets        \* failed creations, evicted drafts and restarts

ASSUME SelfOrderAssumption == {MaxDrafts, MaxWebOrders, MaxUpsets} \subseteq Nat

VARIABLES
    drafts,          \* _DRAFTS: code -> list; each draft has its number
    issued,          \* history: drafts saved so far
    web,             \* orders of the customer noted "Customer self-order", by created_at:
                     \* when the transaction began that makes the order or fails
    tap,             \* local state of the requests
    upsets           \* how many of those there were

selfVars == <<drafts, issued, web, tap, upsets>>

ByLink == 0
Untapped == [at |-> "idle", list |-> {}, draft |-> ByLink, since |-> {}, row |-> 0]

SelfTypeOK ==
    /\ DOMAIN drafts \subseteq Code /\ issued \in 0..MaxDrafts
    /\ drafts \in [DOMAIN drafts -> [list: List, number: 1..issued]]
    /\ web \in Seq([list: List, draft: 0..issued, since: SUBSET Nat, made: BOOLEAN,
                    recent: BOOLEAN])
    /\ Len(web) <= MaxWebOrders
    /\ tap \in [Tap -> [at: {"idle", "recent", "create"}, list: List \cup {{}},
                        draft: 0..issued, since: SUBSET Nat, row: 0..Len(web)]]
    /\ upsets \in 0..MaxUpsets

SelfInit ==
    /\ drafts = <<>> /\ issued = 0 /\ web = <<>>
    /\ tap = [q \in Tap |-> Untapped] /\ upsets = 0

Without(f, c) == [d \in DOMAIN f \ {c} |-> f[d]]

\* A request that will call place_order, and the orders it comes after.
Comes(q, l, n) ==
    tap' = [tap EXCEPT ![q] = [at |-> "recent", list |-> l, draft |-> n, row |-> 0,
                               since |-> {i \in DOMAIN web : web[i].made}]]

----------------------------------------------------------------------------
\* POST /billcreation/api/order with the token of a customer.
SubmitLink(q, l) ==
    /\ tap[q].at = "idle"
    /\ Comes(q, l, ByLink)
    /\ UNCHANGED <<drafts, issued, web, upsets>>

\* The same from the plain page: a draft, and a code no other draft has now.
SaveDraft(l, c) ==
    /\ issued < MaxDrafts /\ c \notin DOMAIN drafts
    /\ drafts' = [d \in DOMAIN drafts \cup {c} |->
                     IF d = c THEN [list |-> l, number |-> issued + 1] ELSE drafts[d]]
    /\ issued' = issued + 1
    /\ UNCHANGED <<web, tap, upsets>>

\* Mutant of AfterTake: the draft stays until it expires.
AfterRead(c) == drafts
\* take_draft pops, without an await in between.
AfterTake(c) == Without(drafts, c)

\* handle_whatsapp_code: the customer may send the message again and again.  A
\* code with no draft makes no order here: the assistant or a notice answers.
TakeCode(q, c) ==
    /\ tap[q].at = "idle" /\ c \in DOMAIN drafts
    /\ drafts' = AfterTake(c)
    /\ Comes(q, drafts[c].list, drafts[c].number)
    /\ UNCHANGED <<issued, web, upsets>>

\* The customer's web orders of ten minutes that are still to be picked up.
Waiting == {i \in DOMAIN web : web[i].made /\ web[i].recent}

\* Mutant of Recent: the oldest instead of the latest.
Oldest(l) == \E i \in Waiting : web[i].list = l /\ \A j \in Waiting : i <= j
Recent(l) == \E i \in Waiting : web[i].list = l /\ \A j \in Waiting : j <= i

\* The customer's row is stored and committed first.  Then, in the transaction
\* that creates the order: if the latest has the same lines, it is answered
\* again and none is made.
LookRecent(q) ==
    /\ tap[q].at = "recent"
    /\ \/ /\ Recent(tap[q].list)
          /\ tap' = [tap EXCEPT ![q] = Untapped] /\ UNCHANGED web
       \/ /\ ~Recent(tap[q].list) /\ Len(web) < MaxWebOrders
          /\ web' = Append(web, [list |-> tap[q].list, draft |-> tap[q].draft,
                                 since |-> tap[q].since, made |-> FALSE, recent |-> TRUE])
          /\ tap' = [tap EXCEPT ![q] = [at |-> "create", list |-> {}, draft |-> ByLink,
                                       since |-> {}, row |-> Len(web) + 1]]
    /\ UNCHANGED <<drafts, issued, upsets>>

\* create_order commits.
CreateWeb(q) ==
    /\ tap[q].at = "create"
    /\ web' = [web EXCEPT ![tap[q].row].made = TRUE]
    /\ tap' = [tap EXCEPT ![q] = Untapped]
    /\ UNCHANGED <<drafts, issued, upsets>>

Upset == upsets < MaxUpsets /\ upsets' = upsets + 1

\* The plan's limit or the database ends the request; a draft it took is gone.
CreateFails(q) ==
    /\ Upset
    /\ tap[q].at = "create"
    /\ tap' = [tap EXCEPT ![q] = Untapped]
    /\ UNCHANGED <<drafts, issued, web>>

----------------------------------------------------------------------------
\* _sweep: a draft is a day old, or the oldest of too many.
SweepDraft(c) ==
    /\ Upset
    /\ c \in DOMAIN drafts
    /\ drafts' = Without(drafts, c)
    /\ UNCHANGED <<issued, web, tap>>

\* A restart forgets the drafts and the requests; only the orders are stored.
RestartShop ==
    /\ Upset
    /\ drafts' = <<>> /\ tap' = [q \in Tap |-> Untapped]
    /\ UNCHANGED <<issued, web>>

\* The staff pick the clothes up or cancel, and the bill replaces the lines.
MoveWeb(i) ==
    /\ i \in Waiting
    /\ web' = [web EXCEPT ![i].recent = FALSE]
    /\ UNCHANGED <<drafts, issued, tap, upsets>>

\* Ten minutes pass for an order and so for every older one.
AgeWeb(i) ==
    /\ web[i].recent
    /\ web' = [j \in DOMAIN web |-> IF j <= i THEN [web[j] EXCEPT !.recent = FALSE] ELSE web[j]]
    /\ UNCHANGED <<drafts, issued, tap, upsets>>

SelfNext ==
    \/ \E q \in Tap :
          \/ \E l \in List : SubmitLink(q, l)
          \/ \E c \in Code : TakeCode(q, c)
          \/ LookRecent(q) \/ CreateWeb(q) \/ CreateFails(q)
    \/ \E l \in List, c \in Code : SaveDraft(l, c)
    \/ \E c \in Code : SweepDraft(c)
    \/ RestartShop
    \/ \E i \in DOMAIN web : MoveWeb(i) \/ AgeWeb(i)

----------------------------------------------------------------------------
\* One draft makes one order at most, however often the message with its code
\* is sent and whatever fails (take_draft).
OneOrderPerDraft ==
    \A i, j \in {k \in DOMAIN web : web[k].made} :
        web[i].draft = web[j].draft /\ web[i].draft # ByLink => i = j

\* An order of the same lines, still new and still to be picked up, is made
\* again only by a request that overlapped the one that made it, or when one of
\* other lines was begun between the two (place_order compares with the order
\* created last only, unlocked).
SameOrderAnswered ==
    \A i, j \in {k \in DOMAIN web : web[k].made} :
        /\ web[i].list = web[j].list
        /\ web[i].recent /\ i \in web[j].since
        => \E k \in i + 1..j - 1 : web[k].made /\ web[k].list # web[i].list

OneOrderPerList == OneOrderPerDraft /\ SameOrderAnswered
=============================================================================
