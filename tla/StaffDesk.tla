------------------------------ MODULE StaffDesk ------------------------------
(***************************************************************************)
(* What the manager or a staff member dictates in WhatsApp                 *)
(* (handle_staff_message in app/services/bill_agent.py): a bill, a payment *)
(* or another write is drafted, parked in _PENDING under the sender, shown *)
(* with a menu, and carried out on "haan" or a tap.  Each sender has one   *)
(* slot; messages of one sender are handled side by side, and the slot is  *)
(* this process's memory.                                                  *)
(***************************************************************************)
EXTENDS Naturals, FiniteSets

CONSTANTS
    MaxDictations, \* bound on the sender's messages
    MaxAtOnce,     \* bound on those handled at once
    MaxDrafts,     \* bound on what is parked
    MaxFaults      \* bound on restarts and failed writes

ASSUME DeskAssumption ==
    MaxDictations \in Nat /\ MaxAtOnce \in Nat /\ MaxDrafts \in Nat /\ MaxFaults \in Nat

Dictation == 1 .. MaxDictations

\* "note": an ETA, a problem or a relay awaiting its text.  slip: the paper
\* bill a draft is about, named by its first draft; an edit keeps it.
Draft == [id : 1 .. MaxDrafts, kind : {"bill", "pay", "note"}, slip : 1 .. MaxDrafts]

VARIABLES
    parked,    \* _PENDING[sender]: {} or the one draft
    drafted,   \* the drafts so far
    shown,     \* those whose menu reached the sender
    handling,  \* what each message's handler is doing
    effects,   \* what was carried out: the draft and the message that did it
    unclear,   \* history: bills whose order was made and then reported failed
    contested, \* history: slips claimed while an edit of them was being read
    faults

deskVars == <<parked, drafted, shown, handling, effects, unclear, contested, faults>>

----------------------------------------------------------------------------

Slot == {{}} \cup {{d} : d \in Draft}

Speech == {[say |-> s] : s \in {"slip", "pay", "task", "haan", "nahi"}}
Press  == [say : {"yes", "cancel"}, kind : {"bill", "pay"}]

Unheard == [at |-> "idle"]
Done == [at |-> "done"]

\* seen: the slot as the message found it, then the draft it is about.
Heard == [at : {"read"}, said : Speech \cup Press, seen : Slot]
Work  == [at : {"composing"}, kind : {"bill", "pay"}, seen : Slot]
         \cup [at : {"showing", "deciding", "creating"}, seen : Slot]

DeskTypeOK ==
    /\ parked \in Slot
    /\ drafted \subseteq Draft
    /\ shown \subseteq drafted
    /\ handling \in [Dictation -> {Unheard, Done} \cup Heard \cup Work]
    /\ effects \subseteq drafted \X Dictation
    /\ unclear \subseteq drafted
    /\ contested \subseteq 1 .. MaxDrafts
    /\ faults \in 0 .. MaxFaults

DeskInit ==
    /\ parked = {} /\ drafted = {} /\ shown = {}
    /\ handling = [m \in Dictation |-> Unheard]
    /\ effects = {}
    /\ unclear = {} /\ contested = {}
    /\ faults = 0

Slips(ds) == {d.slip : d \in ds}
Of(kind) == {d \in parked : d.kind = kind}
Doing(phase) == {m \in Dictation : handling[m].at = phase}

Goes(m, phase, ds) == handling' = [handling EXCEPT ![m] = [at |-> phase, seen |-> ds]]
Ends(m) == handling' = [handling EXCEPT ![m] = Done]

----------------------------------------------------------------------------

\* The top of handle_staff_message: the slot is read once, and a draft
\* past its lifetime is dropped.
Hear(m, said) ==
    /\ m = Cardinality(Dictation \ Doing("idle")) + 1
    /\ m <= MaxAtOnce + Cardinality(Doing("done"))
    /\ said \in Press => \E d \in shown : d.kind = said.kind
    /\ parked' \in {parked, {}}
    /\ handling' = [handling EXCEPT ![m] = [at |-> "read", said |-> said, seen |-> parked']]
    /\ UNCHANGED <<drafted, shown, effects, unclear, contested, faults>>

\* Any text is the answer a parked note waits for; an ETA stays parked until
\* its Save or Cancel button.
Noted(m) ==
    /\ handling[m].at = "read" /\ handling[m].said \in Speech
    /\ Of("note") # {}
    /\ parked' \in {{}, parked}
    /\ Ends(m)
    /\ UNCHANGED <<drafted, shown, effects, unclear, contested, faults>>

\* The model reads a slip or a payment with the slot as the message saw it.
Interpret(m) ==
    LET h == handling[m] IN
    /\ h.at = "read" /\ h.said.say \in {"slip", "pay"} /\ Of("note") = {}
    /\ handling' = [handling EXCEPT ![m] =
          [at |-> "composing", kind |-> IF h.said.say = "slip" THEN "bill" ELSE "pay", seen |-> h.seen]]
    /\ UNCHANGED <<parked, drafted, shown, effects, unclear, contested, faults>>

\* A task or order button (Delay, Problem) parks its note at once.  What is
\* parked replaces whatever the slot holds; a bill read beside a parked bill
\* is a change to it or a slip of its own, as the model sees it.
Park(m) ==
    LET h    == handling[m]
        id   == Cardinality(drafted) + 1
        kind == IF h.at = "composing" THEN h.kind ELSE "note"
    IN
    /\ \/ h.at = "composing"
       \/ h.at = "read" /\ h.said.say = "task"
    /\ id <= MaxDrafts
    /\ \E slip \in {id} \cup (IF kind = "bill" THEN Slips({d \in h.seen : d.kind = "bill"}) ELSE {}) :
          LET d == [id |-> id, kind |-> kind, slip |-> slip] IN
          /\ drafted' = drafted \cup {d}
          /\ parked' = {d}
          /\ Goes(m, "showing", {d})
    /\ UNCHANGED <<shown, effects, unclear, contested, faults>>

\* The menu, or its text, is sent; it may not arrive.  The model may also have
\* failed, or found another meaning in the words.
Show(m) ==
    /\ handling[m].at \in {"composing", "showing"}
    /\ \/ UNCHANGED shown
       \/ handling[m].at = "showing" /\ shown' = shown \cup handling[m].seen
    /\ Ends(m)
    /\ UNCHANGED <<parked, drafted, effects, unclear, contested, faults>>

\* A typed "haan" means the draft seen at the top; a tap, the one parked now
\* if it is of the menu's kind.  Other reads come in between.
Accept(m) ==
    LET h == handling[m] IN
    /\ h.at = "read"
    /\ \/ /\ h.said.say = "haan" /\ Of("note") = {}
          /\ IF h.seen = {} THEN Ends(m) ELSE Goes(m, "deciding", h.seen)
       \/ /\ h.said.say = "yes"
          /\ IF Of(h.said.kind) = {} THEN Ends(m) ELSE Goes(m, "deciding", Of(h.said.kind))
    /\ UNCHANGED <<parked, drafted, shown, effects, unclear, contested, faults>>

\* "nahi" empties the slot, whatever is in it by now, if the top saw a draft.
Refuse(m) ==
    LET h == handling[m] IN
    /\ h.at = "read"
    /\ \/ /\ h.said.say = "nahi" /\ Of("note") = {}
          /\ parked' = IF h.seen = {} THEN parked ELSE {}
       \/ /\ h.said.say = "cancel"
          /\ parked' = IF Of(h.said.kind) = {} THEN parked ELSE {}
    /\ Ends(m)
    /\ UNCHANGED <<drafted, shown, effects, unclear, contested, faults>>

Contest(ds) ==
    contested' = contested \cup (Slips(ds) \cap UNION {Slips(handling[n].seen) : n \in
        {k \in Doing("read") : handling[k].said.say = "slip"}
        \cup {k \in Doing("composing") : handling[k].kind = "bill"}})

\* Mutant: the draft seen is carried out even if it is no longer parked.
ClaimUnchecked(m) ==
    LET h == handling[m] IN
    /\ h.at = "deciding"
    /\ parked' = {}
    /\ Contest(h.seen)
    /\ Goes(m, "creating", h.seen)
    /\ UNCHANGED <<drafted, shown, effects, unclear, faults>>

\* Mutant: the draft stays parked while its order is being made.
ClaimLate(m) ==
    LET h == handling[m] IN
    /\ h.at = "deciding" /\ parked = h.seen
    /\ Contest(h.seen)
    /\ Goes(m, "creating", h.seen)
    /\ UNCHANGED <<parked, drafted, shown, effects, unclear, faults>>

\* Only the draft still parked is carried out, and it is taken out of the
\* slot before the first await.
Claim(m) ==
    LET h == handling[m] IN
    /\ h.at = "deciding" /\ parked = h.seen
    /\ parked' = {}
    /\ Contest(h.seen)
    /\ Goes(m, "creating", h.seen)
    /\ UNCHANGED <<drafted, shown, effects, unclear, faults>>

\* The draft is no longer active, or a line of the bill still has a question.
Decline(m) ==
    LET h == handling[m] IN
    /\ h.at = "deciding"
    /\ parked # h.seen \/ \E d \in h.seen : d.kind = "bill"
    /\ Ends(m)
    /\ UNCHANGED <<parked, drafted, shown, effects, unclear, contested, faults>>

\* The order (its advance is a commit of its own, after it), the payment or
\* the other write is committed.
CarryOut(m) ==
    /\ handling[m].at = "creating"
    /\ effects' = effects \cup {<<d, m>> : d \in handling[m].seen}
    /\ Ends(m)
    /\ UNCHANGED <<parked, drafted, shown, unclear, contested, faults>>

\* The write raises, before its commit or after it.  A bill goes back into an
\* empty slot; a payment or another write does not.
Fail(m) ==
    LET bill == {d \in handling[m].seen : d.kind = "bill"} IN
    /\ faults < MaxFaults /\ faults' = faults + 1
    /\ handling[m].at = "creating"
    /\ parked' = IF parked = {} THEN bill ELSE parked
    /\ Ends(m)
    /\ \/ UNCHANGED <<effects, unclear>>
       \/ effects' = effects \cup {<<d, m>> : d \in handling[m].seen} /\ unclear' = unclear \cup bill
    /\ UNCHANGED <<drafted, shown, contested>>

\* The process restarts: the slot is gone; the sender still has the menus.
Restart ==
    /\ faults < MaxFaults /\ faults' = faults + 1
    /\ parked' = {}
    /\ handling' = [m \in Dictation |-> IF handling[m].at = "idle" THEN Unheard ELSE Done]
    /\ UNCHANGED <<drafted, shown, effects, unclear, contested>>

DeskNext ==
    \/ \E m \in Dictation :
          \/ \E said \in Speech \cup Press : Hear(m, said)
          \/ Noted(m) \/ Interpret(m) \/ Park(m) \/ Show(m)
          \/ Accept(m) \/ Refuse(m) \/ Claim(m) \/ Decline(m)
          \/ CarryOut(m) \/ Fail(m)
    \/ Restart

DeskSpec == DeskInit /\ [][DeskNext]_deskVars

----------------------------------------------------------------------------

Times(d) == Cardinality({e \in effects : e[1] = d})

\* "A double-tapped haan must not create a second order": a draft is carried
\* out once, and one paper slip becomes one order, however often it is
\* corrected, unless a correction was being read when the slip was claimed, or
\* the draft was made and reported failed.
OneOrderPerSlip ==
    /\ \A d \in drafted \ unclear : Times(d) <= 1
    /\ \A e, f \in effects :
          (e # f /\ e[1].kind = "bill" /\ e[1].slip = f[1].slip) =>
             e[1].slip \in contested \cup Slips(unclear)

=============================================================================
