------------------------------- MODULE Nudges -------------------------------
(***************************************************************************)
(* The proactive messages to one enquirer: the lead ladder of leads.py and *)
(* the conversation follow-ups of engage.py.  Both run in the hourly tick, *)
(* on rows loaded before the sends, while the customer writes, orders,     *)
(* opts out or is taken over.  Marketing autonomy is auto, the hour is day *)
(* and the message is a customer's enquiry.                                *)
(***************************************************************************)
EXTENDS Integers, FiniteSets, FiniteSetsExt

CONSTANTS
    Ticker,          \* schedulers whose hourly tick may be running
    Rungs,           \* steps of _LADDER, 4 in the code
    MaxNudges,       \* engage_max_followups
    MaxTalk,         \* messages the customer writes
    MaxShifts        \* deaths and changes of standing

ASSUME NudgeAssumption ==
    /\ {MaxTalk, MaxShifts} \subseteq Nat /\ {Rungs, MaxNudges} \subseteq Nat \ {0}
    /\ IsFiniteSet(Ticker)

VARIABLES
    lead,            \* the leads row: stage, followup_count, next_followup_at has come
    standing,        \* what check_marketing_eligible and the thread's pause say
    talk,            \* which message last_message_at is of
    quietIn,         \* the customer has not written for engage_gap_hours
    quietOut,        \* nor has anything been sent to the customer
    nudgeRows,       \* conversation rows of follow-ups, by the message they followed
    nudgeKeys,       \* keys in sent_events
    ticker,          \* local state of the ticks
    enquiry,         \* the request that notes an enquiry or a conversion
    got,             \* history: copies sent, by key, as far as their sender knows
    shifts           \* how many of those there were

nudgeVars == <<lead, standing, talk, quietIn, quietOut, nudgeRows, nudgeKeys, ticker, enquiry, got,
               shifts>>

Stages     == {"none", "CONTACTED", "INTERESTED", "CONVERTED", "LOST"}
OpenStages == {"CONTACTED", "INTERESTED"}
\* "out" is opted out, inactive or gone; "later" a frequency cap or a complaint.
Standings  == {"open", "paused", "later", "out", "ordered"}

\* lead-followup:{lead}:{count} is <<0, count>>; a follow-up's key is its
\* conversation and its attempt.  Each ticker can run ahead of the count by one.
Rung(k) == <<0, k>>
Keys == {Rung(k) : k \in 0..Rungs - 1}
        \cup (1..MaxTalk) \X (1..MaxNudges + Cardinality(Ticker))

Asleep == [at |-> "idle", count |-> 0, seen |-> 0, key |-> Rung(0)]

NudgeTypeOK ==
    /\ lead \in [stage: Stages, count: 0..Rungs, due: BOOLEAN]
    /\ standing \in Standings /\ talk \in 0..MaxTalk /\ {quietIn, quietOut} \subseteq BOOLEAN
    /\ nudgeRows \in [1..MaxTalk -> Nat] /\ nudgeKeys \subseteq Keys
    /\ ticker \in [Ticker ->
         [at: {"idle", "gate", "look", "compose", "claim", "offer", "count", "release", "postpone"},
          count: 0..Rungs, seen: 0..MaxTalk, key: Keys]]
    /\ enquiry \in {"idle", "wrote", "converting"}
    /\ got \in [Keys -> Nat] /\ shifts \in 0..MaxShifts

NudgeInit ==
    /\ lead = [stage |-> "none", count |-> 0, due |-> FALSE] /\ standing = "open" /\ talk = 0
    /\ quietIn = TRUE /\ quietOut = TRUE /\ nudgeRows = [n \in 1..MaxTalk |-> 0]
    /\ nudgeKeys = {} /\ ticker = [w \in Ticker |-> Asleep] /\ enquiry = "idle"
    /\ got = [k \in Keys |-> 0] /\ shifts = 0

enquirer == <<standing, talk, quietIn>>
sends    == <<quietOut, nudgeRows, got>>

----------------------------------------------------------------------------
(* The customer, and the requests that write the lead.                     *)

\* One request at a time: two that overlap write the same values.
Writes ==
    /\ enquiry = "idle" /\ talk < MaxTalk
    /\ talk' = talk + 1 /\ quietIn' = FALSE
    /\ enquiry' = "wrote"
    /\ UNCHANGED <<lead, standing, nudgeKeys, ticker, sends, shifts>>

\* note_inquiry, unless the customer opted out or has an order: a reply re-opens
\* a contacted or lost lead and puts its next step off.
NoteInquiry ==
    /\ enquiry = "wrote"
    /\ lead' = IF standing \in {"out", "ordered"} THEN lead
               ELSE [lead EXCEPT !.stage = CASE @ = "none" -> "CONTACTED"
                                             [] @ \in {"CONTACTED", "LOST"} -> "INTERESTED"
                                             [] OTHER -> @,
                                 !.due = FALSE]
    /\ enquiry' = "idle"
    /\ UNCHANGED <<enquirer, nudgeKeys, ticker, sends, shifts>>

\* The assistant's answer counts as something sent.
AnswerReply ==
    /\ enquiry = "idle" /\ ~quietIn
    /\ quietOut' = FALSE
    /\ UNCHANGED <<lead, enquirer, nudgeRows, nudgeKeys, ticker, enquiry, got, shifts>>

Orders ==
    /\ enquiry = "idle" /\ talk > 0 /\ standing \notin {"ordered", "out"}
    /\ standing' = "ordered" /\ enquiry' = "converting"
    /\ UNCHANGED <<lead, talk, quietIn, nudgeKeys, ticker, sends, shifts>>

MarkConverted ==
    /\ enquiry = "converting"
    /\ lead' = IF lead.stage = "none" THEN lead
               ELSE [lead EXCEPT !.stage = "CONVERTED", !.due = FALSE]
    /\ enquiry' = "idle"
    /\ UNCHANGED <<enquirer, nudgeKeys, ticker, sends, shifts>>

Shift == shifts < MaxShifts /\ shifts' = shifts + 1

Turns(s) ==
    /\ Shift
    /\ standing # "ordered" /\ standing' = s
    /\ UNCHANGED <<lead, talk, quietIn, nudgeKeys, ticker, enquiry, sends>>

\* next_followup_at comes.
ComesDue ==
    /\ lead.stage \in OpenStages
    /\ lead' = [lead EXCEPT !.due = TRUE]
    /\ UNCHANGED <<enquirer, nudgeKeys, ticker, enquiry, sends, shifts>>

\* The gap of hours passes, longer than one customer takes a tick.
HoursPass ==
    /\ \A w \in Ticker : ticker[w].at \in {"idle", "gate", "look"}
    /\ quietIn' = TRUE /\ quietOut' = TRUE
    /\ UNCHANGED <<lead, standing, talk, nudgeRows, nudgeKeys, ticker, enquiry, got, shifts>>

----------------------------------------------------------------------------
(* run_lead_followups.                                                     *)

\* The due leads are loaded together, before the first of them is handled.
LeadTick(w) ==
    /\ ticker[w].at = "idle" /\ lead.stage \in OpenStages /\ lead.due
    /\ ticker' = [ticker EXCEPT ![w].at = "gate", ![w].count = lead.count]
    /\ UNCHANGED <<lead, enquirer, nudgeKeys, enquiry, sends, shifts>>

\* Mutant of Climbs: one step more than the ladder has.
ClimbsOn(w) == ticker[w].count <= Rungs
Climbs(w)   == ticker[w].count < Rungs

\* The customer is read again; a stage or a date is written over the row as it
\* is by now.  Only a customer in good standing goes on to the claim.
LeadGate(w) ==
    LET closes(s) == lead' = [lead EXCEPT !.stage = s, !.due = FALSE] IN
    /\ ticker[w].at = "gate"
    /\ IF Climbs(w) /\ standing = "open"
       THEN /\ ticker' = [ticker EXCEPT ![w] =
                               [Asleep EXCEPT !.at = "claim", !.key = Rung(ticker[w].count)]]
            /\ UNCHANGED lead
       ELSE /\ ticker' = [ticker EXCEPT ![w] = Asleep]
            /\ CASE ~Climbs(w) \/ standing = "out" -> closes("LOST")
                 [] Climbs(w) /\ standing = "ordered" -> closes("CONVERTED")
                 [] OTHER -> lead' = [lead EXCEPT !.due = FALSE]
    /\ UNCHANGED <<enquirer, nudgeKeys, enquiry, sends, shifts>>

\* The send is recorded: the next rung's date, or the end of the ladder.
CountRung(w) ==
    LET n == ticker[w].key[2] + 1 IN
    /\ ticker[w].at = "count"
    /\ lead' = [lead EXCEPT !.count = n, !.due = FALSE, !.stage = IF n = Rungs THEN "LOST" ELSE @]
    /\ ticker' = [ticker EXCEPT ![w] = Asleep]
    /\ UNCHANGED <<enquirer, nudgeKeys, enquiry, sends, shifts>>

\* A refused rung is tried again in an hour.
Postpone(w) ==
    /\ ticker[w].at = "postpone"
    /\ lead' = [lead EXCEPT !.due = FALSE]
    /\ ticker' = [ticker EXCEPT ![w] = Asleep]
    /\ UNCHANGED <<enquirer, nudgeKeys, enquiry, sends, shifts>>

----------------------------------------------------------------------------
(* run_conversation_followups.                                             *)

\* The candidates: quiet for the gap, in good standing, window still open.
EngageTick(w) ==
    /\ ticker[w].at = "idle" /\ talk > 0 /\ quietIn /\ standing # "out"
    /\ ticker' = [ticker EXCEPT ![w].at = "look"]
    /\ UNCHANGED <<lead, enquirer, nudgeKeys, enquiry, sends, shifts>>

\* _followups_since_reply.
Since(n) == MapThenSumSet(LAMBDA m : nudgeRows[m], n..MaxTalk)

\* Mutant of Nudged: the limit is compared the wrong way round the edge.
NudgedPast == Since(talk) > MaxNudges
Nudged     == Since(talk) >= MaxNudges

\* _skip: the customer is read again, with the message the count starts from.
\* Only an order that is still open and younger than that message counts.
Skip(w) ==
    LET spared == standing \in {"out", "paused"} \/ Nudged \/ ~quietOut IN
    /\ ticker[w].at = "look"
    /\ \/ /\ spared \/ standing = "ordered"
          /\ ticker' = [ticker EXCEPT ![w] = Asleep]
       \/ /\ ~spared
          /\ ticker' = [ticker EXCEPT ![w] = [@ EXCEPT !.at = "compose", !.seen = talk]]
    /\ UNCHANGED <<lead, enquirer, nudgeKeys, enquiry, sends, shifts>>

\* The model writes for this attempt, counted anew but from the message seen.
Compose(w) ==
    /\ ticker[w].at = "compose"
    /\ ticker' = [ticker EXCEPT ![w] =
           [Asleep EXCEPT !.at = "claim",
                          !.key = <<ticker[w].seen, Since(ticker[w].seen) + 1>>]]
    /\ UNCHANGED <<lead, enquirer, nudgeKeys, enquiry, sends, shifts>>

----------------------------------------------------------------------------
(* Both: claim, send, and give the claim back.                             *)

OnLadder(w) == ticker[w].key[1] = 0

\* Mutant of NudgeTaken: the key is inserted, but not unique.
NudgeNeverTaken(w) == FALSE
NudgeTaken(w)      == ticker[w].key \in nudgeKeys

ClaimNudge(w) ==
    /\ ticker[w].at = "claim"
    /\ nudgeKeys' = nudgeKeys \cup {ticker[w].key}
    /\ ticker' = [ticker EXCEPT ![w] = IF NudgeTaken(w) THEN Asleep ELSE [@ EXCEPT !.at = "offer"]]
    /\ UNCHANGED <<lead, enquirer, enquiry, sends, shifts>>

\* The outbound policy asks once more after its pacing; a pause or an order it
\* does not look at.
NudgeAccepted(w) ==
    /\ ticker[w].at = "offer" /\ standing \notin {"out", "later"}
    /\ got' = [got EXCEPT ![ticker[w].key] = @ + 1]
    /\ quietOut' = FALSE
    /\ nudgeRows' = IF OnLadder(w) THEN nudgeRows ELSE [nudgeRows EXCEPT ![talk] = @ + 1]
    /\ ticker' = [ticker EXCEPT ![w] = IF OnLadder(w) THEN [@ EXCEPT !.at = "count"] ELSE Asleep]
    /\ UNCHANGED <<lead, enquirer, nudgeKeys, enquiry, shifts>>

\* Refused, or taken for it: an answer that is lost, a row that cannot be stored.
NudgeRefused(w) ==
    /\ ticker[w].at = "offer"
    /\ ticker' = [ticker EXCEPT ![w].at = "release"]
    /\ UNCHANGED <<lead, enquirer, nudgeKeys, enquiry, sends, shifts>>

ReleaseNudge(w) ==
    /\ ticker[w].at = "release"
    /\ nudgeKeys' = nudgeKeys \ {ticker[w].key}
    /\ ticker' = [ticker EXCEPT ![w] =
           IF OnLadder(w) THEN [@ EXCEPT !.at = "postpone"] ELSE Asleep]
    /\ UNCHANGED <<lead, enquirer, enquiry, sends, shifts>>

\* The process goes down, or an exception ends the lead job; the claim stays.
TickDies(w) ==
    /\ Shift
    /\ ticker[w].at # "idle"
    /\ ticker' = [ticker EXCEPT ![w] = Asleep]
    /\ UNCHANGED <<lead, enquirer, nudgeKeys, enquiry, sends>>

NudgeNext ==
    \/ Writes \/ NoteInquiry \/ AnswerReply \/ Orders \/ MarkConverted
    \/ ComesDue \/ HoursPass \/ \E s \in Standings \ {"ordered"} : Turns(s)
    \/ \E w \in Ticker :
          \/ LeadTick(w) \/ LeadGate(w) \/ CountRung(w) \/ Postpone(w)
          \/ EngageTick(w) \/ Skip(w) \/ Compose(w)
          \/ ClaimNudge(w) \/ NudgeAccepted(w) \/ NudgeRefused(w) \/ ReleaseNudge(w)
          \/ TickDies(w)

----------------------------------------------------------------------------
\* A lead gets each rung of the ladder, and a silent conversation each of its
\* follow-ups, once: a second copy only after one that looked failed (leads.py
\* and engage.py claim before the send, whatever rows they loaded).
EachOnce == \A k \in Keys : got[k] <= 1

\* No rung is skipped, although ticks write the count from an older row.
NoRungSkipped ==
    \A k \in 1..Rungs - 1 : got[Rung(k)] > 0 => got[Rung(k - 1)] > 0

\* The number of follow-ups to one message stays engage_max_followups; each
\* further tick running at the time adds one at most (the limit and the attempt
\* are two counts).
NudgesCapped ==
    \A k \in Keys : k[1] > 0 /\ got[k] > 0 => k[2] < MaxNudges + Cardinality(Ticker)

NudgesHeld == EachOnce /\ NoRungSkipped /\ NudgesCapped
=============================================================================
