----------------------------- MODULE MoneyProofs -----------------------------
(***************************************************************************)
(* Proofs about the shop's money: collections and payment links on their   *)
(* way into the ledger (Collections, and the PaymentLedger it implements), *)
(* the cash counted between staff (CashHandover), the shop's own           *)
(* subscription (Subscription), what its calls to the model may cost       *)
(* (AiQuota), and its prepaid credits (Credits).                           *)
(***************************************************************************)
EXTENDS Collections, CashHandover, Subscription, AiQuota, Credits, SetSums

----------------------------------------------------------------------------
(***************************************************************************)
(* Collections: the rows.  A row numbers itself within its order, money is *)
(* only on orders there are, a deletion holds only rows of its order, and  *)
(* a link's row is on the order the link was made for.                     *)
(***************************************************************************)

RowsNumbered ==
    /\ IsFiniteSet(book)
    /\ \A p \in book : p.serial <= Cardinality(RowsOf(p.order))
RowsLive == \A p \in book : orders[p.order].live
DeletesOwn ==
    \A o \in Order : deleting[o] # Nothing => orders[o].live /\ deleting[o] \subseteq RowsOf(o)
LinkRows ==
    /\ \A l \in Link : links[l] # Unmade => links[l].amount > 0
    /\ \A p \in book : p.reference \in Link =>
          links[p.reference] # Unmade /\ links[p.reference].order = p.order

RowsInv == CollectTypeOK /\ RowsNumbered /\ RowsLive /\ DeletesOwn /\ LinkRows

LEMMA RowsInit == CollectInit => RowsInv
<1> SUFFICES ASSUME CollectInit PROVE RowsInv OBVIOUS
<1>1. CollectTypeOK
  BY CollectionsAssumption DEF CollectInit, CollectTypeOK, Unmade, Idle
<1>2. IsFiniteSet({}) BY FS_EmptySet
<1>3. RowsNumbered BY <1>2 DEF CollectInit, RowsNumbered
<1> QED BY <1>1, <1>3
    DEF CollectInit, RowsInv, RowsLive, DeletesOwn, LinkRows, Unmade

\* A payment is one row more, numbered after the others of its order.
LEMMA RecordAdds ==
    ASSUME RowsInv, NEW o \in Order, NEW n \in Nat \ {0},
           NEW ref \in Sheet \cup Link \cup {Nothing},
           orders[o].live,
           RecordPayment(o, n, ref)
    PROVE  /\ \E p \in Row : /\ p \notin book /\ book' = book \cup {p}
                             /\ p.order = o /\ p.amount = n /\ p.reference = ref
           /\ book' \in SUBSET Row
           /\ orders' = [orders EXCEPT ![o].paid = @ + n]
           /\ orders' \in [Order -> [live : BOOLEAN, cancelled : BOOLEAN, total : Nat,
                                     paid : Nat, link : Link \cup {Nothing}]]
           /\ RowsNumbered' /\ RowsLive'
<1> DEFINE serials == {0} \cup {p.serial : p \in RowsOf(o)}
           s == 1 + Max(serials)
           p == [order |-> o, amount |-> n, reference |-> ref, serial |-> s]
<1> USE DEF RowsInv
<1>0. /\ book \in SUBSET Row /\ IsFiniteSet(book)
      /\ orders \in [Order -> [live : BOOLEAN, cancelled : BOOLEAN, total : Nat,
                               paid : Nat, link : Link \cup {Nothing}]]
  BY DEF CollectTypeOK, RowsNumbered
<1>1. /\ RowsOf(o) \subseteq book /\ IsFiniteSet(RowsOf(o))
      /\ Cardinality(RowsOf(o)) \in Nat /\ Cardinality(book) \in Nat
      /\ Cardinality(RowsOf(o)) <= Cardinality(book)
  <2>1. RowsOf(o) \in SUBSET book BY DEF RowsOf
  <2> QED BY <2>1, <1>0, FS_Subset, FS_CardinalityType
<1>2. serials \in SUBSET Int /\ IsFiniteSet(serials) /\ serials # {}
      /\ \A x \in serials : x \in Nat /\ x <= Cardinality(RowsOf(o))
  <2>1. \A q \in RowsOf(o) : q \in book /\ q.serial \in 1..MaxRows /\ q.order = o
    BY <1>0 DEF RowsOf, Row
  <2>2. \A q \in RowsOf(o) : q.serial <= Cardinality(RowsOf(o))
    BY <2>1 DEF RowsNumbered
  <2>3. \A x \in serials : x \in Nat /\ x <= Cardinality(RowsOf(o))
    BY <2>1, <2>2, <1>1
  <2>4. IsFiniteSet(serials)
    <3>1. serials \in SUBSET Nat BY <2>3
    <3> HIDE DEF serials
    <3> QED BY <3>1, <2>3, <1>1, FS_BoundedSetOfNaturals
  <2>5. serials # {} OBVIOUS
  <2> HIDE DEF serials
  <2> QED BY <2>3, <2>4, <2>5
<1>3. Max(serials) \in serials /\ \A x \in serials : x <= Max(serials)
  <2> HIDE DEF serials
  <2> QED BY <1>2, MaxIsGreatest
<1>4. s \in 1..MaxRows /\ s <= 1 + Cardinality(RowsOf(o))
  <2>1. Max(serials) \in Nat /\ Max(serials) <= Cardinality(RowsOf(o))
    <3> HIDE DEF serials
    <3> QED BY <1>2, <1>3
  <2>2. Cardinality(book) < MaxRows /\ MaxRows \in Nat
    BY CollectionsAssumption DEF RecordPayment
  <2> HIDE DEF serials
  <2> QED BY <1>1, <2>1, <2>2
<1>5. p \in Row BY <1>4 DEF Row
<1>6. p \notin book
  <2> SUFFICES ASSUME p \in book PROVE FALSE OBVIOUS
  <2>1. p \in RowsOf(o) BY DEF RowsOf
  <2>2. p.serial \in serials BY <2>1
  <2>3. p.serial = 1 + Max(serials) OBVIOUS
  <2>4. Max(serials) \in Int BY <1>2, <1>3
  <2> HIDE DEF serials, p
  <2> QED BY <2>2, <2>3, <2>4, <1>3
<1>7. book' = book \cup {p} BY DEF RecordPayment
<1>8. orders' = [orders EXCEPT ![o].paid = @ + n] BY DEF RecordPayment
<1>9. p.order = o /\ p.amount = n /\ p.reference = ref /\ p.serial = s OBVIOUS
<1> HIDE DEF p, s, serials
<1>10. book' \in SUBSET Row BY <1>0, <1>5, <1>7
<1>11. orders' \in [Order -> [live : BOOLEAN, cancelled : BOOLEAN, total : Nat,
                              paid : Nat, link : Link \cup {Nothing}]]
       /\ \A x \in Order : orders'[x].live = orders[x].live
  BY <1>0, <1>8
<1>12. RowsNumbered'
  <2>1. IsFiniteSet(book') BY <1>0, <1>7, FS_AddElement
  <2>2. RowsOf(o)' = RowsOf(o) \cup {p} /\ p \notin RowsOf(o)
    BY <1>6, <1>7, <1>9 DEF RowsOf
  <2>3. Cardinality(RowsOf(o)') = Cardinality(RowsOf(o)) + 1
    BY <2>2, <1>1, FS_AddElement
  <2>4. \A x \in Order \ {o} : RowsOf(x)' = RowsOf(x)
    BY <1>7, <1>9 DEF RowsOf
  <2>5. ASSUME NEW q \in book' PROVE q.serial <= Cardinality(RowsOf(q.order)')
    <3>0. q.serial \in Nat BY <1>10 DEF Row
    <3>1. CASE q = p BY <3>0, <3>1, <2>3, <1>1, <1>4, <1>9
    <3>2. CASE q # p /\ q.order = o
      <4>1. q \in book /\ q.serial <= Cardinality(RowsOf(o)) BY <3>2, <1>7 DEF RowsNumbered
      <4> QED BY <4>1, <3>0, <3>2, <2>3, <1>1
    <3>3. CASE q # p /\ q.order # o
      <4>1. q \in book /\ q.serial <= Cardinality(RowsOf(q.order)) BY <3>3, <1>7 DEF RowsNumbered
      <4>2. q.order \in Order \ {o} BY <3>3, <4>1, <1>0 DEF Row
      <4> QED BY <4>1, <4>2, <2>4
    <3> QED BY <3>1, <3>2, <3>3
  <2> QED BY <2>1, <2>5 DEF RowsNumbered, RowsOf
<1>13. RowsLive'
  BY <1>5, <1>7, <1>9, <1>10, <1>11, <1>0 DEF RowsLive, Row
<1> QED BY <1>5, <1>6, <1>7, <1>8, <1>9, <1>10, <1>11, <1>12, <1>13

\* What a request holds.
LEMMA DeskPhases ==
    ASSUME CollectTypeOK, NEW d \in Desk
    PROVE  /\ desk[d] = Idle \/ desk[d] \in Opened \/ \E older \in SUBSET Order : desk[d] \in Paying(older)
           /\ desk[d].at = "opened" => desk[d] \in Opened
           /\ desk[d].at = "paying" => \E older \in SUBSET Order : desk[d] \in Paying(older)
BY DEF CollectTypeOK, Idle, Opened, Paying

LEMMA OpenedHolds ==
    ASSUME CollectTypeOK, NEW d \in Desk, desk[d].at = "opened"
    PROVE  /\ desk[d].sheet \in Sheet /\ desk[d].due \in Int
           /\ Body[desk[d].sheet].order \in Order
           /\ Body[desk[d].sheet].amount \in Nat \ {0}
           /\ Body[desk[d].sheet].settle \in BOOLEAN
BY DeskPhases, CollectionsAssumption DEF Opened

LEMMA PayingHolds ==
    ASSUME CollectTypeOK, NEW d \in Desk, desk[d].at = "paying"
    PROVE  /\ desk[d].sheet \in Sheet /\ desk[d].left \in Nat /\ desk[d].first \in BOOLEAN
           /\ DOMAIN desk[d].dues \in SUBSET Order
           /\ \A x \in DOMAIN desk[d].dues : desk[d].dues[x] \in Int
           /\ Body[desk[d].sheet].order \in Order
           /\ Body[desk[d].sheet].amount \in Nat \ {0}
<1>1. PICK older \in SUBSET Order : desk[d] \in Paying(older) BY DeskPhases
<1>2. /\ desk[d].sheet \in Sheet /\ desk[d].left \in Nat /\ desk[d].first \in BOOLEAN
      /\ desk[d].dues \in [older -> Int]
  BY <1>1 DEF Paying
<1> QED BY <1>2, CollectionsAssumption

\* The bill the money goes to, and how much of it.
LEMMA TargetTakes ==
    ASSUME CollectTypeOK, NEW d \in Desk, desk[d].at = "paying", desk[d].left > 0
    PROVE  /\ Target(d) \in Order
           /\ Take(d) \in Nat \ {0} /\ Take(d) <= desk[d].left
           /\ Unsettled(d) \in SUBSET Order /\ IsFiniteSet(Unsettled(d))
           /\ Unsettled(d) # {} => /\ Target(d) \in Unsettled(d)
                                   /\ \A x \in Unsettled(d) : Target(d) <= x
                                   /\ Take(d) <= desk[d].dues[Target(d)]
           /\ Unsettled(d) = {} => /\ Target(d) = Body[desk[d].sheet].order
                                   /\ Take(d) = desk[d].left
<1>1. Unsettled(d) \in SUBSET Order /\ Order \in SUBSET Int /\ IsFiniteSet(Order)
  BY PayingHolds, CollectionsAssumption DEF Unsettled
<1>2. IsFiniteSet(Unsettled(d)) BY <1>1, FS_Subset
<1>3. ASSUME Unsettled(d) # {}
      PROVE  /\ Target(d) \in Unsettled(d)
             /\ \A x \in Unsettled(d) : Target(d) <= x
             /\ desk[d].dues[Target(d)] \in Nat \ {0}
  <2>1. Target(d) \in Unsettled(d) /\ \A x \in Unsettled(d) : Target(d) <= x
    BY <1>1, <1>2, <1>3, MinIsLeast DEF Target
  <2>2. desk[d].dues[Target(d)] \in Int /\ desk[d].dues[Target(d)] > 0
    BY <2>1, PayingHolds DEF Unsettled
  <2> QED BY <2>1, <2>2
<1>4. ASSUME Unsettled(d) = {} PROVE Target(d) = Body[desk[d].sheet].order
  BY <1>4 DEF Target
<1>5. desk[d].left \in Nat \ {0} BY PayingHolds
<1>6. Unsettled(d) = {} => Take(d) = desk[d].left BY DEF Take
<1>7. Unsettled(d) # {} => /\ Take(d) \in Nat \ {0} /\ Take(d) <= desk[d].left
                           /\ Take(d) <= desk[d].dues[Target(d)]
  <2>1. Take(d) = IF Unsettled(d) = {} \/ desk[d].left < desk[d].dues[Target(d)]
                  THEN desk[d].left ELSE desk[d].dues[Target(d)]
    BY DEF Take
  <2> QED BY <2>1, <1>3, <1>5
<1>8. Target(d) \in Order BY <1>1, <1>3, <1>4, PayingHolds
<1> QED BY <1>1, <1>2, <1>3, <1>4, <1>5, <1>6, <1>7, <1>8

\* A bill is paid: the row, and what the request holds afterwards.
LEMMA PayAdds ==
    ASSUME RowsInv, NEW d \in Desk, NEW reread \in BOOLEAN, Pay(d, reread)
    PROVE  /\ desk[d].at = "paying" /\ desk[d].left > 0
           /\ Target(d) \in Order /\ orders[Target(d)].live
           /\ Take(d) \in Nat \ {0} /\ Take(d) <= desk[d].left
           /\ RefOf(d) \in Sheet \cup {Nothing}
           /\ \E p \in Row : /\ p \notin book /\ book' = book \cup {p}
                             /\ p.order = Target(d) /\ p.amount = Take(d)
                             /\ p.reference = RefOf(d)
           /\ book' \in SUBSET Row
           /\ orders' = [orders EXCEPT ![Target(d)].paid = @ + Take(d)]
           /\ orders' \in [Order -> [live : BOOLEAN, cancelled : BOOLEAN, total : Nat,
                                     paid : Nat, link : Link \cup {Nothing}]]
           /\ RowsNumbered' /\ RowsLive'
<1> USE DEF RowsInv
<1>1. desk[d].at = "paying" /\ desk[d].left > 0 /\ orders[Target(d)].live BY DEF Pay
<1>2. Target(d) \in Order /\ Take(d) \in Nat \ {0} /\ Take(d) <= desk[d].left
  BY <1>1, TargetTakes
<1>3. RefOf(d) \in Sheet \cup {Nothing} BY <1>1, PayingHolds DEF RefOf
<1>4. RecordPayment(Target(d), Take(d), RefOf(d)) BY DEF Pay
<1>5. RefOf(d) \in Sheet \cup Link \cup {Nothing} BY <1>3
<1> HIDE DEF RowsInv
<1> QED BY <1>1, <1>2, <1>3, <1>4, <1>5, RecordAdds

LEMMA PayLeaves ==
    ASSUME CollectTypeOK, orders' \in [Order -> [live : BOOLEAN, cancelled : BOOLEAN, total : Nat,
                                           paid : Nat, link : Link \cup {Nothing}]],
           NEW d \in Desk, NEW reread \in BOOLEAN, Pay(d, reread)
    PROVE  /\ DOMAIN desk' = Desk
           /\ \A e \in Desk \ {d} : desk'[e] = desk[e]
           /\ desk'[d].at = "paying" /\ desk'[d].sheet = desk[d].sheet
           /\ desk'[d].left = desk[d].left - Take(d) /\ desk'[d].first = FALSE
           /\ DOMAIN desk'[d].dues = {y \in DOMAIN desk[d].dues : Unsettled(d) # {} /\ y > Target(d)}
           /\ \A x \in DOMAIN desk'[d].dues :
                 desk'[d].dues[x] = IF reread /\ orders[x].live THEN Due(x) ELSE desk[d].dues[x]
           /\ \E older \in SUBSET Order : desk'[d] \in Paying(older)
<1> DEFINE later == {y \in DOMAIN desk[d].dues : Unsettled(d) # {} /\ y > Target(d)}
           D == [x \in later |-> IF reread /\ orders[x].live THEN Due(x) ELSE desk[d].dues[x]]
           c == desk[d]
           new == [c EXCEPT !.left = @ - Take(d), !.first = FALSE, !.dues = D]
<1>1. desk' = [desk EXCEPT ![d] = new] BY DEF Pay
<1>2. c.at = "paying" /\ c.left > 0 BY DEF Pay
<1>3. PICK older \in SUBSET Order : c \in Paying(older) BY <1>2, DeskPhases
<1>4. c = [at |-> "paying", sheet |-> c.sheet, dues |-> c.dues, left |-> c.left, first |-> c.first]
      /\ c.sheet \in Sheet /\ c.left \in Nat
  BY <1>3 DEF Paying
<1>5. Take(d) \in Nat \ {0} /\ Take(d) <= c.left BY <1>2, TargetTakes
<1>6. later \in SUBSET Order /\ D \in [later -> Int]
  <2>1. \A x \in DOMAIN c.dues : c.dues[x] \in Int /\ x \in Order BY <1>2, PayingHolds
  <2>2. \A x \in Order : Due(x) \in Int BY DEF Due, CollectTypeOK
  <2> QED BY <2>1, <2>2
<1>7. DOMAIN D = later /\ \A x \in later :
          D[x] = IF reread /\ orders[x].live THEN Due(x) ELSE desk[d].dues[x]
  OBVIOUS
<1> HIDE DEF D, later, c
<1>8. c.left - Take(d) \in Nat BY <1>4, <1>5
<1>9. c \in [at : {"paying"}, sheet : Sheet, dues : [older -> Int], left : Nat, first : BOOLEAN]
  BY <1>3 DEF Paying, c
<1>10. new \in Paying(later) BY <1>6, <1>8, <1>9 DEF Paying
<1>11. /\ new.at = "paying" /\ new.sheet = c.sheet /\ new.dues = D
       /\ new.left = c.left - Take(d) /\ new.first = FALSE
  BY <1>9
<1>12. DOMAIN desk = Desk /\ DOMAIN desk' = Desk /\ desk'[d] = new
       /\ \A e \in Desk \ {d} : desk'[e] = desk[e]
  BY <1>1 DEF CollectTypeOK
<1> HIDE DEF new
<1> QED BY <1>6, <1>7, <1>10, <1>11, <1>12 DEF c, later

\* Nothing about the rows changes when no row, order, link or deletion does.
LEMMA RowsKept ==
    ASSUME RowsInv, UNCHANGED <<orders, book, links, deleting>>
    PROVE  RowsNumbered' /\ RowsLive' /\ DeletesOwn' /\ LinkRows'
BY DEF RowsInv, RowsNumbered, RowsLive, DeletesOwn, LinkRows, RowsOf

LEMMA SplitHolds ==
    ASSUME CollectTypeOK, NEW d \in Desk, Split(d)
    PROVE  DOMAIN desk' = Desk /\ \A e \in Desk : \/ desk'[e] = desk[e]
                                                 \/ desk'[e] = Idle
                                                 \/ \E older \in SUBSET Order : desk'[e] \in Paying(older)
<1> DEFINE r    == desk[d].sheet
           read == IF Body[r].settle /\ Body[r].amount > desk[d].due THEN Others(Body[r].order) ELSE {}
           new  == [at |-> "paying", sheet |-> r, left |-> Body[r].amount, first |-> TRUE,
                    dues |-> [x \in read |-> Due(x)]]
<1>1. desk[d].at = "opened" /\ (desk' = [desk EXCEPT ![d] = Idle] \/ desk' = [desk EXCEPT ![d] = new])
  BY DEF Split
<1>2. read \in SUBSET Order BY DEF Others
<1>3. \A x \in Order : Due(x) \in Int BY DEF Due, CollectTypeOK
<1>4. [x \in read |-> Due(x)] \in [read -> Int] BY <1>2, <1>3
<1>5. r \in Sheet /\ Body[r].amount \in Nat BY <1>1, OpenedHolds
<1>6. new \in Paying(read)
  <2> HIDE DEF read
  <2> QED BY <1>4, <1>5 DEF Paying
<1>7. DOMAIN desk = Desk BY DEF CollectTypeOK
<1> HIDE DEF new, read
<1> QED BY <1>1, <1>2, <1>6, <1>7

\* No step breaks the type or the facts about the rows.
LEMMA RowsStep == RowsInv /\ [CollectNext]_collectVars => RowsInv'
<1> SUFFICES ASSUME RowsInv, [CollectNext]_collectVars PROVE RowsInv' OBVIOUS
<1>0. CollectTypeOK /\ RowsNumbered /\ RowsLive /\ DeletesOwn /\ LinkRows BY DEF RowsInv
<1>t. DOMAIN desk = Desk BY <1>0 DEF CollectTypeOK
<1>1. ASSUME NEW d \in Desk, NEW r \in Sheet, Open(d, r) PROVE RowsInv'
  <2>1. CollectTypeOK'
    <3>1. Due(Body[r].order) \in Int /\ r \in Sheet
      <4>1. Body[r].order \in Order BY CollectionsAssumption
      <4> QED BY <1>0, <4>1 DEF CollectTypeOK, Due
    <3>2. [at |-> "opened", sheet |-> r, due |-> Due(Body[r].order)] \in Opened
      BY <3>1 DEF Opened
    <3>3. \A e \in Desk : desk'[e] = desk[e] \/ desk'[e] \in Opened
      BY <1>t, <1>1, <3>2 DEF Open
    <3> QED BY <1>0, <1>1, <3>3 DEF Open, CollectTypeOK
  <2> QED BY <2>1, <1>1, RowsKept DEF Open, RowsInv
<1>2. ASSUME NEW d \in Desk, AlreadyDone(d) PROVE RowsInv'
  <2>1. CollectTypeOK' BY <1>0, <1>2, OpenedHolds DEF AlreadyDone, Leave, CollectTypeOK
  <2> QED BY <2>1, <1>2, RowsKept DEF AlreadyDone, RowsInv
<1>3. ASSUME NEW d \in Desk, Split(d) PROVE RowsInv'
  <2>1. CollectTypeOK'
    <3>1. DOMAIN desk' = Desk
          /\ \A e \in Desk : desk'[e] \in {Idle} \cup Opened
                          \/ \E older \in SUBSET Order : desk'[e] \in Paying(older)
      BY <1>0, <1>3, SplitHolds DEF CollectTypeOK
    <3> QED BY <1>0, <1>3, <3>1 DEF Split, CollectTypeOK
  <2> QED BY <2>1, <1>3, RowsKept DEF Split, RowsInv
<1>4. ASSUME NEW d \in Desk, LoseRace(d) PROVE RowsInv'
  <2>1. CollectTypeOK' BY <1>0, <1>4, PayingHolds DEF LoseRace, Leave, CollectTypeOK
  <2> QED BY <2>1, <1>4, RowsKept DEF LoseRace, RowsInv
<1>5. ASSUME NEW d \in Desk, Answer(d) PROVE RowsInv'
  <2>1. CollectTypeOK' BY <1>0, <1>5, PayingHolds DEF Answer, Leave, CollectTypeOK
  <2> QED BY <2>1, <1>5, RowsKept DEF Answer, RowsInv
<1>6. ASSUME NEW d \in Desk, Die(d) PROVE RowsInv'
  <2>1. trouble' \in 0 .. MaxTrouble
    BY <1>0, <1>6, CollectionsAssumption DEF Die, Trouble, CollectTypeOK
  <2>2. cut' \in SUBSET (Sheet \cup Link) BY <1>0, <1>6, PayingHolds DEF Die, CollectTypeOK
  <2>3. CollectTypeOK' BY <1>0, <1>6, <2>1, <2>2 DEF Die, Leave, CollectTypeOK
  <2> QED BY <2>3, <1>6, RowsKept DEF Die, RowsInv
<1>7. ASSUME NEW d \in Desk, NEW reread \in BOOLEAN, Pay(d, reread) PROVE RowsInv'
  <2>1. PICK p \in Row : /\ p \notin book /\ book' = book \cup {p}
                         /\ p.order = Target(d) /\ p.reference = RefOf(d)
    BY <1>7, PayAdds
  <2>2. /\ desk[d].at = "paying" /\ Target(d) \in Order /\ Take(d) \in Nat \ {0}
        /\ RefOf(d) \in Sheet \cup {Nothing}
        /\ book' \in SUBSET Row
        /\ orders' = [orders EXCEPT ![Target(d)].paid = @ + Take(d)]
        /\ orders' \in [Order -> [live : BOOLEAN, cancelled : BOOLEAN, total : Nat,
                                  paid : Nat, link : Link \cup {Nothing}]]
        /\ RowsNumbered' /\ RowsLive'
    BY <1>7, PayAdds
  <2>3. /\ UNCHANGED <<links, customer, review, deleting, cut, forgot, trouble>>
        /\ posted' = [posted EXCEPT ![desk[d].sheet] = @ + Take(d)]
        /\ excused' \in SUBSET Order /\ raced' \in SUBSET Desk
    BY <1>0, <1>7, <2>2 DEF Pay, Overtake, CollectTypeOK
  <2>4. posted' \in [Sheet -> Nat] BY <1>0, <2>2, <2>3, PayingHolds DEF CollectTypeOK
  <2>5. DOMAIN desk' = Desk
        /\ \A e \in Desk : desk'[e] \in {Idle} \cup Opened
                        \/ \E older \in SUBSET Order : desk'[e] \in Paying(older)
    <3>0. orders' \in [Order -> [live : BOOLEAN, cancelled : BOOLEAN, total : Nat,
                                 paid : Nat, link : Link \cup {Nothing}]]
      BY <2>2
    <3>1. /\ DOMAIN desk' = Desk
          /\ \A e \in Desk \ {d} : desk'[e] = desk[e]
          /\ \E older \in SUBSET Order : desk'[d] \in Paying(older)
      BY <1>0, <1>7, <3>0, PayLeaves
    <3>2. \A e \in Desk : desk[e] \in {Idle} \cup Opened
                        \/ \E older \in SUBSET Order : desk[e] \in Paying(older)
      BY <1>0 DEF CollectTypeOK
    <3> QED BY <3>1, <3>2
  <2>6. CollectTypeOK' BY <1>0, <2>2, <2>3, <2>4, <2>5 DEF CollectTypeOK
  <2>7. DeletesOwn'
    <3>1. \A o \in Order : orders'[o].live = orders[o].live /\ RowsOf(o) \subseteq RowsOf(o)'
      BY <1>0, <2>1, <2>2 DEF CollectTypeOK, RowsOf
    <3> QED BY <1>0, <2>3, <3>1 DEF DeletesOwn
  <2>8. LinkRows'
    <3>1. p.reference \notin Link BY <2>1, <2>2, CollectionsAssumption
    <3> QED BY <1>0, <2>1, <2>3, <3>1 DEF LinkRows
  <2> QED BY <2>2, <2>6, <2>7, <2>8 DEF RowsInv
<1>8. ASSUME NEW l \in Link, NEW o \in Order, AskLink(o, l) PROVE RowsInv'
  <2>1. Due(o) \in Nat \ {0} BY <1>0, <1>8 DEF AskLink, Due, CollectTypeOK
  <2>2. /\ links' = [links EXCEPT ![l] = [at |-> "made", order |-> o, amount |-> Due(o)]]
        /\ links[l] = Unmade /\ links \in [Link -> {Unmade} \cup Made]
    BY <1>0, <1>8 DEF AskLink, CollectTypeOK
  <2>3. links'[l] \in Made /\ links'[l].amount > 0 /\ links'[l] # Unmade
        /\ \A m \in Link \ {l} : links'[m] = links[m]
    BY <2>1, <2>2 DEF Made, Unmade
  <2>4. CollectTypeOK'
    <3>1. links' \in [Link -> {Unmade} \cup Made] BY <2>2, <2>3
    <3> QED BY <1>0, <1>8, <3>1 DEF AskLink, CollectTypeOK
  <2>5. LinkRows' BY <1>0, <1>8, <2>2, <2>3 DEF LinkRows, AskLink
  <2>6. RowsNumbered' /\ RowsLive' /\ DeletesOwn'
    BY <1>0, <1>8 DEF RowsNumbered, RowsLive, DeletesOwn, RowsOf, AskLink
  <2> QED BY <2>4, <2>5, <2>6 DEF RowsInv
<1>9. ASSUME NEW l \in Link, SaveLink(l) PROVE RowsInv'
  <2>1. links[l] \in Made /\ links \in [Link -> {Unmade} \cup Made]
    BY <1>0, <1>9 DEF SaveLink, CollectTypeOK, Unmade, Made
  <2>2. /\ links' = [links EXCEPT ![l].at = "given"]
        /\ orders' = [orders EXCEPT ![links[l].order].link = l]
        /\ UNCHANGED <<book, desk, customer, review, deleting, posted, cut, forgot, raced, excused,
                       trouble>>
    BY <1>9 DEF SaveLink
  <2>3. /\ links'[l] \in Made /\ links'[l].amount = links[l].amount
        /\ links'[l].order = links[l].order /\ links[l].order \in Order
        /\ \A m \in Link \ {l} : links'[m] = links[m]
    BY <2>1, <2>2 DEF Made
  <2>4. links' \in [Link -> {Unmade} \cup Made] BY <2>1, <2>2, <2>3
  <2>5. orders' \in [Order -> [live : BOOLEAN, cancelled : BOOLEAN, total : Nat,
                               paid : Nat, link : Link \cup {Nothing}]]
        /\ \A o \in Order : orders'[o].live = orders[o].live
    BY <1>0, <2>2, <2>3 DEF CollectTypeOK
  <2>6. CollectTypeOK' BY <1>0, <2>2, <2>4, <2>5 DEF CollectTypeOK
  <2>7. LinkRows'
    <3>1. links[l] # Unmade /\ links'[l] # Unmade BY <2>1, <2>3 DEF Made, Unmade
    <3> QED BY <1>0, <2>2, <2>3, <3>1 DEF LinkRows
  <2>8. RowsNumbered' BY <1>0, <2>2 DEF RowsNumbered, RowsOf
  <2>9. RowsLive' BY <1>0, <2>2, <2>5 DEF RowsLive, CollectTypeOK, Row
  <2>10. DeletesOwn' BY <1>0, <2>2, <2>5 DEF DeletesOwn, RowsOf
  <2> QED BY <2>6, <2>7, <2>8, <2>9, <2>10 DEF RowsInv
<1>10. ASSUME NEW l \in Link, PayLink(l) PROVE RowsInv'
  <2>1. links[l] \in Made /\ links \in [Link -> {Unmade} \cup Made]
    BY <1>0, <1>10 DEF PayLink, CollectTypeOK, Unmade, Made
  <2>2. links' = [links EXCEPT ![l].at = "paid"] BY <1>10 DEF PayLink
  <2>3. /\ links'[l] \in Made /\ links'[l].amount = links[l].amount
        /\ links'[l].order = links[l].order
        /\ \A m \in Link \ {l} : links'[m] = links[m]
    BY <2>1, <2>2 DEF Made
  <2>4. links' \in [Link -> {Unmade} \cup Made] BY <2>1, <2>2, <2>3
  <2>5. CollectTypeOK' BY <1>0, <1>10, <2>4 DEF PayLink, CollectTypeOK
  <2>6. LinkRows'
    <3>1. links[l] # Unmade /\ links'[l] # Unmade BY <2>1, <2>3 DEF Made, Unmade
    <3> QED BY <1>0, <1>10, <2>3, <3>1 DEF LinkRows, PayLink
  <2>7. RowsNumbered' /\ RowsLive' /\ DeletesOwn'
    BY <1>0, <1>10 DEF RowsNumbered, RowsLive, DeletesOwn, RowsOf, PayLink
  <2> QED BY <2>5, <2>6, <2>7 DEF RowsInv
<1>11. ASSUME NEW l \in Link, LinkIgnored(l) PROVE RowsInv'
  <2>1. CollectTypeOK' BY <1>0, <1>11 DEF LinkIgnored, Acknowledge, CollectTypeOK
  <2> QED BY <2>1, <1>11, RowsKept DEF LinkIgnored, RowsInv
<1>12. ASSUME NEW l \in Link, LinkPosted(l) PROVE RowsInv'
  <2> DEFINE o == links[l].order
  <2>1. links[l] \in Made /\ links[l] # Unmade
    BY <1>0, <1>12 DEF LinkPosted, CollectTypeOK, Unmade, Made
  <2>2. o \in Order /\ links[l].amount \in Nat \ {0} BY <1>0, <2>1 DEF Made, LinkRows
  <2>3. RecordPayment(o, links[l].amount, l) /\ orders[o].live
        /\ l \in Sheet \cup Link \cup {Nothing}
    BY <1>12 DEF LinkPosted
  <2> HIDE DEF o
  <2>4. /\ \E p \in Row : /\ p \notin book /\ book' = book \cup {p}
                          /\ p.order = o /\ p.reference = l
        /\ book' \in SUBSET Row
        /\ orders' = [orders EXCEPT ![o].paid = @ + links[l].amount]
        /\ orders' \in [Order -> [live : BOOLEAN, cancelled : BOOLEAN, total : Nat,
                                  paid : Nat, link : Link \cup {Nothing}]]
        /\ RowsNumbered' /\ RowsLive'
    BY <2>2, <2>3, RecordAdds
  <2>5. PICK p \in Row : p \notin book /\ book' = book \cup {p} /\ p.order = o /\ p.reference = l
    BY <2>4
  <2>6. CollectTypeOK'
    BY <1>0, <1>12, <2>4 DEF LinkPosted, Acknowledge, Overtake, CollectTypeOK
  <2>7. DeletesOwn'
    <3>1. \A x \in Order : orders'[x].live = orders[x].live /\ RowsOf(x) \subseteq RowsOf(x)'
      BY <1>0, <2>2, <2>4, <2>5 DEF CollectTypeOK, RowsOf
    <3> QED BY <1>0, <1>12, <3>1 DEF DeletesOwn, LinkPosted
  <2>8. LinkRows' BY <1>0, <1>12, <2>1, <2>5 DEF LinkRows, LinkPosted, o
  <2> QED BY <2>4, <2>6, <2>7, <2>8 DEF RowsInv
<1>13. ASSUME NEW l \in Link, LinkReviewed(l) PROVE RowsInv'
  <2>1. trouble' \in 0 .. MaxTrouble
    BY <1>0, <1>13, CollectionsAssumption DEF LinkReviewed, Trouble, CollectTypeOK
  <2>2. CollectTypeOK' BY <1>0, <1>13, <2>1 DEF LinkReviewed, Acknowledge, CollectTypeOK
  <2> QED BY <2>2, <1>13, RowsKept DEF LinkReviewed, RowsInv
<1>14. ASSUME NEW o \in Order, NEW total \in Prices, Reprice(o, total) PROVE RowsInv'
  <2>1. trouble' \in 0 .. MaxTrouble
    BY <1>0, <1>14, CollectionsAssumption DEF Reprice, Trouble, CollectTypeOK
  <2>2. orders' = [orders EXCEPT ![o].total = total] /\ total \in Nat
        /\ UNCHANGED <<book, desk, links, customer, review, deleting, posted, cut, forgot>>
    BY <1>14, CollectionsAssumption DEF Reprice
  <2>3. orders' \in [Order -> [live : BOOLEAN, cancelled : BOOLEAN, total : Nat,
                               paid : Nat, link : Link \cup {Nothing}]]
        /\ \A x \in Order : orders'[x].live = orders[x].live
    BY <1>0, <2>2 DEF CollectTypeOK
  <2>4. CollectTypeOK' BY <1>0, <1>14, <2>1, <2>2, <2>3 DEF Reprice, Overtake, CollectTypeOK
  <2>5. RowsLive' BY <1>0, <2>2, <2>3 DEF RowsLive, CollectTypeOK, Row
  <2>6. RowsNumbered' /\ DeletesOwn' /\ LinkRows'
    BY <1>0, <2>2, <2>3 DEF RowsNumbered, DeletesOwn, LinkRows, RowsOf
  <2> QED BY <2>4, <2>5, <2>6 DEF RowsInv
<1>15. ASSUME NEW o \in Order, Cancel(o) PROVE RowsInv'
  <2>1. trouble' \in 0 .. MaxTrouble
    BY <1>0, <1>15, CollectionsAssumption DEF Cancel, Trouble, CollectTypeOK
  <2>2. orders' = [orders EXCEPT ![o].cancelled = TRUE]
        /\ UNCHANGED <<book, desk, links, customer, review, deleting, posted, cut, forgot, excused>>
    BY <1>15 DEF Cancel
  <2>3. orders' \in [Order -> [live : BOOLEAN, cancelled : BOOLEAN, total : Nat,
                               paid : Nat, link : Link \cup {Nothing}]]
        /\ \A x \in Order : orders'[x].live = orders[x].live
    <3>1. orders \in [Order -> [live : BOOLEAN, cancelled : BOOLEAN, total : Nat,
                                paid : Nat, link : Link \cup {Nothing}]]
      BY <1>0 DEF CollectTypeOK
    <3>2. [orders[o] EXCEPT !.cancelled = TRUE]
            \in [live : BOOLEAN, cancelled : BOOLEAN, total : Nat,
                paid : Nat, link : Link \cup {Nothing}]
      BY <3>1
    <3> QED BY <2>2, <3>1, <3>2
  <2>4. CollectTypeOK' BY <1>0, <1>15, <2>1, <2>2, <2>3 DEF Cancel, Overtake, CollectTypeOK
  <2>5. RowsLive' BY <1>0, <2>2, <2>3 DEF RowsLive, CollectTypeOK, Row
  <2>6. RowsNumbered' /\ DeletesOwn' /\ LinkRows'
    BY <1>0, <2>2, <2>3 DEF RowsNumbered, DeletesOwn, LinkRows, RowsOf
  <2> QED BY <2>4, <2>5, <2>6 DEF RowsInv
<1>16. ASSUME NEW o \in Order, StartDelete(o) PROVE RowsInv'
  <2>1. trouble' \in 0 .. MaxTrouble
    BY <1>0, <1>16, CollectionsAssumption DEF StartDelete, Trouble, CollectTypeOK
  <2>2. RowsOf(o) \in SUBSET Row /\ deleting' = [deleting EXCEPT ![o] = RowsOf(o)]
        /\ orders[o].live
        /\ UNCHANGED <<orders, book, links>>
    BY <1>0, <1>16 DEF StartDelete, RowsOf, CollectTypeOK
  <2>3. CollectTypeOK'
    <3>1. deleting' \in [Order -> {Nothing} \cup SUBSET Row] BY <1>0, <2>2 DEF CollectTypeOK
    <3> QED BY <1>0, <1>16, <2>1, <3>1 DEF StartDelete, CollectTypeOK
  <2>4. DeletesOwn' BY <1>0, <2>2 DEF DeletesOwn, RowsOf, CollectTypeOK
  <2>5. RowsNumbered' /\ RowsLive' /\ LinkRows'
    BY <1>0, <2>2 DEF RowsNumbered, RowsLive, LinkRows, RowsOf
  <2> QED BY <2>3, <2>4, <2>5 DEF RowsInv
<1>17. ASSUME NEW o \in Order, FinishDelete(o) PROVE RowsInv'
  <2>1. /\ deleting' = [deleting EXCEPT ![o] = Nothing] /\ deleting[o] # Nothing
        /\ UNCHANGED <<desk, links, customer, posted, cut, excused, trouble>>
        /\ deleting' \in [Order -> {Nothing} \cup SUBSET Row]
    BY <1>0, <1>17 DEF FinishDelete, CollectTypeOK
  <2>2. CASE UNCHANGED <<book, orders, review, forgot, raced>>
    <3>1. CollectTypeOK' BY <1>0, <2>1, <2>2 DEF CollectTypeOK
    <3>2. DeletesOwn' BY <1>0, <2>1, <2>2 DEF DeletesOwn, RowsOf, CollectTypeOK
    <3>3. RowsNumbered' /\ RowsLive' /\ LinkRows'
      BY <1>0, <2>1, <2>2 DEF RowsNumbered, RowsLive, LinkRows, RowsOf
    <3> QED BY <3>1, <3>2, <3>3 DEF RowsInv
  <2>3. CASE /\ RowsOf(o) \subseteq deleting[o]
             /\ book' = book \ deleting[o]
             /\ orders' = [orders EXCEPT ![o].live = FALSE]
             /\ review' = {l \in review : links[l].order # o}
             /\ forgot' = forgot \cup {r \in Sheet : \E p \in deleting[o] : p.reference = r}
             /\ Overtake(Desk)
    <3>1. deleting[o] = RowsOf(o) BY <1>0, <2>1, <2>3 DEF DeletesOwn
    <3>2. book' = {p \in book : p.order # o} BY <2>3, <3>1 DEF RowsOf
    <3>3. orders' \in [Order -> [live : BOOLEAN, cancelled : BOOLEAN, total : Nat,
                                 paid : Nat, link : Link \cup {Nothing}]]
          /\ \A x \in Order \ {o} : orders'[x].live = orders[x].live
      <4>1. orders \in [Order -> [live : BOOLEAN, cancelled : BOOLEAN, total : Nat,
                                  paid : Nat, link : Link \cup {Nothing}]]
        BY <1>0 DEF CollectTypeOK
      <4>2. [orders[o] EXCEPT !.live = FALSE]
              \in [live : BOOLEAN, cancelled : BOOLEAN, total : Nat,
                  paid : Nat, link : Link \cup {Nothing}]
        BY <4>1
      <4> QED BY <2>3, <4>1, <4>2
    <3>4. CollectTypeOK'
      <4>1. book' \in SUBSET Row /\ review' \in SUBSET Link /\ forgot' \in SUBSET Sheet
            /\ raced' \in SUBSET Desk
        BY <1>0, <2>3, <3>2 DEF CollectTypeOK, Overtake
      <4> QED BY <1>0, <2>1, <3>3, <4>1 DEF CollectTypeOK
    <3>5. \A x \in Order \ {o} : RowsOf(x)' = RowsOf(x) BY <3>2 DEF RowsOf
    <3>6. \A p \in book' : p \in book /\ p.order \in Order \ {o}
      BY <1>0, <3>2 DEF CollectTypeOK, Row
    <3>7. RowsNumbered'
      <4>1. IsFiniteSet(book')
        <5>1. book' \in SUBSET book BY <3>2
        <5> QED BY <1>0, <5>1, FS_Subset DEF RowsNumbered
      <4>2. \A p \in book' : p.serial <= Cardinality(RowsOf(p.order)')
        BY <1>0, <3>5, <3>6 DEF RowsNumbered
      <4> QED BY <4>1, <4>2 DEF RowsNumbered, RowsOf
    <3>8. RowsLive' BY <1>0, <3>3, <3>6 DEF RowsLive
    <3>9. DeletesOwn'
      <4> SUFFICES ASSUME NEW x \in Order, deleting'[x] # Nothing
                   PROVE  orders'[x].live /\ deleting'[x] \subseteq RowsOf(x)'
        BY DEF DeletesOwn, RowsOf
      <4>1. x # o /\ deleting'[x] = deleting[x] BY <1>0, <2>1 DEF CollectTypeOK
      <4> QED BY <1>0, <3>3, <3>5, <4>1 DEF DeletesOwn
    <3>10. LinkRows' BY <1>0, <2>1, <3>6 DEF LinkRows
    <3> QED BY <3>4, <3>7, <3>8, <3>9, <3>10 DEF RowsInv
  <2> QED BY <1>17, <2>2, <2>3 DEF FinishDelete
<1>18. CASE UNCHANGED collectVars
  <2>1. CollectTypeOK' BY <1>0, <1>18 DEF CollectTypeOK, collectVars
  <2> QED BY <2>1, <1>18, RowsKept DEF RowsInv, collectVars
<1>19. ASSUME NEW o \in Order, NEW n \in Tender, PayByHand(o, n) PROVE RowsInv'
  <2>1. trouble' \in 0 .. MaxTrouble
    BY <1>0, <1>19, CollectionsAssumption DEF PayByHand, Trouble, CollectTypeOK
  <2>2. n \in Nat \ {0} BY CollectionsAssumption
  <2>3. RecordPayment(o, n, Nothing) /\ orders[o].live /\ Nothing \in Sheet \cup Link \cup {Nothing}
    BY <1>19 DEF PayByHand
  <2>4. /\ \E p \in Row : /\ p \notin book /\ book' = book \cup {p}
                          /\ p.order = o /\ p.reference = Nothing
        /\ book' \in SUBSET Row
        /\ orders' = [orders EXCEPT ![o].paid = @ + n]
        /\ orders' \in [Order -> [live : BOOLEAN, cancelled : BOOLEAN, total : Nat,
                                  paid : Nat, link : Link \cup {Nothing}]]
        /\ RowsNumbered' /\ RowsLive'
    BY <2>2, <2>3, RecordAdds
  <2>5. PICK p \in Row : /\ p \notin book /\ book' = book \cup {p}
                         /\ p.order = o /\ p.reference = Nothing
    BY <2>4
  <2>6. CollectTypeOK'
    <3>1. UNCHANGED <<desk, links, customer, review, deleting, posted, cut, forgot>>
          /\ excused' \in SUBSET Order /\ raced' \in SUBSET Desk
      BY <1>0, <1>19 DEF PayByHand, Overtake, CollectTypeOK
    <3> QED BY <1>0, <2>1, <2>4, <3>1 DEF CollectTypeOK
  <2>7. DeletesOwn'
    <3>1. \A x \in Order : orders'[x].live = orders[x].live /\ RowsOf(x) \subseteq RowsOf(x)'
      BY <1>0, <2>2, <2>4, <2>5 DEF CollectTypeOK, RowsOf
    <3> QED BY <1>0, <1>19, <3>1 DEF DeletesOwn, PayByHand
  <2>8. LinkRows'
    <3>1. Nothing \notin Link BY CollectionsAssumption
    <3> QED BY <1>0, <1>19, <2>5, <3>1 DEF LinkRows, PayByHand
  <2> QED BY <2>4, <2>6, <2>7, <2>8 DEF RowsInv
<1> QED BY <1>1, <1>2, <1>3, <1>4, <1>5, <1>6, <1>7, <1>8, <1>9, <1>10, <1>11, <1>12, <1>13,
           <1>14, <1>15, <1>16, <1>17, <1>18, <1>19 DEF CollectNext

\* Every variable keeps its type: whatever the requests do, a row has an order,
\* a positive amount and a number of its own within the bound.
THEOREM CollectionsTyped == CollectSpec => []CollectTypeOK
<1>1. RowsInv => CollectTypeOK BY DEF RowsInv
<1> QED BY <1>1, RowsInit, RowsStep, PTL DEF CollectSpec

----------------------------------------------------------------------------
(***************************************************************************)
(* The ledger's promise: Collections implements PaymentLedger.             *)
(***************************************************************************)

PaidOf == [o \in LiveOrders |-> orders[o].paid]

LEMMA LedgerStutters ==
    ASSUME book' = book, \A o \in Order : /\ orders'[o].live = orders[o].live
                                          /\ orders'[o].paid = orders[o].paid
    PROVE  UNCHANGED <<book, PaidOf>>
<1>1. LiveOrders' = LiveOrders BY DEF LiveOrders
<1>2. \A o \in LiveOrders : orders'[o].paid = orders[o].paid BY DEF LiveOrders
<1> QED BY <1>1, <1>2 DEF PaidOf

\* One row more, with a reference nobody had, is money received.
LEMMA LedgerReceives ==
    ASSUME CollectTypeOK, NEW p \in Row, p \notin book, book' = book \cup {p},
           orders[p.order].live, ~Booked(p.reference),
           orders' = [orders EXCEPT ![p.order].paid = @ + p.amount]
    PROVE  Ledger!Receive
<1>1. p.order \in Order /\ p.amount \in Nat \ {0} BY DEF Row
<1>2. p \in book' \ book OBVIOUS
<1>3. p.order \in DOMAIN PaidOf BY <1>1 DEF PaidOf, LiveOrders
<1>4. p.reference # Nothing => \A q \in book : q.reference # p.reference BY DEF Booked
<1>5. PaidOf' = [PaidOf EXCEPT ![p.order] = @ + p.amount]
  <2>1. /\ \A o \in Order : orders'[o].live = orders[o].live
        /\ \A o \in Order \ {p.order} : orders'[o].paid = orders[o].paid
        /\ orders'[p.order].paid = orders[p.order].paid + p.amount
    BY <1>1 DEF CollectTypeOK
  <2>2. LiveOrders' = LiveOrders /\ LiveOrders \subseteq Order BY <2>1 DEF LiveOrders
  <2>3. DOMAIN PaidOf = LiveOrders /\ \A o \in LiveOrders : PaidOf[o] = orders[o].paid
    BY DEF PaidOf
  <2>4. PaidOf' = [o \in LiveOrders |-> orders'[o].paid] BY <2>2 DEF PaidOf
  <2>5. [PaidOf EXCEPT ![p.order] = @ + p.amount]
          = [o \in LiveOrders |-> IF o = p.order THEN orders[o].paid + p.amount
                                                 ELSE orders[o].paid]
    BY <2>3
  <2>6. \A o \in LiveOrders : orders'[o].paid = IF o = p.order THEN orders[o].paid + p.amount
                                                               ELSE orders[o].paid
    BY <2>1, <2>2
  <2> QED BY <2>4, <2>5, <2>6
<1>6. p.amount > 0 BY <1>1
<1> QED BY <1>2, <1>3, <1>4, <1>5, <1>6 DEF Ledger!Receive, PaidOf

\* The rows of one bill and the bill: a deletion.
LEMMA LedgerErases ==
    ASSUME CollectTypeOK, NEW o \in Order, orders[o].live,
           book' = {p \in book : p.order # o},
           orders' = [orders EXCEPT ![o].live = FALSE]
    PROVE  Ledger!Erase(o)
<1>1. o \in DOMAIN PaidOf BY DEF PaidOf, LiveOrders
<1>2. LiveOrders' = LiveOrders \ {o} BY DEF LiveOrders, CollectTypeOK
<1>3. \A x \in LiveOrders \ {o} : orders'[x].paid = orders[x].paid
  BY DEF LiveOrders, CollectTypeOK
<1>4. PaidOf' = [x \in LiveOrders \ {o} |-> orders[x].paid] BY <1>2, <1>3 DEF PaidOf
<1>5. DOMAIN PaidOf = LiveOrders /\ \A x \in LiveOrders : PaidOf[x] = orders[x].paid
  BY DEF PaidOf
<1>6. PaidOf' = [x \in DOMAIN PaidOf \ {o} |-> PaidOf[x]] BY <1>4, <1>5
<1> QED BY <1>1, <1>6 DEF Ledger!Erase, PaidOf

\* Every step of the requests is a step of the ledger, or none.
LEMMA LedgerStep ==
    ASSUME RowsInv, [CollectNext]_collectVars
    PROVE  [Ledger!LedgerNext]_<<book, PaidOf>>
<1>0. CollectTypeOK BY DEF RowsInv
<1> DEFINE Goal == [Ledger!LedgerNext]_<<book, PaidOf>>
<1>s. UNCHANGED <<book, PaidOf>> => Goal OBVIOUS
<1>n. Ledger!LedgerNext => Goal OBVIOUS
<1>k. UNCHANGED <<book, orders>> => Goal BY <1>s, LedgerStutters
<1> HIDE DEF Goal
<1>1. ASSUME NEW d \in Desk, \/ \E r \in Sheet : Open(d, r)
                             \/ AlreadyDone(d) \/ Split(d) \/ LoseRace(d) \/ Answer(d) \/ Die(d)
      PROVE  Goal
  BY <1>1, <1>k DEF Open, AlreadyDone, Split, LoseRace, Answer, Die
<1>2. ASSUME NEW d \in Desk, NEW reread \in BOOLEAN, Pay(d, reread) PROVE Goal
  <2>1. PICK p \in Row : /\ p \notin book /\ book' = book \cup {p}
                         /\ p.order = Target(d) /\ p.amount = Take(d) /\ p.reference = RefOf(d)
    BY <1>2, PayAdds
  <2>2. orders[Target(d)].live /\ ~Booked(RefOf(d)) BY <1>2 DEF Pay
  <2>3. orders' = [orders EXCEPT ![Target(d)].paid = @ + Take(d)] BY <1>2, PayAdds
  <2>4. orders' = [orders EXCEPT ![p.order].paid = @ + p.amount] BY <2>1, <2>3
  <2>5. orders[p.order].live /\ ~Booked(p.reference) BY <2>1, <2>2
  <2>6. Ledger!Receive BY <1>0, <2>1, <2>4, <2>5, LedgerReceives
  <2> QED BY <2>6, <1>n DEF Ledger!LedgerNext
<1>3. ASSUME NEW l \in Link, \/ \E o \in Order : AskLink(o, l)
                             \/ PayLink(l) \/ LinkIgnored(l) \/ LinkReviewed(l)
      PROVE  Goal
  BY <1>3, <1>k DEF AskLink, PayLink, LinkIgnored, LinkReviewed
<1>4. ASSUME NEW l \in Link, SaveLink(l) PROVE Goal
  <2>1. book' = book /\ orders' = [orders EXCEPT ![links[l].order].link = l]
    BY <1>4 DEF SaveLink
  <2>2. \A o \in Order : orders'[o].live = orders[o].live /\ orders'[o].paid = orders[o].paid
    BY <1>0, <2>1 DEF CollectTypeOK
  <2> QED BY <2>1, <2>2, <1>s, LedgerStutters
<1>5. ASSUME NEW l \in Link, LinkPosted(l) PROVE Goal
  <2>1. links[l] \in Made /\ links[l] # Unmade
    BY <1>0, <1>5 DEF LinkPosted, CollectTypeOK, Unmade, Made
  <2>2. links[l].order \in Order /\ links[l].amount \in Nat \ {0}
    BY <2>1 DEF Made, RowsInv, LinkRows
  <2>3. /\ RecordPayment(links[l].order, links[l].amount, l) /\ orders[links[l].order].live
        /\ ~Booked(l) /\ l \in Sheet \cup Link \cup {Nothing}
    BY <1>5 DEF LinkPosted
  <2>4. /\ \E p \in Row : /\ p \notin book /\ book' = book \cup {p}
                          /\ p.order = links[l].order /\ p.amount = links[l].amount
                          /\ p.reference = l
        /\ orders' = [orders EXCEPT ![links[l].order].paid = @ + links[l].amount]
    BY <2>2, <2>3, RecordAdds
  <2>5. PICK p \in Row : /\ p \notin book /\ book' = book \cup {p}
                         /\ p.order = links[l].order /\ p.amount = links[l].amount
                         /\ p.reference = l
    BY <2>4
  <2>6. orders' = [orders EXCEPT ![p.order].paid = @ + p.amount] BY <2>4, <2>5
  <2>7. orders[p.order].live /\ ~Booked(p.reference) BY <2>3, <2>5
  <2>8. Ledger!Receive BY <1>0, <2>5, <2>6, <2>7, LedgerReceives
  <2> QED BY <2>8, <1>n DEF Ledger!LedgerNext
<1>6. ASSUME NEW o \in Order, NEW total \in Prices, Reprice(o, total) PROVE Goal
  <2>1. book' = book /\ orders' = [orders EXCEPT ![o].total = total] BY <1>6 DEF Reprice
  <2>2. \A x \in Order : orders'[x].live = orders[x].live /\ orders'[x].paid = orders[x].paid
    BY <1>0, <2>1 DEF CollectTypeOK
  <2> QED BY <2>1, <2>2, <1>s, LedgerStutters
<1>7. ASSUME NEW o \in Order, Cancel(o) PROVE Goal
  <2>1. book' = book /\ orders' = [orders EXCEPT ![o].cancelled = TRUE] BY <1>7 DEF Cancel
  <2>2. \A x \in Order : orders'[x].live = orders[x].live /\ orders'[x].paid = orders[x].paid
    BY <1>0, <2>1 DEF CollectTypeOK
  <2> QED BY <2>1, <2>2, <1>s, LedgerStutters
<1>8. ASSUME NEW o \in Order, StartDelete(o) PROVE Goal
  BY <1>8, <1>k DEF StartDelete
<1>9. ASSUME NEW o \in Order, FinishDelete(o) PROVE Goal
  <2>1. deleting[o] # Nothing BY <1>9 DEF FinishDelete
  <2>2. CASE UNCHANGED <<book, orders>> BY <2>2, <1>k
  <2>3. CASE /\ RowsOf(o) \subseteq deleting[o]
             /\ book' = book \ deleting[o]
             /\ orders' = [orders EXCEPT ![o].live = FALSE]
    <3>1. orders[o].live /\ deleting[o] = RowsOf(o) BY <2>1, <2>3 DEF RowsInv, DeletesOwn
    <3>2. book' = {p \in book : p.order # o} BY <2>3, <3>1 DEF RowsOf
    <3>3. Ledger!Erase(o) BY <1>0, <2>3, <3>1, <3>2, LedgerErases
    <3> QED BY <3>3, <1>n DEF Ledger!LedgerNext
  <2> QED BY <1>9, <2>2, <2>3 DEF FinishDelete
<1>10. ASSUME UNCHANGED collectVars PROVE Goal BY <1>10, <1>k DEF collectVars
<1>11. ASSUME NEW o \in Order, NEW n \in Tender, PayByHand(o, n) PROVE Goal
  <2>1. n \in Nat \ {0} BY CollectionsAssumption
  <2>2. RecordPayment(o, n, Nothing) /\ orders[o].live /\ Nothing \in Sheet \cup Link \cup {Nothing}
    BY <1>11 DEF PayByHand
  <2>3. /\ \E p \in Row : /\ p \notin book /\ book' = book \cup {p}
                          /\ p.order = o /\ p.amount = n /\ p.reference = Nothing
        /\ orders' = [orders EXCEPT ![o].paid = @ + n]
    BY <1>0, <2>1, <2>2, RecordAdds
  <2>4. PICK p \in Row : /\ p \notin book /\ book' = book \cup {p}
                         /\ p.order = o /\ p.amount = n /\ p.reference = Nothing
    BY <2>3
  <2>5. orders' = [orders EXCEPT ![p.order].paid = @ + p.amount] BY <2>3, <2>4
  <2>6. orders[p.order].live /\ ~Booked(p.reference) BY <2>2, <2>4 DEF Booked
  <2>7. Ledger!Receive BY <1>0, <2>4, <2>5, <2>6, LedgerReceives
  <2> QED BY <2>7, <1>n DEF Ledger!LedgerNext
<1>12. Goal
  BY <1>1, <1>2, <1>3, <1>4, <1>5, <1>6, <1>7, <1>8, <1>9, <1>10, <1>11 DEF CollectNext
<1> QED BY <1>12 DEF Goal

\* app/models/payment.py: whatever requests, links and deletions overlap, the
\* payments table only gains rows, one at a time, each with a reference nobody
\* has, and orders.amount_paid moves with them; a bill that is deleted takes
\* all its rows along.
THEOREM LedgerImplemented == CollectSpec => LedgerKept
<1>1. CollectInit => Ledger!LedgerInit
  <2> SUFFICES ASSUME CollectInit PROVE Ledger!LedgerInit OBVIOUS
  <2>1. LiveOrders = Order /\ \A o \in Order : orders[o].paid = 0
    BY DEF CollectInit, LiveOrders
  <2> QED BY <2>1 DEF CollectInit, Ledger!LedgerInit
<1>2. RowsInv /\ [CollectNext]_collectVars => [Ledger!LedgerNext]_<<book, PaidOf>>
  BY LedgerStep
<1>3. RowsInv /\ [CollectNext]_collectVars
          => [Ledger!LedgerNext]_<<book, [o \in LiveOrders |-> orders[o].paid]>>
  BY <1>2 DEF PaidOf
<1> QED BY <1>1, <1>3, RowsInit, RowsStep, PTL
    DEF CollectSpec, LedgerKept, Ledger!LedgerSpec

----------------------------------------------------------------------------
(***************************************************************************)
(* The money of a sheet, and of a link.  The reference is on the first row *)
(* of a collection, so a sheet that is booked was posted from, one request *)
(* at most is still at it, and what is posted and what it has left make    *)
(* the amount.                                                             *)
(***************************************************************************)

\* A request that has paid its first bill.
Working(d, r) == desk[d].at = "paying" /\ desk[d].sheet = r /\ ~desk[d].first

Kept == Sheet \ forgot

UnbookedIsNone == \A r \in Kept : ~Booked(r) => posted[r] = 0
WorkAddsUp ==
    \A d \in Desk, r \in Kept :
        Working(d, r) => Booked(r) /\ posted[r] + desk[d].left = Body[r].amount
OneAtWork == \A d, e \in Desk, r \in Kept : Working(d, r) /\ Working(e, r) => d = e
BookedIsWhole ==
    \A r \in Kept : Booked(r) /\ r \notin cut /\ (\A d \in Desk : ~Working(d, r))
                        => posted[r] = Body[r].amount
FirstHasAll ==
    \A d \in Desk : desk[d].at = "paying" /\ desk[d].first
                        => desk[d].left = Body[desk[d].sheet].amount
AnsweredIsBooked == \A r \in Kept : customer[r] = "answered" => Booked(r)

SheetsInv == /\ UnbookedIsNone /\ WorkAddsUp /\ OneAtWork /\ BookedIsWhole
             /\ FirstHasAll /\ AnsweredIsBooked /\ NeverTwice

\* What a link's answer rests on.
LinksInv == PaidLinkAccounted /\ \A l \in Link : customer[l] = "answered" => links[l].at = "paid"

\* A request nobody has overtaken knows the dues as they are, and what it has
\* left fits in them.
Own(d) == Body[desk[d].sheet].order
KnownTo(d) ==
    /\ desk[d].at = "opened" => desk[d].due = Due(Own(d))
    /\ desk[d].at = "paying" =>
          /\ Own(d) \notin DOMAIN desk[d].dues
          /\ \A x \in DOMAIN desk[d].dues : desk[d].dues[x] = Due(x)
FitsFor(d) ==
    desk[d].at = "paying" /\ desk[d].left > 0
        => desk[d].left <= Due(Own(d)) + SumOver(desk[d].dues, Unsettled(d))

DuesKnown == \A d \in Desk \ raced : KnownTo(d)
LeftFits  == \A d \in Desk \ raced : FitsFor(d)

DuesInv == DuesKnown /\ LeftFits /\ OverpaidExplained

----------------------------------------------------------------------------

LEMMA MoneyInit == CollectInit => SheetsInv /\ LinksInv /\ DuesInv
<1> SUFFICES ASSUME CollectInit PROVE SheetsInv /\ LinksInv /\ DuesInv OBVIOUS
<1>1. \A r \in Sheet : ~Booked(r) /\ posted[r] = 0 /\ customer[r] = "waits"
  BY DEF CollectInit, Booked
<1>2. \A d \in Desk : desk[d].at = "idle" BY DEF CollectInit, Idle
<1>3. SheetsInv
  BY <1>1, <1>2, CollectionsAssumption
     DEF SheetsInv, UnbookedIsNone, WorkAddsUp, OneAtWork, BookedIsWhole, FirstHasAll,
         AnsweredIsBooked, NeverTwice, Kept, Working
<1>4. \A l \in Link : customer[l] = "waits" BY DEF CollectInit
<1>5. LinksInv BY <1>4 DEF LinksInv, PaidLinkAccounted
<1>6. \A o \in Order : orders[o].paid = 0 /\ orders[o].total \in Nat
  BY CollectionsAssumption DEF CollectInit
<1>7. DuesInv
  BY <1>2, <1>6 DEF DuesInv, DuesKnown, LeftFits, KnownTo, FitsFor, OverpaidExplained
<1> QED BY <1>3, <1>5, <1>7

\* One request moves, and no money does: it may give up its sheet only when
\* the money is all there or the sheet is known to be cut.
LEMMA SheetsMove ==
    ASSUME RowsInv, SheetsInv, NEW d \in Desk,
           UNCHANGED <<book, posted, forgot>>, cut \subseteq cut',
           \A e \in Desk \ {d} : desk'[e] = desk[e],
           desk'[d].at = "paying" => /\ desk'[d].first
                                     /\ desk'[d].left = Body[desk'[d].sheet].amount,
           \A r \in Kept : Working(d, r) => r \in cut' \/ posted[r] = Body[r].amount,
           \A r \in Kept : customer'[r] = "answered" => customer[r] = "answered" \/ Booked(r)
    PROVE  SheetsInv'
<1> USE DEF SheetsInv
<1>1. Kept' = Kept /\ \A r \in Sheet : Booked(r)' = Booked(r) BY DEF Kept, Booked
<1>2. /\ \A r \in Sheet : ~Working(d, r)'
      /\ \A e \in Desk \ {d}, r \in Sheet : Working(e, r)' = Working(e, r)
  BY DEF Working
<1>3. Kept \subseteq Sheet BY DEF Kept
<1>4. UnbookedIsNone' BY <1>1, <1>3 DEF UnbookedIsNone
<1>5. WorkAddsUp' BY <1>1, <1>2, <1>3 DEF WorkAddsUp
<1>6. OneAtWork' BY <1>1, <1>2, <1>3 DEF OneAtWork
<1>7. BookedIsWhole'
  <2> SUFFICES ASSUME NEW r \in Kept, Booked(r), r \notin cut', \A e \in Desk : ~Working(e, r)'
               PROVE  posted[r] = Body[r].amount
    BY <1>1, <1>3 DEF BookedIsWhole
  <2>1. r \notin cut OBVIOUS
  <2>2. CASE Working(d, r) BY <2>2
  <2>3. CASE ~Working(d, r)
    <3>1. \A e \in Desk : ~Working(e, r) BY <2>3, <1>2, <1>3
    <3> QED BY <2>1, <3>1 DEF BookedIsWhole
  <2> QED BY <2>2, <2>3
<1>8. FirstHasAll' BY DEF FirstHasAll
<1>9. AnsweredIsBooked' BY <1>1, <1>3 DEF AnsweredIsBooked
<1>10. NeverTwice' BY DEF NeverTwice
<1> QED BY <1>4, <1>5, <1>6, <1>7, <1>8, <1>9, <1>10

\* No request moves, and no sheet is booked or, but for one whose row is
\* deleted, unbooked.
LEMMA SheetsStay ==
    ASSUME RowsInv, SheetsInv, UNCHANGED <<desk, posted>>, cut \subseteq cut', forgot \subseteq forgot',
           \A r \in Sheet \ forgot' : Booked(r)' = Booked(r),
           \A r \in Sheet : customer'[r] = customer[r]
    PROVE  SheetsInv'
<1> USE DEF SheetsInv
<1>1. Kept' \subseteq Kept /\ Kept \subseteq Sheet /\ Kept' = Sheet \ forgot' BY DEF Kept
<1>2. \A e \in Desk, r \in Sheet : Working(e, r)' = Working(e, r) BY DEF Working
<1>3. UnbookedIsNone' BY <1>1 DEF UnbookedIsNone
<1>4. WorkAddsUp' BY <1>1, <1>2 DEF WorkAddsUp
<1>5. OneAtWork' BY <1>1, <1>2 DEF OneAtWork
<1>6. BookedIsWhole'
  <2> SUFFICES ASSUME NEW r \in Kept', Booked(r), r \notin cut', \A e \in Desk : ~Working(e, r)
               PROVE  posted[r] = Body[r].amount
    BY <1>1, <1>2 DEF BookedIsWhole
  <2> QED BY <1>1 DEF BookedIsWhole
<1>7. FirstHasAll' BY DEF FirstHasAll
<1>8. AnsweredIsBooked' BY <1>1 DEF AnsweredIsBooked
<1>9. NeverTwice' BY DEF NeverTwice
<1> QED BY <1>3, <1>4, <1>5, <1>6, <1>7, <1>8, <1>9

\* A request pays a bill.
LEMMA SheetsPay ==
    ASSUME RowsInv, SheetsInv, NEW d \in Desk, NEW reread \in BOOLEAN, Pay(d, reread)
    PROVE  SheetsInv'
<1> USE DEF SheetsInv
<1>0. CollectTypeOK BY DEF RowsInv
<1>s. PICK s, n : s = desk[d].sheet /\ n = Take(d) OBVIOUS
<1>1. PICK p \in Row : p \notin book /\ book' = book \cup {p} /\ p.reference = RefOf(d)
  BY PayAdds
<1>2. desk[d].at = "paying" /\ desk[d].left > 0 /\ n \in Nat \ {0} /\ n <= desk[d].left
  BY <1>s, PayAdds
<1>3. s \in Sheet /\ desk[d].left \in Nat /\ desk[d].first \in BOOLEAN
      /\ Body[s].amount \in Nat \ {0}
  BY <1>0, <1>2, <1>s, PayingHolds
<1>4. /\ \A e \in Desk \ {d} : desk'[e] = desk[e]
      /\ desk'[d].at = "paying" /\ desk'[d].sheet = s
      /\ desk'[d].left = desk[d].left - n /\ desk'[d].first = FALSE
  <2>1. orders' \in [Order -> [live : BOOLEAN, cancelled : BOOLEAN, total : Nat,
                                paid : Nat, link : Link \cup {Nothing}]]
    BY PayAdds
  <2> QED BY <1>0, <1>s, <2>1, PayLeaves
<1>5. /\ posted' = [posted EXCEPT ![s] = @ + n] /\ ~Booked(RefOf(d))
      /\ UNCHANGED <<customer, cut, forgot>> /\ posted \in [Sheet -> Nat]
  BY <1>0, <1>s DEF Pay, CollectTypeOK
<1>6. posted'[s] = posted[s] + n /\ posted[s] \in Nat /\ \A r \in Sheet \ {s} : posted'[r] = posted[r]
  BY <1>3, <1>5
<1>7. RefOf(d) = IF desk[d].first THEN s ELSE Nothing BY <1>s DEF RefOf
<1>8. /\ \A r \in Sheet \ {s} : Booked(r)' = Booked(r)
      /\ desk[d].first => ~Booked(s) /\ Booked(s)'
      /\ ~desk[d].first => Booked(s)' = Booked(s)
  <2>1. \A r \in Sheet : r # Nothing BY CollectionsAssumption
  <2>2. \A r \in Sheet : Booked(r)' <=> (Booked(r) \/ p.reference = r) BY <1>1, <2>1 DEF Booked
  <2>3. ~Booked(RefOf(d)) BY <1>5
  <2>4. desk[d].first => RefOf(d) = s /\ p.reference = s BY <1>1, <1>7
  <2>5. ~desk[d].first => p.reference \notin Sheet BY <1>1, <1>7, <2>1
  <2>6. \A r \in Sheet \ {s} : Booked(r)' <=> Booked(r) BY <1>3, <2>2, <2>4, <2>5
  <2>7. desk[d].first => ~Booked(s) /\ Booked(s)' BY <1>3, <2>2, <2>3, <2>4
  <2>8. ~desk[d].first => (Booked(s)' <=> Booked(s)) BY <1>3, <2>2, <2>5
  <2>9. \A r : Booked(r) \in BOOLEAN /\ Booked(r)' \in BOOLEAN BY DEF Booked
  <2> HIDE DEF Booked
  <2> QED BY <2>6, <2>7, <2>8, <2>9
<1>9. Kept' = Kept /\ Kept \subseteq Sheet BY <1>5 DEF Kept
<1>10. /\ \A e \in Desk \ {d}, r \in Sheet : Working(e, r)' = Working(e, r)
       /\ Working(d, s)' /\ \A r \in Sheet \ {s} : ~Working(d, r)' /\ ~Working(d, r)
       /\ Working(d, s) <=> ~desk[d].first
  BY <1>2, <1>4, <1>s DEF Working
\* What the sheet has posted and left, before it was paid from and after.
<1>11. ASSUME s \in Kept
       PROVE  /\ posted[s] + desk[d].left = Body[s].amount
              /\ \A e \in Desk \ {d} : ~Working(e, s)
              /\ Booked(s)'
  <2>1. CASE desk[d].first
    <3>1. posted[s] = 0 BY <2>1, <1>8, <1>11 DEF UnbookedIsNone
    <3>2. desk[d].left = Body[s].amount BY <2>1, <1>2, <1>s DEF FirstHasAll
    <3>3. \A e \in Desk : ~Working(e, s) BY <2>1, <1>8, <1>11 DEF WorkAddsUp
    <3> QED BY <3>1, <3>2, <3>3, <2>1, <1>3, <1>8
  <2>2. CASE ~desk[d].first
    <3>1. Working(d, s) BY <2>2, <1>10
    <3>2. posted[s] + desk[d].left = Body[s].amount /\ Booked(s)
      BY <3>1, <1>11 DEF WorkAddsUp
    <3>3. \A e \in Desk \ {d} : ~Working(e, s) BY <3>1, <1>11 DEF OneAtWork
    <3> QED BY <3>2, <3>3, <2>2, <1>8
  <2> QED BY <2>1, <2>2
<1>12. UnbookedIsNone'
  BY <1>6, <1>8, <1>9, <1>11 DEF UnbookedIsNone
<1>13. WorkAddsUp'
  <2> SUFFICES ASSUME NEW e \in Desk, NEW r \in Kept, Working(e, r)'
               PROVE  Booked(r)' /\ posted'[r] + desk'[e].left = Body[r].amount
    BY <1>9 DEF WorkAddsUp
  <2>1. CASE e = d
    <3>1. r = s BY <2>1, <1>9, <1>10
    <3>2. posted[s] + desk[d].left = Body[s].amount /\ Booked(s)' BY <3>1, <1>11
    <3>3. posted'[s] + desk'[d].left = Body[s].amount
      BY <3>2, <1>2, <1>3, <1>4, <1>6
    <3> QED BY <2>1, <3>1, <3>2, <3>3
  <2>2. CASE e # d
    <3>1. Working(e, r) BY <2>2, <1>9, <1>10
    <3>2. r # s BY <3>1, <2>2, <1>11
    <3> QED BY <3>1, <3>2, <2>2, <1>4, <1>6, <1>8, <1>9 DEF WorkAddsUp
  <2> QED BY <2>1, <2>2
<1>14. OneAtWork'
  <2> SUFFICES ASSUME NEW e \in Desk, NEW f \in Desk, NEW r \in Kept,
                      Working(e, r)', Working(f, r)'
               PROVE  e = f
    BY <1>9 DEF OneAtWork
  <2>1. CASE r = s BY <2>1, <1>9, <1>10, <1>11
  <2>2. CASE r # s
    <3>1. e # d /\ f # d BY <2>2, <1>9, <1>10
    <3>2. Working(e, r) /\ Working(f, r) BY <3>1, <1>9, <1>10
    <3> QED BY <3>2 DEF OneAtWork
  <2> QED BY <2>1, <2>2
<1>15. BookedIsWhole'
  <2> SUFFICES ASSUME NEW r \in Kept, Booked(r)', r \notin cut, \A e \in Desk : ~Working(e, r)'
               PROVE  posted'[r] = Body[r].amount
    BY <1>5, <1>9 DEF BookedIsWhole
  <2>1. r # s BY <1>10
  <2>2. \A e \in Desk : ~Working(e, r) BY <2>1, <1>9, <1>10
  <2> QED BY <2>1, <2>2, <1>6, <1>8, <1>9 DEF BookedIsWhole
<1>16. FirstHasAll' BY <1>4 DEF FirstHasAll
<1>17. AnsweredIsBooked' BY <1>5, <1>8, <1>9, <1>11 DEF AnsweredIsBooked
<1>18. NeverTwice'
  <2> SUFFICES ASSUME NEW r \in Kept PROVE posted'[r] <= Body[r].amount
    BY <1>5 DEF NeverTwice, Kept
  <2>1. CASE r = s BY <2>1, <1>2, <1>3, <1>6, <1>11
  <2>2. CASE r # s BY <2>2, <1>6, <1>9 DEF NeverTwice, Kept
  <2> QED BY <2>1, <2>2
<1> QED BY <1>12, <1>13, <1>14, <1>15, <1>16, <1>17, <1>18

LEMMA SheetsStep == RowsInv /\ SheetsInv /\ [CollectNext]_collectVars => SheetsInv'
<1> SUFFICES ASSUME RowsInv, SheetsInv, [CollectNext]_collectVars PROVE SheetsInv' OBVIOUS
<1>0. CollectTypeOK BY DEF RowsInv
<1>c. DOMAIN customer = Sheet \cup Link /\ DOMAIN desk = Desk BY <1>0 DEF CollectTypeOK
<1>k. Kept \subseteq Sheet BY DEF Kept
<1>1. ASSUME NEW d \in Desk, NEW r \in Sheet, Open(d, r) PROVE SheetsInv'
  <2>1. desk'[d].at = "opened" /\ \A e \in Desk \ {d} : desk'[e] = desk[e]
    BY <1>1, <1>c DEF Open
  <2>2. \A x \in Sheet : ~Working(d, x) BY <1>1 DEF Open, Idle, Working
  <2>3. UNCHANGED <<book, posted, forgot, cut, customer>> BY <1>1 DEF Open
  <2> QED BY <2>1, <2>2, <2>3, <1>k, SheetsMove
<1>2. ASSUME NEW d \in Desk, AlreadyDone(d) PROVE SheetsInv'
  <2>1. desk'[d].at = "idle" /\ \A e \in Desk \ {d} : desk'[e] = desk[e]
    BY <1>2, <1>c DEF AlreadyDone, Leave, Idle
  <2>2. \A x \in Sheet : ~Working(d, x) BY <1>2 DEF AlreadyDone, Working
  <2>3. UNCHANGED <<book, posted, forgot, cut>> /\ Booked(desk[d].sheet)
        /\ \A x \in Sheet \ {desk[d].sheet} : customer'[x] = customer[x]
    BY <1>2, <1>c DEF AlreadyDone
  <2> QED BY <2>1, <2>2, <2>3, <1>k, SheetsMove
<1>3. ASSUME NEW d \in Desk, Split(d) PROVE SheetsInv'
  <2>1. /\ desk'[d].at = "idle"
           \/ /\ desk'[d].at = "paying" /\ desk'[d].first
              /\ desk'[d].left = Body[desk'[d].sheet].amount
        /\ \A e \in Desk \ {d} : desk'[e] = desk[e]
    BY <1>3, <1>c DEF Split, Idle
  <2>2. \A x \in Sheet : ~Working(d, x) BY <1>3 DEF Split, Working
  <2>3. UNCHANGED <<book, posted, forgot, cut, customer>> BY <1>3 DEF Split
  <2> QED BY <2>1, <2>2, <2>3, <1>k, SheetsMove
<1>4. ASSUME NEW d \in Desk, LoseRace(d) PROVE SheetsInv'
  <2>1. desk'[d].at = "idle" /\ \A e \in Desk \ {d} : desk'[e] = desk[e]
    BY <1>4, <1>c DEF LoseRace, Leave, Idle
  <2>2. desk[d].first /\ Booked(desk[d].sheet)
    BY <1>4 DEF LoseRace, Booked, RefOf
  <2>3. \A x \in Sheet : ~Working(d, x) BY <2>2 DEF Working
  <2>4. UNCHANGED <<book, posted, forgot, cut>>
        /\ \A x \in Sheet \ {desk[d].sheet} : customer'[x] = customer[x]
    BY <1>4, <1>c DEF LoseRace
  <2> QED BY <2>1, <2>2, <2>3, <2>4, <1>k, SheetsMove
<1>5. ASSUME NEW d \in Desk, Answer(d) PROVE SheetsInv'
  <2>1. desk'[d].at = "idle" /\ \A e \in Desk \ {d} : desk'[e] = desk[e]
    BY <1>5, <1>c DEF Answer, Leave, Idle
  <2>2. desk[d].at = "paying" /\ desk[d].left = 0 BY <1>5 DEF Answer
  <2>3. desk[d].sheet \in Sheet /\ Body[desk[d].sheet].amount \in Nat \ {0}
        /\ desk[d].first \in BOOLEAN
    BY <2>2, <1>0, PayingHolds
  <2>4. ~desk[d].first BY <2>2, <2>3 DEF SheetsInv, FirstHasAll
  <2>5. Working(d, desk[d].sheet) /\ \A x \in Sheet \ {desk[d].sheet} : ~Working(d, x)
    BY <2>2, <2>4 DEF Working
  <2>6. desk[d].sheet \in Kept => /\ Booked(desk[d].sheet)
                                  /\ posted[desk[d].sheet] + 0 = Body[desk[d].sheet].amount
    BY <2>2, <2>5 DEF SheetsInv, WorkAddsUp
  <2>7. desk[d].sheet \in Kept => posted[desk[d].sheet] = Body[desk[d].sheet].amount
    BY <2>3, <2>6, <1>0 DEF CollectTypeOK
  <2>8. UNCHANGED <<book, posted, forgot, cut>>
        /\ \A x \in Sheet \ {desk[d].sheet} : customer'[x] = customer[x]
    BY <1>5, <1>c DEF Answer
  <2> QED BY <2>1, <2>5, <2>6, <2>7, <2>8, <1>k, SheetsMove
<1>6. ASSUME NEW d \in Desk, Die(d) PROVE SheetsInv'
  <2>1. desk'[d].at = "idle" /\ \A e \in Desk \ {d} : desk'[e] = desk[e]
    BY <1>6, <1>c DEF Die, Leave, Idle
  <2>2. desk[d].at = "paying" /\ desk[d].sheet \in Sheet /\ desk[d].left \in Nat
    BY <1>6, <1>0, PayingHolds DEF Die
  <2>3. cut \subseteq cut' /\ UNCHANGED <<book, posted, forgot, customer>> BY <1>6 DEF Die
  <2>4. ASSUME NEW r \in Kept, Working(d, r) PROVE r \in cut' \/ posted[r] = Body[r].amount
    <3>1. r = desk[d].sheet /\ ~desk[d].first BY <2>4 DEF Working
    <3>2. CASE desk[d].left > 0 BY <3>1, <3>2, <1>6 DEF Die
    <3>3. CASE desk[d].left = 0
      <4>1. posted[r] + 0 = Body[r].amount BY <2>4, <3>3 DEF SheetsInv, WorkAddsUp
      <4>2. posted[r] \in Nat BY <1>0, <1>k DEF CollectTypeOK
      <4> QED BY <4>1, <4>2
    <3> QED BY <2>2, <3>2, <3>3
  <2> QED BY <2>1, <2>3, <2>4, SheetsMove
<1>7. ASSUME NEW d \in Desk, NEW reread \in BOOLEAN, Pay(d, reread) PROVE SheetsInv'
  BY <1>7, SheetsPay
<1>n. \A r \in Sheet : r # Nothing /\ r \notin Link BY CollectionsAssumption
<1>8. ASSUME NEW l \in Link, \/ \E o \in Order : AskLink(o, l)
                             \/ SaveLink(l) \/ PayLink(l) \/ LinkIgnored(l) \/ LinkReviewed(l)
      PROVE  SheetsInv'
  <2>1. UNCHANGED <<desk, posted, book, forgot>> /\ cut \subseteq cut'
        /\ \A r \in Sheet : customer'[r] = customer[r]
    BY <1>8, <1>c, <1>n DEF AskLink, SaveLink, PayLink, LinkIgnored, LinkReviewed, Acknowledge
  <2>2. \A r \in Sheet : Booked(r)' = Booked(r) BY <2>1 DEF Booked
  <2> QED BY <2>1, <2>2, SheetsStay
<1>9. ASSUME NEW l \in Link, LinkPosted(l) PROVE SheetsInv'
  <2>1. UNCHANGED <<desk, posted, forgot, cut>>
        /\ \A r \in Sheet : customer'[r] = customer[r]
    BY <1>9, <1>c, <1>n DEF LinkPosted, Acknowledge
  <2>2. \E p : p.reference = l /\ book' = book \cup {p}
    BY <1>9 DEF LinkPosted, RecordPayment
  <2>3. \A r \in Sheet : Booked(r)' = Booked(r) BY <2>2, <1>n DEF Booked
  <2> QED BY <2>1, <2>3, SheetsStay
<1>10. ASSUME NEW o \in Order, \/ \E total \in Prices : Reprice(o, total)
                               \/ Cancel(o) \/ StartDelete(o)
       PROVE  SheetsInv'
  <2>1. UNCHANGED <<desk, posted, book, forgot, cut, customer>>
    BY <1>10 DEF Reprice, Cancel, StartDelete
  <2>2. \A r \in Sheet : Booked(r)' = Booked(r) BY <2>1 DEF Booked
  <2> QED BY <2>1, <2>2, SheetsStay
<1>11. ASSUME NEW o \in Order, FinishDelete(o) PROVE SheetsInv'
  <2>1. UNCHANGED <<desk, posted, cut, customer>> /\ forgot \subseteq forgot'
    BY <1>11 DEF FinishDelete
  <2>2. ASSUME NEW r \in Sheet \ forgot' PROVE Booked(r)' = Booked(r)
    <3>1. CASE book' = book BY <3>1 DEF Booked
    <3>2. CASE /\ book' = book \ deleting[o]
               /\ forgot' = forgot \cup {x \in Sheet : \E p \in deleting[o] : p.reference = x}
      <4>1. \A p \in deleting[o] : p.reference # r BY <3>2
      <4>2. (\E p \in book : p.reference = r) <=> (\E p \in book' : p.reference = r)
        BY <3>2, <4>1
      <4> QED BY <4>2, <1>n DEF Booked
    <3> QED BY <3>1, <3>2, <1>11 DEF FinishDelete
  <2> QED BY <2>1, <2>2, SheetsStay
<1>12. CASE UNCHANGED collectVars
  <2>1. \A r \in Sheet : Booked(r)' = Booked(r) BY <1>12 DEF Booked, collectVars
  <2> QED BY <1>12, <2>1, SheetsStay DEF collectVars
<1>13. ASSUME NEW o \in Order, NEW n \in Tender, PayByHand(o, n) PROVE SheetsInv'
  <2>1. UNCHANGED <<desk, posted, forgot, cut, customer>> BY <1>13 DEF PayByHand
  <2>2. \E p : p.reference = Nothing /\ book' = book \cup {p}
    BY <1>13 DEF PayByHand, RecordPayment
  <2>3. \A r \in Sheet : Booked(r)' = Booked(r) BY <2>2, <1>n DEF Booked
  <2> QED BY <2>1, <2>3, SheetsStay
<1> QED BY <1>1, <1>2, <1>3, <1>4, <1>5, <1>6, <1>7, <1>8, <1>9, <1>10, <1>11, <1>12, <1>13
    DEF CollectNext

\* A link answered for stays accounted for.
LEMMA LinksStay ==
    ASSUME RowsInv, LinksInv,
           \A l \in Link : customer'[l] = "answered" => customer[l] = "answered",
           \A l \in Link : links[l].at = "paid" => links'[l] = links[l],
           \A l \in Link : Booked(l) => Booked(l)',
           review \subseteq review', cut \subseteq cut',
           \A o \in Order : orders'[o].live => orders[o].live
    PROVE  LinksInv'
<1>1. \A l \in Link : links[l].at = "paid" => links[l].order \in Order
  BY DEF RowsInv, CollectTypeOK, Unmade, Made
<1> QED BY <1>1 DEF LinksInv, PaidLinkAccounted

LEMMA LinksAnswer ==
    ASSUME RowsInv, LinksInv, NEW l \in Link, links[l].at = "paid",
           Booked(l)' \/ l \in review' \/ l \in cut' \/ ~orders[links[l].order].live,
           customer' = [customer EXCEPT ![l] = "answered"], UNCHANGED links,
           \A m \in Link : Booked(m) => Booked(m)',
           review \subseteq review', cut \subseteq cut',
           \A o \in Order : orders'[o].live = orders[o].live
    PROVE  LinksInv'
<1>1. \A m \in Link : links[m].at = "paid" => links[m].order \in Order
  BY DEF RowsInv, CollectTypeOK, Unmade, Made
<1>2. \A m \in Link \ {l} : customer'[m] = customer[m] BY DEF RowsInv, CollectTypeOK
<1> QED BY <1>1, <1>2 DEF LinksInv, PaidLinkAccounted

LEMMA LinksStep == RowsInv /\ LinksInv /\ [CollectNext]_collectVars => LinksInv'
<1> SUFFICES ASSUME RowsInv, LinksInv, [CollectNext]_collectVars PROVE LinksInv' OBVIOUS
<1>0. CollectTypeOK BY DEF RowsInv
<1>c. DOMAIN customer = Sheet \cup Link /\ DOMAIN links = Link BY <1>0 DEF CollectTypeOK
<1>n. \A l \in Link : l # Nothing /\ l \notin Sheet BY CollectionsAssumption
<1>b. book \subseteq book' => \A l \in Link : Booked(l) => Booked(l)' BY DEF Booked
<1>1. ASSUME NEW d \in Desk, \/ \E r \in Sheet : Open(d, r)
                             \/ Split(d) \/ Die(d)
      PROVE  LinksInv'
  <2>1. UNCHANGED <<links, book, orders, review, customer>> /\ cut \subseteq cut'
    BY <1>1 DEF Open, Split, Die
  <2> QED BY <2>1, <1>b, LinksStay
<1>2. ASSUME NEW d \in Desk, AlreadyDone(d) PROVE LinksInv'
  <2>1. desk[d].sheet \in Sheet BY <1>0, <1>2, OpenedHolds DEF AlreadyDone
  <2>2. \A l \in Link : customer'[l] = customer[l] BY <1>2, <1>c, <1>n, <2>1 DEF AlreadyDone
  <2> QED BY <1>2, <2>2, <1>b, LinksStay DEF AlreadyDone
<1>3. ASSUME NEW d \in Desk, LoseRace(d) \/ Answer(d) PROVE LinksInv'
  <2>1. desk[d].sheet \in Sheet BY <1>0, <1>3, PayingHolds DEF LoseRace, Answer
  <2>2. \A l \in Link : customer'[l] = customer[l]
    BY <1>3, <1>c, <1>n, <2>1 DEF LoseRace, Answer
  <2>3. UNCHANGED <<links, book, orders, review, cut>> BY <1>3 DEF LoseRace, Answer
  <2> QED BY <2>2, <2>3, <1>b, LinksStay
<1>4. ASSUME NEW d \in Desk, NEW reread \in BOOLEAN, Pay(d, reread) PROVE LinksInv'
  <2>1. orders' = [orders EXCEPT ![Target(d)].paid = @ + Take(d)] BY <1>4, PayAdds
  <2>2. \A o \in Order : orders'[o].live = orders[o].live BY <1>0, <2>1 DEF CollectTypeOK
  <2>3. UNCHANGED <<links, review, cut, customer>> /\ book \subseteq book'
    BY <1>4 DEF Pay, RecordPayment
  <2> QED BY <2>2, <2>3, <1>b, LinksStay
<1>5. ASSUME NEW l \in Link, NEW o \in Order, AskLink(o, l) PROVE LinksInv'
  <2>1. \A m \in Link : links[m].at = "paid" => links'[m] = links[m]
    BY <1>5, <1>c DEF AskLink, Unmade
  <2> QED BY <1>5, <2>1, <1>b, LinksStay DEF AskLink
<1>6. ASSUME NEW l \in Link, SaveLink(l) PROVE LinksInv'
  <2>1. \A m \in Link : links[m].at = "paid" => links'[m] = links[m]
    BY <1>6, <1>c DEF SaveLink
  <2>2. orders' = [orders EXCEPT ![links[l].order].link = l] BY <1>6 DEF SaveLink
  <2>3. \A x \in Order : orders'[x].live = orders[x].live BY <1>0, <2>2 DEF CollectTypeOK
  <2> QED BY <1>6, <2>1, <2>3, <1>b, LinksStay DEF SaveLink
<1>7. ASSUME NEW l \in Link, PayLink(l) PROVE LinksInv'
  <2>1. \A m \in Link : links[m].at = "paid" => links'[m] = links[m]
    BY <1>7, <1>c DEF PayLink
  <2> QED BY <1>7, <2>1, <1>b, LinksStay DEF PayLink
<1>8. ASSUME NEW l \in Link, LinkIgnored(l) PROVE LinksInv'
  <2>1. UNCHANGED <<links, book, orders, review, cut>> /\ links[l].at = "paid"
        /\ customer' = [customer EXCEPT ![l] = "answered"]
        /\ (~orders[links[l].order].live \/ Booked(l))
    BY <1>8 DEF LinkIgnored, Acknowledge
  <2> QED BY <2>1, <1>b, LinksAnswer
<1>9. ASSUME NEW l \in Link, LinkPosted(l) PROVE LinksInv'
  <2>1. UNCHANGED <<links, review, cut>> /\ links[l].at = "paid"
        /\ customer' = [customer EXCEPT ![l] = "answered"]
        /\ book \subseteq book'
    BY <1>9 DEF LinkPosted, Acknowledge, RecordPayment
  <2>2. Booked(l)'
    <3>1. \E p : p.reference = l /\ book' = book \cup {p} BY <1>9 DEF LinkPosted, RecordPayment
    <3> QED BY <3>1, <1>n DEF Booked
  <2>3. orders' = [orders EXCEPT ![links[l].order].paid = @ + links[l].amount]
    BY <1>9 DEF LinkPosted, RecordPayment
  <2>4. \A o \in Order : orders'[o].live = orders[o].live BY <1>0, <2>3 DEF CollectTypeOK
  <2> QED BY <2>1, <2>2, <2>4, <1>b, LinksAnswer
<1>10. ASSUME NEW l \in Link, LinkReviewed(l) PROVE LinksInv'
  <2>1. UNCHANGED <<links, book, orders>> /\ links[l].at = "paid"
        /\ customer' = [customer EXCEPT ![l] = "answered"]
        /\ review \subseteq review' /\ cut \subseteq cut' /\ (l \in review' \/ l \in cut')
    BY <1>10 DEF LinkReviewed, Acknowledge
  <2> QED BY <2>1, <1>b, LinksAnswer
<1>11. ASSUME NEW o \in Order, NEW total \in Prices, Reprice(o, total) PROVE LinksInv'
  <2>1. \A x \in Order : orders'[x].live = orders[x].live
    BY <1>0, <1>11 DEF Reprice, CollectTypeOK
  <2> QED BY <1>11, <2>1, <1>b, LinksStay DEF Reprice
<1>12. ASSUME NEW o \in Order, Cancel(o) PROVE LinksInv'
  <2>1. \A x \in Order : orders'[x].live = orders[x].live
    BY <1>0, <1>12 DEF Cancel, CollectTypeOK
  <2> QED BY <1>12, <2>1, <1>b, LinksStay DEF Cancel
<1>13. ASSUME NEW o \in Order, StartDelete(o) PROVE LinksInv'
  BY <1>13, <1>b, LinksStay DEF StartDelete
<1>14. ASSUME NEW o \in Order, FinishDelete(o) PROVE LinksInv'
  <2>1. UNCHANGED <<links, customer, cut>> /\ deleting[o] # Nothing BY <1>14 DEF FinishDelete
  <2>2. CASE UNCHANGED <<book, orders, review>> BY <2>1, <2>2, <1>b, LinksStay
  <2>3. CASE /\ RowsOf(o) \subseteq deleting[o]
             /\ book' = book \ deleting[o]
             /\ orders' = [orders EXCEPT ![o].live = FALSE]
             /\ review' = {l \in review : links[l].order # o}
    <3>1. orders'[o].live = FALSE /\ \A x \in Order \ {o} : orders'[x].live = orders[x].live
      BY <1>0, <2>3 DEF CollectTypeOK
    <3>2. \A p \in deleting[o] : p.order = o BY <2>1 DEF RowsInv, DeletesOwn, RowsOf
    <3>3. ASSUME NEW l \in Link, links[l].order # o, Booked(l) PROVE Booked(l)'
      <4>1. PICK p \in book : p.reference = l BY <3>3 DEF Booked
      <4>2. p.order = links[l].order BY <4>1 DEF RowsInv, LinkRows
      <4>3. p \in book' BY <3>2, <3>3, <4>1, <4>2, <2>3
      <4> QED BY <4>1, <4>3, <1>n DEF Booked
    <3>4. \A l \in Link : links[l].at = "paid" => links[l].order \in Order
      BY <1>0 DEF CollectTypeOK, Unmade, Made
    <3>5. ASSUME NEW l \in Link, customer[l] = "answered"
          PROVE  Booked(l)' \/ l \in review' \/ l \in cut' \/ ~orders'[links[l].order].live
      <4>1. links[l].order \in Order BY <3>4, <3>5 DEF LinksInv
      <4>2. Booked(l) \/ l \in review \/ l \in cut \/ ~orders[links[l].order].live
        BY <3>5 DEF LinksInv, PaidLinkAccounted
      <4>3. CASE links[l].order = o BY <4>3, <3>1
      <4>4. CASE links[l].order # o BY <4>1, <4>2, <4>4, <3>1, <3>3, <2>1, <2>3
      <4> QED BY <4>3, <4>4
    <3>6. PaidLinkAccounted' BY <2>1, <3>5 DEF PaidLinkAccounted
    <3> QED BY <2>1, <3>6 DEF LinksInv
  <2> QED BY <1>14, <2>2, <2>3 DEF FinishDelete
<1>15. CASE UNCHANGED collectVars BY <1>15, <1>b, LinksStay DEF collectVars
<1>16. ASSUME NEW o \in Order, NEW n \in Tender, PayByHand(o, n) PROVE LinksInv'
  <2>1. orders' = [orders EXCEPT ![o].paid = @ + n] BY <1>16 DEF PayByHand, RecordPayment
  <2>2. \A x \in Order : orders'[x].live = orders[x].live BY <1>0, <2>1 DEF CollectTypeOK
  <2>3. UNCHANGED <<links, review, cut, customer>> /\ book \subseteq book'
    BY <1>16 DEF PayByHand, RecordPayment
  <2> QED BY <2>2, <2>3, <1>b, LinksStay
<1> QED BY <1>1, <1>2, <1>3, <1>4, <1>5, <1>6, <1>7, <1>8, <1>9, <1>10, <1>11, <1>12, <1>13,
           <1>14, <1>15, <1>16 DEF CollectNext

\* The sum over the bills of customer_outstanding.
LEMMA PreviousSums ==
    ASSUME CollectTypeOK, NEW o \in Order
    PROVE  LET T == {x \in Others(o) : Due(x) > 0}
           IN  Previous(o) = SumOver([x \in T |-> Due(x)], T)
<1> DEFINE T == {x \in Others(o) : Due(x) > 0}
           D == [x \in T |-> Due(x)]
<1>1. Previous(o) = MapThenSumSet(Due, T) BY DEF Previous
<1> HIDE DEF T
<1>2. MapThenSumSet(Due, T)
        = (CHOOSE g : g = [s \in SUBSET T |-> IF s = {} THEN 0
                                             ELSE Due(Some(s)) + g[Leftover(s)]])[T]
  BY DEF MapThenSumSet, MapThenFoldSet, Some, Leftover
<1>3. \A s \in SUBSET T : s # {} => Due(Some(s)) = D[Some(s)] BY SomeIsIn
<1> HIDE DEF D
<1>4. \A g : (g = [s \in SUBSET T |-> IF s = {} THEN 0 ELSE Due(Some(s)) + g[Leftover(s)]])
                <=> AddsUp(g, D, T)
  BY <1>3 DEF AddsUp
<1>5. (CHOOSE g : g = [s \in SUBSET T |-> IF s = {} THEN 0 ELSE Due(Some(s)) + g[Leftover(s)]])
        = (CHOOSE g : AddsUp(g, D, T))
  BY <1>4
<1>6. SumOver(D, T) = (CHOOSE g : AddsUp(g, D, T))[T] BY SumIsAdded
<1> QED BY <1>1, <1>2, <1>5, <1>6 DEF T, D

\* No bill changes: what the others know stays true.
LEMMA DuesKeep ==
    ASSUME RowsInv, DuesInv, NEW d \in Desk,
           \A o \in Order : orders'[o].total = orders[o].total /\ orders'[o].paid = orders[o].paid,
           \A e \in Desk \ {d} : desk'[e] = desk[e], raced \subseteq raced' \cup {d},
           excused \subseteq excused',
           d \notin raced' => KnownTo(d)' /\ FitsFor(d)'
    PROVE  DuesInv'
<1>0. CollectTypeOK BY DEF RowsInv
<1>1. \A o \in Order : Due(o)' = Due(o) BY DEF Due
<1>2. OverpaidExplained' BY DEF DuesInv, OverpaidExplained
<1>3. ASSUME NEW e \in Desk \ raced' PROVE KnownTo(e)' /\ FitsFor(e)'
  <2>1. CASE e = d BY <2>1, <1>3
  <2>2. CASE e # d
    <3>1. desk'[e] = desk[e] /\ e \in Desk \ raced BY <2>2
    <3>2. KnownTo(e) /\ FitsFor(e) BY <3>1 DEF DuesInv, DuesKnown, LeftFits
    <3>3. desk[e].at = "opened" \/ desk[e].at = "paying" => Own(e) \in Order
      BY <1>0, OpenedHolds, PayingHolds DEF Own
    <3>4. desk[e].at = "paying" => DOMAIN desk[e].dues \subseteq Order BY <1>0, PayingHolds
    <3>5. Own(e)' = Own(e) /\ Unsettled(e)' = Unsettled(e) BY <3>1 DEF Own, Unsettled
    <3>6. KnownTo(e)' BY <3>1, <3>2, <3>3, <3>4, <3>5, <1>1 DEF KnownTo
    <3>7. FitsFor(e)' BY <3>1, <3>2, <3>3, <3>5, <1>1 DEF FitsFor
    <3> QED BY <3>6, <3>7
  <2> QED BY <2>1, <2>2
<1> QED BY <1>2, <1>3 DEF DuesInv, DuesKnown, LeftFits

\* Bills change and everybody is overtaken, or has no bill in hand.
LEMMA DuesOvertaken ==
    ASSUME DuesInv, UNCHANGED desk, Overtake(Desk), OverpaidExplained'
    PROVE  DuesInv'
<1>1. \A e \in Desk \ raced' : desk'[e].at = "idle" BY DEF Overtake
<1> QED BY <1>1 DEF DuesInv, DuesKnown, LeftFits, KnownTo, FitsFor

LEMMA DuesSplit ==
    ASSUME RowsInv, DuesInv, NEW d \in Desk, Split(d)
    PROVE  DuesInv'
<1>0. CollectTypeOK BY DEF RowsInv
<1>1. UNCHANGED <<orders, raced, excused>> /\ desk[d].at = "opened" BY DEF Split
<1>2. PICK r, ask, due, own : r = desk[d].sheet /\ ask = Body[r] /\ due = desk[d].due
                           /\ own = ask.order
  OBVIOUS
<1>3. r \in Sheet /\ own \in Order /\ ask.amount \in Nat \ {0} /\ due \in Int
      /\ ask.settle \in BOOLEAN
  BY <1>0, <1>1, <1>2, OpenedHolds
<1>4. PICK read : read = IF ask.settle /\ ask.amount > due THEN Others(own) ELSE {} OBVIOUS
<1>5. read \subseteq Order /\ own \notin read BY <1>4 DEF Others
<1>6. \A e \in Desk \ {d} : desk'[e] = desk[e] BY <1>0 DEF Split, CollectTypeOK
<1>7. \A o \in Order : Due(o)' = Due(o) BY <1>1 DEF Due
<1>8. ASSUME d \notin raced PROVE KnownTo(d)' /\ FitsFor(d)'
  <2>1. due = Due(own) BY <1>1, <1>2, <1>8 DEF DuesInv, DuesKnown, KnownTo, Own
  <2>2. CASE desk'[d].at = "idle" BY <2>2 DEF KnownTo, FitsFor
  <2>3. CASE desk'[d].at # "idle"
    <3>1. /\ ask.amount <= due + (IF ask.settle THEN Previous(own) ELSE 0)
          /\ desk'[d].at = "paying" /\ desk'[d].sheet = r /\ desk'[d].left = ask.amount
          /\ desk'[d].dues = [x \in read |-> Due(x)]
      <4>1. desk'[d] = IF ask.amount > due + (IF ask.settle THEN Previous(own) ELSE 0) THEN Idle
                       ELSE [at |-> "paying", sheet |-> r, left |-> ask.amount, first |-> TRUE,
                             dues |-> [x \in read |-> Due(x)]]
        BY <1>0, <1>2, <1>4 DEF Split, CollectTypeOK
      <4>2. ~(ask.amount > due + (IF ask.settle THEN Previous(own) ELSE 0))
        BY <2>3, <4>1 DEF Idle
      <4>3. due + (IF ask.settle THEN Previous(own) ELSE 0) \in Int
        <5>1. IsFiniteSet({x \in Others(own) : Due(x) > 0})
          <6>1. {x \in Others(own) : Due(x) > 0} \subseteq Order BY DEF Others
          <6> QED BY <6>1, FS_Subset, CollectionsAssumption
        <5>2. \A x \in {x \in Others(own) : Due(x) > 0} :
                [y \in {y \in Others(own) : Due(y) > 0} |-> Due(y)][x] \in Int
          BY <1>0 DEF Others, Due, CollectTypeOK
        <5>3. Previous(own) \in Int BY <5>1, <5>2, <1>0, <1>3, SumIsInt, PreviousSums
        <5> QED BY <5>3, <1>3
      <4>4. ask.amount <= due + (IF ask.settle THEN Previous(own) ELSE 0)
        BY <4>2, <4>3, <1>3
      <4> QED BY <4>1, <4>2, <4>4
    <3>2. Own(d)' = own BY <3>1, <1>2 DEF Own
    <3>3. KnownTo(d)' BY <3>1, <3>2, <1>5, <1>7 DEF KnownTo
    <3>4. Unsettled(d)' = {x \in read : Due(x) > 0} BY <3>1 DEF Unsettled
    <3>5. ask.amount <= Due(own) + SumOver([x \in read |-> Due(x)], {x \in read : Due(x) > 0})
      <4>1. CASE read = {}
        <5>1. {x \in read : Due(x) > 0} = {} BY <4>1
        <5>2. SumOver([x \in read |-> Due(x)], {x \in read : Due(x) > 0}) = 0
          BY <5>1, SumOfNone
        <5>3. ask.amount <= due
          <6>1. CASE ~ask.settle BY <6>1, <3>1, <1>3
          <6>2. CASE ask.settle /\ ~(ask.amount > due) BY <6>2, <1>3
          <6>3. CASE ask.settle /\ ask.amount > due
            <7>1. Others(own) = {} BY <6>3, <4>1, <1>4
            <7>2. {x \in Others(own) : Due(x) > 0} = {} BY <7>1
            <7>3. Previous(own) = 0 BY <7>2, <1>0, <1>3, PreviousSums, SumOfNone
            <7> QED BY <7>3, <3>1, <1>3, <6>3
          <6> QED BY <6>1, <6>2, <6>3, <1>3
        <5> QED BY <5>2, <5>3, <2>1, <1>3
      <4>2. CASE read # {}
        <5>1. ask.settle /\ read = Others(own) BY <4>2, <1>4
        <5> DEFINE T == {x \in Others(own) : Due(x) > 0}
        <5>2. T \subseteq read /\ IsFiniteSet(T)
          <6>1. T \subseteq Order /\ T \subseteq read BY <5>1 DEF Others
          <6> HIDE DEF T
          <6> QED BY <6>1, FS_Subset, CollectionsAssumption
        <5>3. Previous(own) = SumOver([x \in T |-> Due(x)], T)
          BY <1>0, <1>3, PreviousSums
        <5>4. {x \in read : Due(x) > 0} = T BY <5>1
        <5> HIDE DEF T
        <5>5. \A x \in T : [y \in T |-> Due(y)][x] = [y \in read |-> Due(y)][x] BY <5>2
        <5>6. Previous(own) = SumOver([x \in read |-> Due(x)], T)
          BY <5>2, <5>3, <5>5, SumOfEqual
        <5> QED BY <5>1, <5>4, <5>6, <3>1, <2>1
      <4> QED BY <4>1, <4>2
    <3>6. Due(own)' = Due(own) BY <1>3, <1>7
    <3>7. FitsFor(d)' BY <3>1, <3>2, <3>4, <3>5, <3>6 DEF FitsFor
    <3> QED BY <3>3, <3>7
  <2> QED BY <2>2, <2>3
<1> QED BY <1>1, <1>6, <1>8, DuesKeep

LEMMA DuesPay ==
    ASSUME RowsInv, DuesInv, NEW d \in Desk, NEW reread \in BOOLEAN, Pay(d, reread)
    PROVE  DuesInv'
<1>0. CollectTypeOK BY DEF RowsInv
<1>1. PICK o, n, c, U, own : /\ o = Target(d) /\ n = Take(d) /\ c = desk[d]
                             /\ U = Unsettled(d) /\ own = Own(d)
  OBVIOUS
<1>2. c.at = "paying" /\ c.left > 0 /\ o \in Order BY <1>1, PayAdds
<1>3. /\ n \in Nat \ {0} /\ n <= c.left
      /\ U \in SUBSET Order /\ IsFiniteSet(U)
      /\ U # {} => o \in U /\ (\A x \in U : o <= x) /\ n <= c.dues[o]
      /\ U = {} => o = own /\ n = c.left
  BY <1>0, <1>1, <1>2, TargetTakes DEF Own
<1>4. own \in Order /\ c.left \in Nat /\ DOMAIN c.dues \in SUBSET Order
      /\ \A x \in DOMAIN c.dues : c.dues[x] \in Int
  BY <1>0, <1>1, <1>2, PayingHolds DEF Own
<1>5. /\ orders' = [orders EXCEPT ![o].paid = @ + n]
      /\ orders' \in [Order -> [live : BOOLEAN, cancelled : BOOLEAN, total : Nat,
                                paid : Nat, link : Link \cup {Nothing}]]
  BY <1>1, PayAdds
<1>6. /\ desk'[d].at = "paying" /\ desk'[d].sheet = c.sheet /\ desk'[d].left = c.left - n
      /\ DOMAIN desk'[d].dues = {y \in DOMAIN c.dues : U # {} /\ y > o}
      /\ \A x \in DOMAIN desk'[d].dues :
            desk'[d].dues[x] = IF reread /\ orders[x].live THEN Due(x) ELSE c.dues[x]
  <2>1. /\ desk'[d].at = "paying" /\ desk'[d].sheet = desk[d].sheet
        /\ desk'[d].left = desk[d].left - Take(d)
        /\ DOMAIN desk'[d].dues = {y \in DOMAIN desk[d].dues : Unsettled(d) # {} /\ y > Target(d)}
        /\ \A x \in DOMAIN desk'[d].dues :
              desk'[d].dues[x] = IF reread /\ orders[x].live THEN Due(x) ELSE desk[d].dues[x]
    BY <1>0, <1>5, PayLeaves
  <2> QED BY <2>1, <1>1
<1>r. \A e \in Desk \ {d} : desk'[e] = desk[e] BY <1>0, <1>5, PayLeaves
<1>7. /\ \A x \in Order : orders'[x].total = orders[x].total
      /\ \A x \in Order \ {o} : orders'[x].paid = orders[x].paid
      /\ orders'[o].paid = orders[o].paid + n
      /\ \A x \in Order : orders[x].paid \in Nat /\ orders[x].total \in Nat
  BY <1>0, <1>2, <1>5 DEF CollectTypeOK
<1>8. \A x \in Order \ {o} : Due(x)' = Due(x) BY <1>7 DEF Due
<1>9. excused' = IF d \in raced THEN excused \cup {o} ELSE excused BY <1>1 DEF Pay
<1>10. raced' = raced \cup {e \in Desk \ {d} : desk[e].at # "idle"} BY DEF Pay, Overtake
<1>11. U = {y \in DOMAIN c.dues : c.dues[y] > 0} BY <1>1 DEF Unsettled
\* What a request nobody has overtaken knows, before it pays.
<1>12. ASSUME d \notin raced
       PROVE  /\ own \notin DOMAIN c.dues
              /\ \A x \in DOMAIN c.dues : c.dues[x] = Due(x)
              /\ c.left <= Due(own) + SumOver(c.dues, U)
  BY <1>1, <1>2, <1>12 DEF DuesInv, DuesKnown, LeftFits, KnownTo, FitsFor
<1>13. ASSUME d \notin raced PROVE n <= Due(o)
  <2>1. CASE U = {}
    <3>1. SumOver(c.dues, U) = 0 BY <2>1, SumOfNone
    <3>2. c.left <= Due(own) + 0 /\ o = own /\ n = c.left BY <2>1, <3>1, <1>3, <1>12, <1>13
    <3>3. Due(own) \in Int BY <1>4, <1>7 DEF Due
    <3> QED BY <3>2, <3>3
  <2>2. CASE U # {}
    <3>1. o \in DOMAIN c.dues /\ n <= c.dues[o] BY <2>2, <1>3, <1>11
    <3> QED BY <3>1, <1>12, <1>13
  <2> QED BY <2>1, <2>2
<1>14. OverpaidExplained'
  <2> SUFFICES ASSUME NEW x \in Order, orders'[x].paid > orders'[x].total PROVE x \in excused'
    BY DEF OverpaidExplained
  <2>1. CASE x # o
    <3>1. orders[x].paid > orders[x].total BY <2>1, <1>7
    <3> QED BY <3>1, <1>9 DEF DuesInv, OverpaidExplained
  <2>2. CASE x = o
    <3>1. CASE d \in raced BY <3>1, <2>2, <1>9
    <3>2. CASE d \notin raced
      <4>1. n <= orders[o].total - orders[o].paid BY <3>2, <1>13 DEF Due
      <4>2. orders'[o].paid <= orders'[o].total BY <4>1, <1>2, <1>3, <1>7
      <4>3. orders'[o].paid \in Nat /\ orders'[o].total \in Nat BY <1>2, <1>5
      <4> QED BY <2>2, <4>2, <4>3
    <3> QED BY <3>1, <3>2
  <2> QED BY <2>1, <2>2
<1>15. ASSUME NEW e \in Desk \ raced', e # d PROVE KnownTo(e)' /\ FitsFor(e)'
  <2>1. desk'[e] = desk[e] BY <1>r, <1>15
  <2>2. desk[e].at = "idle" BY <1>10, <1>15
  <2> QED BY <2>1, <2>2 DEF KnownTo, FitsFor
<1>16. ASSUME d \notin raced' PROVE KnownTo(d)' /\ FitsFor(d)'
  <2>1. d \notin raced BY <1>10, <1>16
  <2>2. /\ own \notin DOMAIN c.dues
        /\ \A x \in DOMAIN c.dues : c.dues[x] = Due(x)
        /\ c.left <= Due(own) + SumOver(c.dues, U)
    BY <2>1, <1>12
  <2>3. Own(d)' = own BY <1>1, <1>6 DEF Own
  <2>4. \A x \in DOMAIN desk'[d].dues : x \in DOMAIN c.dues /\ x # o /\ x \in Order
                                        /\ desk'[d].dues[x] = c.dues[x]
    <3>1. o \in Int /\ \A x \in Order : x \in Int BY <1>2, CollectionsAssumption
    <3> QED BY <3>1, <2>2, <1>4, <1>6
  <2>5. \A x \in DOMAIN desk'[d].dues : desk'[d].dues[x] = Due(x)' BY <2>2, <2>4, <1>8
  <2>6. KnownTo(d)' BY <2>2, <2>3, <2>4, <2>5, <1>6 DEF KnownTo
  <2>7. CASE U = {}
    <3>1. desk'[d].left = 0 BY <2>7, <1>3, <1>4, <1>6
    <3> QED BY <2>6, <3>1 DEF FitsFor
  <2>8. CASE U # {} /\ n = c.left
    <3>1. desk'[d].left = 0 BY <2>8, <1>4, <1>6
    <3> QED BY <2>6, <3>1 DEF FitsFor
  <2>9. CASE U # {} /\ n # c.left
    <3>1. o \in U /\ n = c.dues[o] /\ o \in DOMAIN c.dues
      <4>1. n = IF U = {} \/ c.left < c.dues[o] THEN c.left ELSE c.dues[o]
        BY <1>1 DEF Take
      <4> QED BY <4>1, <2>9, <1>3, <1>11
    <3>2. own # o BY <2>2, <3>1
    <3>3. Due(own)' = Due(own) BY <3>2, <1>4, <1>8
    <3>4. Unsettled(d)' = U \ {o}
      <4>1. Unsettled(d)' = {y \in DOMAIN desk'[d].dues : desk'[d].dues[y] > 0} BY DEF Unsettled
      <4>2. \A y \in Order : y \in Int BY CollectionsAssumption
      <4>3. \A y \in U \ {o} : y > o BY <4>2, <1>2, <1>3, <2>9
      <4>4. \A y \in DOMAIN c.dues : y > o => y # o BY <4>2, <1>2, <1>4
      <4>5. DOMAIN desk'[d].dues = {y \in DOMAIN c.dues : y > o} BY <1>6, <2>9
      <4>6. \A y \in DOMAIN desk'[d].dues : desk'[d].dues[y] = c.dues[y] BY <2>4
      <4> QED BY <4>1, <4>3, <4>4, <4>5, <4>6, <1>11
    <3>5. \A x \in U : c.dues[x] \in Int BY <1>4, <1>11
    <3>6. SumOver(c.dues, U) = c.dues[o] + SumOver(c.dues, U \ {o})
      BY <3>1, <3>5, <1>3, SumTakesOut
    <3>7. IsFiniteSet(U \ {o}) /\ SumOver(c.dues, U \ {o}) \in Int
      <4>1. U \ {o} \subseteq U /\ IsFiniteSet(U \ {o}) BY <1>3, FS_Subset
      <4> QED BY <4>1, <3>5, SumIsInt
    <3>8. \A x \in U \ {o} : desk'[d].dues[x] = c.dues[x]
      <4>1. \A x \in U \ {o} : x \in DOMAIN desk'[d].dues BY <3>4 DEF Unsettled
      <4> QED BY <4>1, <2>4
    <3>9. SumOver(desk'[d].dues, U \ {o}) = SumOver(c.dues, U \ {o})
      BY <3>7, <3>8, SumOfEqual
    <3>10. Due(own) \in Int BY <1>4, <1>7 DEF Due
    <3>11. desk'[d].left <= Due(own) + SumOver(c.dues, U \ {o})
      BY <3>1, <3>6, <3>7, <3>10, <1>3, <1>4, <1>6, <2>2
    <3>12. FitsFor(d)' BY <3>3, <3>4, <3>9, <3>11, <2>3 DEF FitsFor
    <3> QED BY <2>6, <3>12
  <2> QED BY <2>7, <2>8, <2>9
<1> QED BY <1>14, <1>15, <1>16 DEF DuesInv, DuesKnown, LeftFits

LEMMA DuesStep == RowsInv /\ DuesInv /\ [CollectNext]_collectVars => DuesInv'
<1> SUFFICES ASSUME RowsInv, DuesInv, [CollectNext]_collectVars PROVE DuesInv' OBVIOUS
<1>0. CollectTypeOK /\ DOMAIN desk = Desk BY DEF RowsInv, CollectTypeOK
<1>1. ASSUME NEW d \in Desk, NEW r \in Sheet, Open(d, r) PROVE DuesInv'
  <2>1. /\ UNCHANGED <<orders, excused>> /\ raced' = raced \ {d}
        /\ \A e \in Desk \ {d} : desk'[e] = desk[e]
        /\ desk'[d] = [at |-> "opened", sheet |-> r, due |-> Due(Body[r].order)]
    BY <1>1, <1>0 DEF Open
  <2>2. desk'[d].at = "opened" /\ desk'[d].due = Due(Body[r].order) /\ desk'[d].sheet = r
    BY <2>1
  <2>3. Due(Body[r].order)' = Due(Body[r].order) BY <2>1 DEF Due
  <2>4. KnownTo(d)' /\ FitsFor(d)' BY <2>2, <2>3 DEF KnownTo, FitsFor, Own
  <2> QED BY <2>1, <2>4, DuesKeep
<1>2. ASSUME NEW d \in Desk, AlreadyDone(d) \/ LoseRace(d) \/ Answer(d) \/ Die(d) PROVE DuesInv'
  <2>1. /\ UNCHANGED <<orders, excused, raced>>
        /\ \A e \in Desk \ {d} : desk'[e] = desk[e]
        /\ desk'[d] = Idle
    BY <1>2, <1>0 DEF AlreadyDone, LoseRace, Answer, Die, Leave
  <2>2. desk'[d].at = "idle" BY <2>1 DEF Idle
  <2>3. KnownTo(d)' /\ FitsFor(d)' BY <2>2 DEF KnownTo, FitsFor
  <2> QED BY <2>1, <2>3, DuesKeep
<1>3. ASSUME NEW d \in Desk, Split(d) PROVE DuesInv' BY <1>3, DuesSplit
<1>4. ASSUME NEW d \in Desk, NEW reread \in BOOLEAN, Pay(d, reread) PROVE DuesInv'
  BY <1>4, DuesPay
\* Bills keep their dues and no request moves.
<1>k. ASSUME UNCHANGED <<desk, raced, excused>>,
             \A o \in Order : orders'[o].total = orders[o].total /\ orders'[o].paid = orders[o].paid
      PROVE  DuesInv'
  <2>1. CASE Desk = {} BY <2>1, <1>k DEF DuesInv, DuesKnown, LeftFits, OverpaidExplained
  <2>2. CASE Desk # {}
    <3>1. PICK d \in Desk : TRUE BY <2>2
    <3>2. d \notin raced => KnownTo(d) /\ FitsFor(d) BY DEF DuesInv, DuesKnown, LeftFits
    <3>3. \A o \in Order : Due(o)' = Due(o) BY <1>k DEF Due
    <3>4. desk[d].at = "opened" \/ desk[d].at = "paying" => Own(d) \in Order
      BY <1>0, OpenedHolds, PayingHolds DEF Own
    <3>5. desk[d].at = "paying" => DOMAIN desk[d].dues \subseteq Order BY <1>0, PayingHolds
    <3>6. Own(d)' = Own(d) /\ Unsettled(d)' = Unsettled(d) BY <1>k DEF Own, Unsettled
    <3>7. d \notin raced' => KnownTo(d)' BY <1>k, <3>2, <3>3, <3>4, <3>5, <3>6 DEF KnownTo
    <3>8. d \notin raced' => FitsFor(d)' BY <1>k, <3>2, <3>3, <3>4, <3>6 DEF FitsFor
    <3> QED BY <1>k, <3>7, <3>8, DuesKeep
  <2> QED BY <2>1, <2>2
<1>5. ASSUME NEW l \in Link, \/ \E o \in Order : AskLink(o, l)
                             \/ PayLink(l) \/ LinkIgnored(l) \/ LinkReviewed(l)
      PROVE  DuesInv'
  BY <1>5, <1>k DEF AskLink, PayLink, LinkIgnored, LinkReviewed
<1>6. ASSUME NEW l \in Link, SaveLink(l) PROVE DuesInv'
  <2>1. UNCHANGED <<desk, raced, excused>> /\ orders' = [orders EXCEPT ![links[l].order].link = l]
    BY <1>6 DEF SaveLink
  <2>2. \A o \in Order : orders'[o].total = orders[o].total /\ orders'[o].paid = orders[o].paid
    BY <1>0, <2>1 DEF CollectTypeOK
  <2> QED BY <2>1, <2>2, <1>k
<1>7. ASSUME NEW l \in Link, LinkPosted(l) PROVE DuesInv'
  <2> DEFINE o == links[l].order
  <2>1. /\ Due(o) = links[l].amount /\ Overtake(Desk) /\ UNCHANGED <<desk, excused>>
        /\ orders' = [orders EXCEPT ![o].paid = @ + links[l].amount]
        /\ links[l].at = "paid"
    BY <1>7 DEF LinkPosted, RecordPayment
  <2>2. o \in Order BY <1>0, <2>1 DEF CollectTypeOK, Unmade, Made
  <2>3. orders[o].paid \in Nat /\ orders[o].total \in Nat BY <1>0, <2>2 DEF CollectTypeOK
  <2> HIDE DEF o
  <2>4. orders'[o].paid = orders[o].total /\ orders'[o].total = orders[o].total
        /\ \A x \in Order \ {o} : orders'[x] = orders[x]
    BY <1>0, <2>1, <2>2, <2>3 DEF CollectTypeOK, Due
  <2>5. OverpaidExplained'
    <3> SUFFICES ASSUME NEW x \in Order, orders'[x].paid > orders'[x].total PROVE x \in excused
      BY <2>1 DEF OverpaidExplained
    <3>1. x # o BY <2>3, <2>4
    <3> QED BY <3>1, <2>4 DEF DuesInv, OverpaidExplained
  <2> QED BY <2>1, <2>5, DuesOvertaken
<1>8. ASSUME NEW o \in Order, NEW total \in Prices, Reprice(o, total) PROVE DuesInv'
  <2>1. /\ Overtake(Desk) /\ UNCHANGED desk
        /\ orders' = [orders EXCEPT ![o].total = total]
        /\ excused' = IF total < orders[o].paid THEN excused \cup {o} ELSE excused
        /\ total \in Nat
    BY <1>8, CollectionsAssumption DEF Reprice
  <2>2. /\ orders'[o].total = total /\ orders'[o].paid = orders[o].paid /\ orders[o].paid \in Nat
        /\ \A x \in Order \ {o} : orders'[x] = orders[x]
    BY <1>0, <2>1 DEF CollectTypeOK
  <2>3. OverpaidExplained'
    <3> SUFFICES ASSUME NEW x \in Order, orders'[x].paid > orders'[x].total PROVE x \in excused'
      BY DEF OverpaidExplained
    <3>1. CASE x = o BY <3>1, <2>1, <2>2
    <3>2. CASE x # o BY <3>2, <2>1, <2>2 DEF DuesInv, OverpaidExplained
    <3> QED BY <3>1, <3>2
  <2> QED BY <2>1, <2>3, DuesOvertaken
<1>9. ASSUME NEW o \in Order, Cancel(o) PROVE DuesInv'
  <2>1. Overtake(Desk) /\ UNCHANGED <<desk, excused>>
        /\ orders' = [orders EXCEPT ![o].cancelled = TRUE]
    BY <1>9 DEF Cancel
  <2>2. \A x \in Order : orders'[x].total = orders[x].total /\ orders'[x].paid = orders[x].paid
    BY <1>0, <2>1 DEF CollectTypeOK
  <2>3. OverpaidExplained' BY <2>1, <2>2 DEF DuesInv, OverpaidExplained
  <2> QED BY <2>1, <2>3, DuesOvertaken
<1>10. ASSUME NEW o \in Order, StartDelete(o) PROVE DuesInv'
  BY <1>10, <1>k DEF StartDelete
<1>11. ASSUME NEW o \in Order, FinishDelete(o) PROVE DuesInv'
  <2>1. UNCHANGED <<desk, excused>> BY <1>11 DEF FinishDelete
  <2>2. CASE UNCHANGED <<orders, raced>> BY <2>1, <2>2, <1>k
  <2>3. CASE orders' = [orders EXCEPT ![o].live = FALSE] /\ Overtake(Desk)
    <3>1. \A x \in Order : orders'[x].total = orders[x].total /\ orders'[x].paid = orders[x].paid
      BY <1>0, <2>3 DEF CollectTypeOK
    <3>2. OverpaidExplained' BY <2>1, <3>1 DEF DuesInv, OverpaidExplained
    <3> QED BY <2>1, <2>3, <3>2, DuesOvertaken
  <2> QED BY <1>11, <2>2, <2>3 DEF FinishDelete
<1>12. CASE UNCHANGED collectVars BY <1>12, <1>k DEF collectVars
<1>13. ASSUME NEW o \in Order, NEW n \in Tender, PayByHand(o, n) PROVE DuesInv'
  <2>1. /\ Overtake(Desk) /\ UNCHANGED desk
        /\ orders' = [orders EXCEPT ![o].paid = @ + n]
        /\ excused' = IF n > Due(o) THEN excused \cup {o} ELSE excused
        /\ n \in Nat
    BY <1>13, CollectionsAssumption DEF PayByHand, RecordPayment
  <2>2. /\ orders'[o].paid = orders[o].paid + n /\ orders'[o].total = orders[o].total
        /\ orders[o].paid \in Nat /\ orders[o].total \in Nat
        /\ \A x \in Order \ {o} : orders'[x] = orders[x]
    BY <1>0, <2>1 DEF CollectTypeOK
  <2>3. OverpaidExplained'
    <3> SUFFICES ASSUME NEW x \in Order, orders'[x].paid > orders'[x].total PROVE x \in excused'
      BY DEF OverpaidExplained
    <3>1. CASE x = o
      <4>1. n > Due(o) BY <3>1, <2>1, <2>2 DEF Due
      <4> QED BY <3>1, <4>1, <2>1
    <3>2. CASE x # o BY <3>2, <2>1, <2>2 DEF DuesInv, OverpaidExplained
    <3> QED BY <3>1, <3>2
  <2> QED BY <2>1, <2>3, DuesOvertaken
<1> QED BY <1>1, <1>2, <1>3, <1>4, <1>5, <1>6, <1>7, <1>8, <1>9, <1>10, <1>11, <1>12, <1>13
    DEF CollectNext

\* "dobara aaye to doosra paisa nahi judta" (collect_payment), and what
\* Razorpay and the staff app are told: a sheet sent any number of times puts
\* its amount in the ledger once and in whole, a bill is paid above its total
\* only by hand, by a request that was overtaken or by a later cut of the total,
\* and a link answered for is booked or under a human's eyes.
THEOREM CollectionsHold == CollectSpec => []CollectionsHeld
<1> DEFINE Inv == RowsInv /\ SheetsInv /\ LinksInv /\ DuesInv
<1>1. CollectInit => Inv BY RowsInit, MoneyInit
<1>2. Inv /\ [CollectNext]_collectVars => Inv'
  BY RowsStep, SheetsStep, LinksStep, DuesStep
<1>3. Inv => CollectionsHeld
  <2> SUFFICES ASSUME Inv PROVE CollectionsHeld OBVIOUS
  <2>1. SheetPaidWhole
    <3> SUFFICES ASSUME NEW r \in Sheet, customer[r] = "answered", r \notin cut \cup forgot,
                        \A d \in Desk : desk[d].at = "paying" => desk[d].sheet # r \/ desk[d].first
                 PROVE  posted[r] = Body[r].amount
      BY DEF SheetPaidWhole, SheetsInv
    <3>1. r \in Kept /\ \A d \in Desk : ~Working(d, r) BY DEF Kept, Working
    <3> QED BY <3>1 DEF SheetsInv, AnsweredIsBooked, BookedIsWhole
  <2> QED BY <2>1 DEF CollectionsHeld, LinksInv, DuesInv
<1> HIDE DEF Inv
<1> QED BY <1>1, <1>2, <1>3, PTL DEF CollectSpec

----------------------------------------------------------------------------
(***************************************************************************)
(* CashHandover.  What a handover counts are payments under a name its     *)
(* person has had, inside its window; the windows of one person follow one *)
(* another, because the lock on the staff row lets one handover at a time  *)
(* read where the last one ended; and a payment before the end of a window *)
(* is in it, or in an earlier one, or was late, or is older than the first *)
(* one's beginning.                                                        *)
(***************************************************************************)

PaymentsNumbered ==
    /\ IsFiniteSet(payments)
    /\ \A p \in payments : p.id <= Cardinality(payments)
    /\ \A p, x \in payments : p.id = x.id => p = x

NamesBorne ==
    /\ \A s \in Staff : named[s] \in borne[s] /\ IsFiniteSet(borne[s])
    /\ \A p \in payments : p.name \in borne[p.by]
    /\ \A q \in Request : request[q].at = "collecting" => request[q].name \in borne[request[q].staff]

\* A count of a person's window.
Counts(ids, s, start, upto) ==
    \A i \in ids : \E p \in payments : /\ p.id = i /\ p.name \in borne[s]
                                       /\ start < p.received /\ p.received <= upto

Holds(q, s) == request[q].at = "holding" /\ request[q].staff = s

WindowsCount ==
    /\ \A h \in handovers : h.start < h.end /\ Counts(h.counted, h.staff, h.start, h.end)
    /\ \A q \in Request, s \in Staff : Holds(q, s) =>
          /\ request[q].since < request[q].time
          /\ Counts(request[q].counted, s, request[q].since, request[q].time)

WindowsFollow ==
    /\ \A g, h \in handovers : g.staff = h.staff => g = h \/ g.end <= h.start \/ h.end <= g.start
    /\ \A q \in Request, s \in Staff : Holds(q, s) =>
          /\ \A h \in HandoversOf(s) : h.end <= request[q].since
          /\ \A x \in Request : Holds(x, s) => x = q

HandedOver(i) == \E h \in handovers : i \in h.counted
Seen(p)    == p \in payments \ late /\ ~(Cardinality(borne[p.by]) > 1)

\* Before the beginning of every window its collector handed over.
TooOld(p) == \A h \in HandoversOf(p.by) : p.received <= h.start

NoneMissed ==
    \A p \in payments : Seen(p) =>
        /\ \A h \in HandoversOf(p.by) : p.received <= h.end => HandedOver(p.id) \/ TooOld(p)
        /\ \A q \in Request : Holds(q, p.by) /\ p.received <= request[q].time
              => \/ p.id \in request[q].counted \/ HandedOver(p.id)
                 \/ TooOld(p) /\ p.received <= request[q].since

CashInv == /\ CashTypeOK /\ PaymentsNumbered /\ NamesBorne
           /\ WindowsCount /\ WindowsFollow /\ NoneMissed

LEMMA CashStart == CashInit => CashInv
<1> SUFFICES ASSUME CashInit PROVE CashInv OBVIOUS
<1>1. CashTypeOK BY CashAssumption DEF CashInit, CashTypeOK
<1>2. \A q \in Request : request[q].at = "idle" BY DEF CashInit, None
<1>3. IsFiniteSet({}) /\ \A x : IsFiniteSet({x}) BY FS_EmptySet, FS_Singleton
<1>4. PaymentsNumbered BY <1>3 DEF CashInit, PaymentsNumbered
<1>5. NamesBorne BY <1>2, <1>3, CashAssumption DEF CashInit, NamesBorne
<1>6. WindowsCount BY <1>2 DEF CashInit, WindowsCount, Holds
<1>7. WindowsFollow BY <1>2 DEF CashInit, WindowsFollow, Holds
<1>8. NoneMissed BY DEF CashInit, NoneMissed
<1> QED BY <1>1, <1>4, <1>5, <1>6, <1>7, <1>8 DEF CashInv

LEMMA RequestPhases ==
    ASSUME CashTypeOK, NEW q \in Request
    PROVE  /\ request[q].at = "collecting" => request[q] \in Collecting
           /\ request[q].at = "asked" => request[q] \in Asked
           /\ request[q].at = "holding" => request[q] \in Holding
BY DEF CashTypeOK, None, Collecting, Asked, Holding

\* The windows stand when no row changes and nobody new holds a lock.
LEMMA CashStays ==
    ASSUME CashInv, CashTypeOK', UNCHANGED <<named, payments, handovers, borne, late>>,
           \A q \in Request, s \in Staff : Holds(q, s)' => Holds(q, s) /\ request'[q] = request[q],
           \A q \in Request : request'[q].at = "collecting"
                                  => request'[q].name \in borne[request'[q].staff]
    PROVE  CashInv'
<1> USE DEF CashInv
<1>1. PaymentsNumbered' BY DEF PaymentsNumbered
<1>2. NamesBorne' BY DEF NamesBorne
<1>3. WindowsCount' BY DEF WindowsCount, Counts
<1>4. WindowsFollow' BY DEF WindowsFollow, HandoversOf
<1>5. NoneMissed'
  <2> SUFFICES ASSUME NEW p \in payments, Seen(p)
               PROVE  /\ \A h \in HandoversOf(p.by) :
                            p.received <= h.end => HandedOver(p.id) \/ TooOld(p)
                      /\ \A q \in Request : Holds(q, p.by)' /\ p.received <= request'[q].time
                            => \/ p.id \in request'[q].counted \/ HandedOver(p.id)
                               \/ TooOld(p) /\ p.received <= request'[q].since
    BY DEF NoneMissed, Seen, HandoversOf, HandedOver, TooOld
  <2>1. p.by \in Staff BY DEF CashTypeOK, Payment
  <2> QED BY <2>1 DEF NoneMissed
<1> QED BY <1>1, <1>2, <1>3, <1>4, <1>5

LEMMA CashCommitPayment ==
    ASSUME CashInv, NEW q \in Request, CommitPayment(q)
    PROVE  CashInv'
<1> USE DEF CashInv
<1>1. PICK r, p : /\ r = request[q]
                  /\ p = [id |-> Cardinality(payments) + 1, by |-> r.staff, name |-> r.name,
                          received |-> r.time]
  OBVIOUS
<1>2. /\ r.at = "collecting" /\ p.id <= MaxPayments
      /\ payments' = payments \cup {p}
      /\ late' = IF Closed(r.staff, r.time) THEN late \cup {p} ELSE late
      /\ request' = [request EXCEPT ![q] = None]
      /\ UNCHANGED <<now, named, handovers, counting, borne>>
  BY <1>1 DEF CommitPayment, Set
<1>3. r.staff \in Staff /\ r.name \in Name /\ r.time \in 0 .. MaxTime
  BY <1>1, <1>2, RequestPhases DEF Collecting
<1>4. p.id = Cardinality(payments) + 1 /\ p.by = r.staff /\ p.name = r.name
      /\ p.received = r.time
  BY <1>1
<1>5. IsFiniteSet(payments) /\ Cardinality(payments) \in Nat
  BY FS_CardinalityType DEF PaymentsNumbered
<1>6. p \in Payment BY <1>1, <1>2, <1>3, <1>4, <1>5, CashAssumption DEF Payment
<1>7. \A x \in payments : x.id \in Nat /\ x.id # p.id /\ x \in Payment
  <2>1. \A x \in payments : x.id \in Nat /\ x \in Payment BY DEF CashTypeOK, Payment
  <2> QED BY <2>1, <1>4, <1>5 DEF PaymentsNumbered
<1>8. /\ request'[q].at = "idle" /\ \A x \in Request \ {q} : request'[x] = request[x]
      /\ request' \in [Request -> {None} \cup Collecting \cup Asked \cup Holding]
  BY <1>2 DEF CashTypeOK, None
<1>9. \A x \in Request, s \in Staff : Holds(x, s)' <=> Holds(x, s)
  BY <1>1, <1>2, <1>8 DEF Holds
<1>10. \A x \in Request, s \in Staff : Holds(x, s) => request'[x] = request[x]
  BY <1>1, <1>2, <1>8 DEF Holds
<1>11. CashTypeOK' BY <1>2, <1>6, <1>8 DEF CashTypeOK
<1>12. PaymentsNumbered'
  <2>1. IsFiniteSet(payments') /\ Cardinality(payments') = Cardinality(payments) + 1
    BY <1>2, <1>5, <1>7, FS_AddElement
  <2>2. \A x \in payments : x.id <= Cardinality(payments) BY DEF PaymentsNumbered
  <2>3. \A x \in payments' : x.id <= Cardinality(payments')
    BY <2>1, <2>2, <1>2, <1>4, <1>5, <1>7
  <2>4. \A x, y \in payments' : x.id = y.id => x = y BY <1>2, <1>7 DEF PaymentsNumbered
  <2> QED BY <2>1, <2>3, <2>4 DEF PaymentsNumbered
<1>13. NamesBorne'
  <2>1. p.name \in borne[p.by] BY <1>1, <1>2, <1>4 DEF NamesBorne
  <2> QED BY <2>1, <1>2, <1>8 DEF NamesBorne
<1>14. WindowsCount'
  <2>1. \A ids, s, start, upto : Counts(ids, s, start, upto) => Counts(ids, s, start, upto)'
    BY <1>2 DEF Counts
  <2>2. ASSUME NEW h \in handovers'
        PROVE  h.start < h.end /\ Counts(h.counted, h.staff, h.start, h.end)'
    BY <2>1, <1>2 DEF WindowsCount
  <2>3. ASSUME NEW x \in Request, NEW s \in Staff, Holds(x, s)'
        PROVE  /\ request'[x].since < request'[x].time
               /\ Counts(request[x].counted, s, request[x].since, request[x].time)'
    <3>1. PICK w : w = request[x] /\ w = request'[x] BY <2>3, <1>9, <1>10
    <3>2. w.since < w.time /\ Counts(w.counted, s, w.since, w.time)
      BY <2>3, <3>1, <1>9 DEF WindowsCount
    <3>3. Counts(w.counted, s, w.since, w.time)' BY <3>2, <2>1
    <3> QED BY <3>1, <3>2, <3>3
  <2> QED BY <2>2, <2>3 DEF WindowsCount
<1>15. WindowsFollow' BY <1>2, <1>9, <1>10 DEF WindowsFollow, HandoversOf
<1>16. NoneMissed'
  <2> SUFFICES ASSUME NEW x \in payments', Seen(x)'
               PROVE  /\ \A h \in HandoversOf(x.by) :
                            x.received <= h.end => HandedOver(x.id) \/ TooOld(x)
                      /\ \A y \in Request : Holds(y, x.by)' /\ x.received <= request'[y].time
                            => \/ x.id \in request'[y].counted \/ HandedOver(x.id)
                               \/ TooOld(x) /\ x.received <= request'[y].since
    BY <1>2 DEF NoneMissed, HandoversOf, HandedOver, TooOld
  <2>1. CASE x = p
    <3>1. ~Closed(r.staff, r.time) BY <2>1, <1>2 DEF Seen
    <3>2. \A h \in HandoversOf(p.by) : ~(p.received <= h.end) BY <3>1, <1>4 DEF Closed
    <3>3. \A y \in Request : ~(Holds(y, p.by) /\ p.received <= request[y].time)
      BY <3>1, <1>4 DEF Closed, Holds
    <3> QED BY <2>1, <3>2, <3>3, <1>3, <1>4, <1>9, <1>10
  <2>2. CASE x # p
    <3>1. x \in payments /\ Seen(x) /\ x.by \in Staff
      BY <2>2, <1>2, <1>7 DEF Seen, Payment
    <3> QED BY <3>1, <1>9, <1>10 DEF NoneMissed
  <2> QED BY <2>1, <2>2
<1> QED BY <1>11, <1>12, <1>13, <1>14, <1>15, <1>16

\* _cash_since: no window of this person ends later, and one ends there unless
\* it is the first.
LEMMA LastWindow ==
    ASSUME CashTypeOK, NEW s \in Staff
    PROVE  /\ CashSince(s) \in Int
           /\ \A h \in HandoversOf(s) : h.end <= CashSince(s)
           /\ HandoversOf(s) = {} \/ \E h \in HandoversOf(s) : h.end = CashSince(s)
<1> DEFINE ends == {h.end : h \in HandoversOf(s)}
<1>1. \A h \in HandoversOf(s) : h.end \in 0 .. MaxTime
  BY DEF HandoversOf, CashTypeOK, Handover
<1>2. CASE HandoversOf(s) = {}
  <2>1. CashSince(s) = now - LookBack BY <1>2 DEF CashSince
  <2> QED BY <1>2, <2>1, CashAssumption DEF CashTypeOK
<1>3. CASE HandoversOf(s) # {}
  <2>1. ends \in SUBSET (0 .. MaxTime) /\ ends # {} BY <1>1, <1>3
  <2>2. ends \in SUBSET Int /\ IsFiniteSet(ends)
    <3>1. IsFiniteSet(0 .. MaxTime) BY CashAssumption, FS_Interval
    <3>2. \A x \in 0 .. MaxTime : x \in Int OBVIOUS
    <3> HIDE DEF ends
    <3>3. IsFiniteSet(ends) BY <2>1, <3>1, FS_Subset
    <3> QED BY <2>1, <3>2, <3>3
  <2>3. CashSince(s) = Max(ends) BY <1>3 DEF CashSince
  <2>4. Max(ends) \in ends /\ \A x \in ends : x <= Max(ends)
    <3> HIDE DEF ends
    <3> QED BY <2>1, <2>2, MaxIsGreatest
  <2> QED BY <2>2, <2>3, <2>4
<1> QED BY <1>2, <1>3

LEMMA CashRead ==
    ASSUME CashInv, NEW q \in Request, ReadHandover(q)
    PROVE  CashInv'
<1> USE DEF CashInv
<1>1. PICK r, s, t, since, hand : /\ r = request[q] /\ s = r.staff /\ t = r.time
                                  /\ since = CashSince(s) /\ hand = CashInHand(s, since, t)
  OBVIOUS
<1>2. /\ r.at = "asked" /\ ~Locked(s)
      /\ UNCHANGED <<now, named, payments, handovers, counting, borne, late>>
      /\ request' = [request EXCEPT ![q] =
             IF hand = {} THEN None
             ELSE [at |-> "holding", staff |-> s, time |-> t, since |-> since, counted |-> hand]]
  BY <1>1 DEF ReadHandover, Set
<1>3. s \in Staff /\ t \in 0 .. MaxTime BY <1>1, <1>2, RequestPhases DEF Asked
<1>4. /\ since \in Int
      /\ \A h \in HandoversOf(s) : h.end <= since
      /\ HandoversOf(s) = {} \/ \E h \in HandoversOf(s) : h.end = since
  BY <1>1, <1>3, LastWindow
<1>5. /\ \A i \in hand : \E p \in payments : /\ p.id = i /\ p.name = named[s]
                                             /\ since < p.received /\ p.received <= t
      /\ \A p \in payments : p.name = named[s] /\ since < p.received /\ p.received <= t
                                => p.id \in hand
  BY <1>1 DEF CashInHand
<1>6. hand \in SUBSET (1 .. MaxPayments) BY <1>5 DEF CashTypeOK, Payment
<1>7. \A x \in Request \ {q} : request'[x] = request[x] BY <1>2 DEF CashTypeOK
<1>8. ~(\E x \in Request : Holds(x, s)) BY <1>2 DEF Locked, Holds
<1>9. CASE hand = {}
  <2>1. request'[q] = None BY <1>2, <1>9 DEF CashTypeOK
  <2>2. CashTypeOK' BY <1>2, <1>7, <2>1 DEF CashTypeOK
  <2>3. \A x \in Request, u \in Staff : Holds(x, u)' => Holds(x, u) /\ request'[x] = request[x]
    BY <1>7, <2>1 DEF Holds, None
  <2>4. \A x \in Request : request'[x].at = "collecting"
                               => request'[x].name \in borne[request'[x].staff]
    BY <1>7, <2>1 DEF NamesBorne, None
  <2> HIDE DEF CashInv
  <2> QED BY <1>2, <2>2, <2>3, <2>4, CashStays
<1>10. CASE hand # {}
  <2>1. PICK w : w = [at |-> "holding", staff |-> s, time |-> t, since |-> since, counted |-> hand]
    OBVIOUS
  <2>2. w \in Holding BY <2>1, <1>3, <1>4, <1>6 DEF Holding
  <2>3. w.at = "holding" /\ w.staff = s /\ w.time = t /\ w.since = since /\ w.counted = hand
    BY <2>1
  <2>4. request'[q] = w BY <1>2, <1>10, <2>1 DEF CashTypeOK
  <2>5. CashTypeOK' BY <1>2, <1>7, <2>2, <2>4 DEF CashTypeOK
  <2>6. \A x \in Request, u \in Staff : Holds(x, u)' <=> (Holds(x, u) \/ (x = q /\ u = s))
    BY <1>1, <1>2, <1>7, <2>3, <2>4 DEF Holds
  <2>7. ~Holds(q, s) /\ \A u \in Staff : ~Holds(q, u) BY <1>1, <1>2 DEF Holds
  <2>8. PaymentsNumbered' BY <1>2 DEF PaymentsNumbered
  <2>9. NamesBorne' BY <1>2, <1>7, <2>3, <2>4 DEF NamesBorne
  <2>10. since < t /\ Counts(hand, s, since, t)
    <3>1. Counts(hand, s, since, t) BY <1>3, <1>5 DEF Counts, NamesBorne
    <3>2. PICK p \in payments : since < p.received /\ p.received <= t BY <1>5, <1>10
    <3>3. p.received \in Int BY DEF CashTypeOK, Payment
    <3> QED BY <3>1, <3>2, <3>3, <1>3, <1>4
  <2>11. WindowsCount'
    <3>1. \A ids, u, start, upto : Counts(ids, u, start, upto) => Counts(ids, u, start, upto)'
      BY <1>2 DEF Counts
    <3>2. ASSUME NEW h \in handovers'
          PROVE  h.start < h.end /\ Counts(h.counted, h.staff, h.start, h.end)'
      BY <3>1, <1>2 DEF WindowsCount
    <3>3. ASSUME NEW x \in Request, NEW u \in Staff, Holds(x, u)'
          PROVE  /\ request'[x].since < request'[x].time
                 /\ Counts(request[x].counted, u, request[x].since, request[x].time)'
      <4>1. PICK v : v = request'[x] OBVIOUS
      <4>2. v.since < v.time /\ Counts(v.counted, u, v.since, v.time)
        <5>1. CASE x = q /\ u = s BY <5>1, <4>1, <2>3, <2>4, <2>10
        <5>2. CASE ~(x = q /\ u = s)
          <6>1. Holds(x, u) /\ x # q BY <5>2, <3>3, <2>6, <2>7
          <6> QED BY <6>1, <4>1, <1>7 DEF WindowsCount
        <5> QED BY <5>1, <5>2
      <4>3. Counts(v.counted, u, v.since, v.time)' BY <4>2, <3>1
      <4> QED BY <4>1, <4>2, <4>3
    <3> QED BY <3>2, <3>3 DEF WindowsCount
  <2>12. WindowsFollow'
    <3>1. ASSUME NEW x \in Request, NEW u \in Staff, Holds(x, u)'
          PROVE  /\ \A h \in HandoversOf(u) : h.end <= request'[x].since
                 /\ \A y \in Request : Holds(y, u)' => y = x
      <4>1. CASE u = s
        <5>1. x = q /\ \A y \in Request : Holds(y, u)' => y = q BY <4>1, <3>1, <2>6, <1>8
        <5> QED BY <5>1, <4>1, <1>4, <2>3, <2>4
      <4>2. CASE u # s
        <5>1. x # q /\ Holds(x, u) /\ \A y \in Request : Holds(y, u)' => Holds(y, u)
          BY <4>2, <3>1, <2>6, <2>7
        <5> QED BY <5>1, <1>7 DEF WindowsFollow
      <4> QED BY <4>1, <4>2
    <3>2. \A g, h \in handovers : g.staff = h.staff => g = h \/ g.end <= h.start \/ h.end <= g.start
      BY DEF WindowsFollow
    <3> QED BY <3>1, <3>2, <1>2 DEF WindowsFollow, HandoversOf
  <2>13. NoneMissed'
    <3> SUFFICES ASSUME NEW p \in payments, Seen(p)
                 PROVE  /\ \A h \in HandoversOf(p.by) :
                              p.received <= h.end => HandedOver(p.id) \/ TooOld(p)
                        /\ \A x \in Request : Holds(x, p.by)' /\ p.received <= request'[x].time
                              => \/ p.id \in request'[x].counted \/ HandedOver(p.id)
                                 \/ TooOld(p) /\ p.received <= request'[x].since
      BY <1>2 DEF NoneMissed, HandoversOf, HandedOver, Seen, TooOld
    <3>1. p.by \in Staff /\ p.received \in 0 .. MaxTime BY DEF CashTypeOK, Payment
    <3>2. \A h \in HandoversOf(p.by) : p.received <= h.end => HandedOver(p.id) \/ TooOld(p)
      BY DEF NoneMissed
    <3>3. ASSUME NEW x \in Request, Holds(x, p.by)', p.received <= request'[x].time
          PROVE  \/ p.id \in request'[x].counted \/ HandedOver(p.id)
                 \/ TooOld(p) /\ p.received <= request'[x].since
      <4>1. CASE x = q /\ p.by = s
        <5>1. named[s] \in borne[s] /\ IsFiniteSet(borne[s]) /\ p.name \in borne[s]
          BY <4>1, <1>3 DEF NamesBorne
        <5>2. p.name = named[s] BY <5>1, <4>1, TwoAreMany DEF Seen
        <5>3. p.received <= t BY <4>1, <3>3, <2>3, <2>4
        <5>4. CASE since < p.received BY <5>2, <5>3, <5>4, <4>1, <1>5, <2>3, <2>4
        <5>5. CASE ~(since < p.received)
          <6>1. p.received <= since BY <5>5, <1>4, <3>1
          <6>2. TooOld(p) => TooOld(p) /\ p.received <= request'[x].since
            BY <6>1, <4>1, <2>3, <2>4
          <6>3. CASE HandoversOf(s) = {} BY <6>2, <6>3, <4>1 DEF TooOld
          <6>4. CASE HandoversOf(s) # {}
            <7>1. PICK h \in HandoversOf(s) : h.end = since BY <6>4, <1>4
            <7> QED BY <7>1, <6>1, <6>2, <4>1, <3>2
          <6> QED BY <6>3, <6>4
        <5> QED BY <5>4, <5>5
      <4>2. CASE ~(x = q /\ p.by = s)
        <5>1. Holds(x, p.by) /\ x # q BY <4>2, <3>1, <3>3, <2>6, <2>7
        <5> QED BY <5>1, <3>3, <1>7 DEF NoneMissed
      <4> QED BY <4>1, <4>2
    <3> QED BY <3>2, <3>3
  <2> QED BY <2>5, <2>8, <2>9, <2>11, <2>12, <2>13
<1> QED BY <1>9, <1>10

LEMMA CashCommitHandover ==
    ASSUME CashInv, NEW q \in Request, CommitHandover(q)
    PROVE  CashInv'
<1> USE DEF CashInv
<1>1. PICK r, n, s : /\ r = request[q] /\ s = r.staff
                     /\ n = [staff |-> r.staff, start |-> r.since, end |-> r.time,
                             counted |-> r.counted, status |-> "PENDING", by |-> r.staff]
  OBVIOUS
<1>2. /\ r.at = "holding" /\ handovers' = handovers \cup {n}
      /\ request' = [request EXCEPT ![q] = None]
      /\ UNCHANGED <<now, named, payments, counting, borne, late>>
  BY <1>1 DEF CommitHandover, Set
<1>3. r \in Holding BY <1>1, <1>2, RequestPhases
<1>4. /\ s \in Staff /\ n.staff = s /\ n.start = r.since /\ n.end = r.time
      /\ n.counted = r.counted /\ n \in Handover
  BY <1>1, <1>3 DEF Holding, Handover
<1>5. Holds(q, s) BY <1>1, <1>2 DEF Holds
<1>6. /\ request'[q] = None /\ \A x \in Request \ {q} : request'[x] = request[x]
      /\ request' \in [Request -> {None} \cup Collecting \cup Asked \cup Holding]
  BY <1>2 DEF CashTypeOK
<1>7. \A x \in Request, u \in Staff : Holds(x, u)' => x # q /\ u # s /\ Holds(x, u)
  <2>1. ASSUME NEW x \in Request, NEW u \in Staff, Holds(x, u)' PROVE x # q /\ Holds(x, u)
    BY <2>1, <1>6 DEF Holds, None
  <2>2. \A x \in Request : Holds(x, s) => x = q BY <1>4, <1>5 DEF WindowsFollow
  <2> QED BY <2>1, <2>2
<1>8. CashTypeOK' BY <1>2, <1>4, <1>6 DEF CashTypeOK
<1>9. PaymentsNumbered' BY <1>2 DEF PaymentsNumbered
<1>10. NamesBorne' BY <1>2, <1>6 DEF NamesBorne, None
<1>11. n.start < n.end /\ Counts(n.counted, s, n.start, n.end)
  BY <1>1, <1>4, <1>5 DEF WindowsCount
<1>12. WindowsCount'
  <2>1. \A ids, u, start, upto : Counts(ids, u, start, upto) => Counts(ids, u, start, upto)'
    BY <1>2 DEF Counts
  <2>2. ASSUME NEW h \in handovers'
        PROVE  h.start < h.end /\ Counts(h.counted, h.staff, h.start, h.end)'
    BY <2>1, <1>2, <1>4, <1>11 DEF WindowsCount
  <2>3. ASSUME NEW x \in Request, NEW u \in Staff, Holds(x, u)'
        PROVE  /\ request'[x].since < request'[x].time
               /\ Counts(request[x].counted, u, request[x].since, request[x].time)'
    <3>1. PICK w : w = request[x] /\ w = request'[x] BY <2>3, <1>6, <1>7
    <3>2. w.since < w.time /\ Counts(w.counted, u, w.since, w.time)
      BY <2>3, <3>1, <1>7 DEF WindowsCount
    <3>3. Counts(w.counted, u, w.since, w.time)' BY <3>2, <2>1
    <3> QED BY <3>1, <3>2, <3>3
  <2> QED BY <2>2, <2>3 DEF WindowsCount
<1>13. WindowsFollow'
  <2>1. \A h \in handovers : h.staff = s => h.end <= n.start
    BY <1>1, <1>4, <1>5 DEF WindowsFollow, HandoversOf
  <2>2. \A g, h \in handovers' : g.staff = h.staff => g = h \/ g.end <= h.start \/ h.end <= g.start
    BY <2>1, <1>2, <1>4 DEF WindowsFollow
  <2>3. ASSUME NEW x \in Request, NEW u \in Staff, Holds(x, u)'
        PROVE  /\ \A h \in HandoversOf(u)' : h.end <= request'[x].since
               /\ \A y \in Request : Holds(y, u)' => y = x
    <3>1. x # q /\ u # s /\ Holds(x, u) BY <2>3, <1>7
    <3>2. HandoversOf(u)' = HandoversOf(u) BY <3>1, <1>2, <1>4 DEF HandoversOf
    <3> QED BY <3>1, <3>2, <1>6, <1>7 DEF WindowsFollow
  <2> QED BY <2>2, <2>3 DEF WindowsFollow
<1>14. NoneMissed'
  <2> SUFFICES ASSUME NEW p \in payments, Seen(p)
               PROVE  /\ \A h \in HandoversOf(p.by)' :
                            p.received <= h.end => HandedOver(p.id)' \/ TooOld(p)'
                      /\ \A x \in Request : Holds(x, p.by)' /\ p.received <= request'[x].time
                            => \/ p.id \in request'[x].counted \/ HandedOver(p.id)'
                               \/ TooOld(p)' /\ p.received <= request'[x].since
    BY <1>2 DEF NoneMissed, Seen
  <2>1. p.by \in Staff /\ p.received \in Int BY DEF CashTypeOK, Payment
  <2>2. HandedOver(p.id) => HandedOver(p.id)' BY <1>2 DEF HandedOver
  <2>3. \A h \in HandoversOf(p.by)' : h \in HandoversOf(p.by) \/ (h = n /\ p.by = s)
    BY <1>2, <1>4 DEF HandoversOf
  <2>4. TooOld(p) /\ (p.by = s => p.received <= n.start) => TooOld(p)' BY <2>3 DEF TooOld
  <2>5. p.by = s /\ p.received <= n.end => HandedOver(p.id)' \/ TooOld(p)'
    <3>1. p.by = s /\ p.received <= n.end
              => \/ p.id \in n.counted \/ HandedOver(p.id)
                 \/ TooOld(p) /\ p.received <= n.start
      BY <1>1, <1>4, <1>5 DEF NoneMissed
    <3>2. p.id \in n.counted => HandedOver(p.id)' BY <1>2 DEF HandedOver
    <3> QED BY <3>1, <3>2, <2>2, <2>4
  <2>6. ASSUME NEW h \in HandoversOf(p.by), p.received <= h.end
        PROVE  HandedOver(p.id)' \/ TooOld(p)'
    <3>1. HandedOver(p.id) \/ TooOld(p) BY <2>6 DEF NoneMissed
    <3>2. p.by = s => h.end <= n.start BY <2>6, <1>1, <1>4, <1>5 DEF WindowsFollow
    <3>3. h.end \in Int /\ n.start \in Int
      BY <2>6, <1>4 DEF HandoversOf, CashTypeOK, Handover
    <3>4. p.by = s => p.received <= n.start BY <3>2, <3>3, <2>1, <2>6
    <3> QED BY <3>1, <3>4, <2>2, <2>4
  <2>7. \A h \in HandoversOf(p.by)' : p.received <= h.end => HandedOver(p.id)' \/ TooOld(p)'
    BY <2>3, <2>5, <2>6
  <2>8. ASSUME NEW x \in Request, Holds(x, p.by)', p.received <= request'[x].time
        PROVE  \/ p.id \in request'[x].counted \/ HandedOver(p.id)'
               \/ TooOld(p)' /\ p.received <= request'[x].since
    <3>1. x # q /\ p.by # s /\ Holds(x, p.by) /\ request'[x] = request[x]
      BY <2>1, <2>8, <1>6, <1>7
    <3> QED BY <3>1, <2>2, <2>4, <2>8 DEF NoneMissed
  <2> QED BY <2>7, <2>8
<1> QED BY <1>8, <1>9, <1>10, <1>12, <1>13, <1>14

\* A confirmed count keeps the window and what it counted.
LEMMA CashConfirm ==
    ASSUME CashInv, NEW m \in Manager, ConfirmHandover(m)
    PROVE  CashInv'
<1> USE DEF CashInv
<1> DEFINE same(h) == \E c \in counting[m] : h.staff = c.staff /\ h.end = c.end
           F(h) == IF same(h) THEN [h EXCEPT !.status = "CONFIRMED", !.by = m] ELSE h
<1>1. /\ handovers' = {F(h) : h \in handovers}
      /\ counting' = [counting EXCEPT ![m] = {}]
      /\ UNCHANGED <<now, named, payments, request, borne, late>>
  BY DEF ConfirmHandover
<1>2. ASSUME NEW h \in handovers
      PROVE  /\ F(h) \in Handover /\ F(h).staff = h.staff /\ F(h).start = h.start
             /\ F(h).end = h.end /\ F(h).counted = h.counted
  <2>1. h \in Handover BY DEF CashTypeOK
  <2> QED BY <2>1 DEF Handover
<1> HIDE DEF F
<1>3. \A g \in handovers' : \E h \in handovers :
          /\ g = F(h) /\ g.staff = h.staff /\ g.start = h.start /\ g.end = h.end
          /\ g.counted = h.counted
  BY <1>1, <1>2
<1>4. CashTypeOK'
  <2>1. handovers' \in SUBSET Handover BY <1>1, <1>2
  <2>2. counting' \in [Manager -> SUBSET Handover] BY <1>1 DEF CashTypeOK
  <2> QED BY <1>1, <2>1, <2>2 DEF CashTypeOK
<1>5. PaymentsNumbered' /\ NamesBorne' BY <1>1 DEF PaymentsNumbered, NamesBorne
<1>6. \A ids, u, start, upto : Counts(ids, u, start, upto)' <=> Counts(ids, u, start, upto)
  BY <1>1 DEF Counts
<1>7. \A x \in Request, u \in Staff : Holds(x, u)' <=> Holds(x, u) BY <1>1 DEF Holds
<1>8. WindowsCount'
  <2>1. ASSUME NEW g \in handovers'
        PROVE  g.start < g.end /\ Counts(g.counted, g.staff, g.start, g.end)'
    <3>1. PICK h \in handovers : /\ g.staff = h.staff /\ g.start = h.start /\ g.end = h.end
                                 /\ g.counted = h.counted
      BY <1>3
    <3>2. h.start < h.end /\ Counts(h.counted, h.staff, h.start, h.end) BY DEF WindowsCount
    <3>3. g.start < g.end /\ Counts(g.counted, g.staff, g.start, g.end) BY <3>1, <3>2
    <3> QED BY <3>3, <1>6
  <2>2. ASSUME NEW x \in Request, NEW u \in Staff, Holds(x, u)'
        PROVE  /\ request'[x].since < request'[x].time
               /\ Counts(request[x].counted, u, request[x].since, request[x].time)'
    <3>1. PICK w : w = request[x] /\ w = request'[x] BY <1>1
    <3>2. w.since < w.time /\ Counts(w.counted, u, w.since, w.time)
      BY <2>2, <3>1, <1>7 DEF WindowsCount
    <3>3. Counts(w.counted, u, w.since, w.time)' BY <3>2, <1>6
    <3> QED BY <3>1, <3>2, <3>3
  <2> QED BY <2>1, <2>2 DEF WindowsCount
<1>9. WindowsFollow'
  <2>1. ASSUME NEW g \in handovers', NEW h \in handovers', g.staff = h.staff
        PROVE  g = h \/ g.end <= h.start \/ h.end <= g.start
    <3>1. PICK a \in handovers : g = F(a) /\ g.staff = a.staff /\ g.start = a.start /\ g.end = a.end
      BY <1>3
    <3>2. PICK b \in handovers : h = F(b) /\ h.staff = b.staff /\ h.start = b.start /\ h.end = b.end
      BY <1>3
    <3>3. a = b \/ a.end <= b.start \/ b.end <= a.start BY <2>1, <3>1, <3>2 DEF WindowsFollow
    <3> QED BY <3>1, <3>2, <3>3
  <2>2. ASSUME NEW x \in Request, NEW u \in Staff, Holds(x, u)'
        PROVE  /\ \A h \in HandoversOf(u)' : h.end <= request'[x].since
               /\ \A y \in Request : Holds(y, u)' => y = x
    <3>1. Holds(x, u) BY <2>2, <1>7
    <3>2. \A h \in HandoversOf(u) : h.end <= request[x].since BY <3>1 DEF WindowsFollow
    <3>3. \A h \in HandoversOf(u)' : h.end <= request[x].since
      BY <3>2, <1>3 DEF HandoversOf
    <3> QED BY <3>1, <3>3, <1>1, <1>7 DEF WindowsFollow
  <2> QED BY <2>1, <2>2 DEF WindowsFollow
<1>10. NoneMissed'
  <2> SUFFICES ASSUME NEW p \in payments, Seen(p)
               PROVE  /\ \A h \in HandoversOf(p.by)' :
                            p.received <= h.end => HandedOver(p.id)' \/ TooOld(p)'
                      /\ \A x \in Request : Holds(x, p.by)' /\ p.received <= request'[x].time
                            => \/ p.id \in request'[x].counted \/ HandedOver(p.id)'
                               \/ TooOld(p)' /\ p.received <= request'[x].since
    BY <1>1 DEF NoneMissed, Seen
  <2>1. p.by \in Staff BY DEF CashTypeOK, Payment
  <2>2. HandedOver(p.id) => HandedOver(p.id)'
    <3> SUFFICES ASSUME NEW h \in handovers, p.id \in h.counted PROVE HandedOver(p.id)'
      BY DEF HandedOver
    <3>1. F(h) \in handovers' /\ p.id \in F(h).counted BY <1>1, <1>2
    <3> QED BY <3>1 DEF HandedOver
  <2>3. ASSUME NEW g \in HandoversOf(p.by)'
        PROVE  \E h \in HandoversOf(p.by) : g.start = h.start /\ g.end = h.end
    <3>1. PICK h \in handovers : g.staff = h.staff /\ g.start = h.start /\ g.end = h.end
      BY <1>3 DEF HandoversOf
    <3> QED BY <3>1 DEF HandoversOf
  <2>4. TooOld(p) => TooOld(p)' BY <2>3 DEF TooOld
  <2>5. \A h \in HandoversOf(p.by)' : p.received <= h.end => HandedOver(p.id)' \/ TooOld(p)'
    BY <2>2, <2>3, <2>4 DEF NoneMissed
  <2>6. \A x \in Request : Holds(x, p.by)' /\ p.received <= request'[x].time
                            => \/ p.id \in request'[x].counted \/ HandedOver(p.id)'
                               \/ TooOld(p)' /\ p.received <= request'[x].since
    BY <2>1, <2>2, <2>4, <1>1, <1>7 DEF NoneMissed
  <2> QED BY <2>5, <2>6
<1> QED BY <1>4, <1>5, <1>8, <1>9, <1>10

LEMMA CashRename ==
    ASSUME CashInv, NEW s \in Staff, NEW n \in Name, Rename(s, n)
    PROVE  CashInv'
<1> USE DEF CashInv
<1>1. /\ named' = [named EXCEPT ![s] = n] /\ borne' = [borne EXCEPT ![s] = @ \cup {n}]
      /\ UNCHANGED <<now, payments, handovers, request, counting, late>>
  BY DEF Rename
<1>2. /\ borne'[s] = borne[s] \cup {n} /\ \A u \in Staff \ {s} : borne'[u] = borne[u]
      /\ named'[s] = n /\ \A u \in Staff \ {s} : named'[u] = named[u]
  BY <1>1 DEF CashTypeOK
<1>3. \A u \in Staff : borne[u] \subseteq borne'[u] /\ IsFiniteSet(borne'[u])
  BY <1>2, FS_AddElement DEF NamesBorne
<1>4. CashTypeOK' BY <1>1 DEF CashTypeOK
<1>5. PaymentsNumbered' BY <1>1 DEF PaymentsNumbered
<1>6. NamesBorne'
  <2>1. \A p \in payments : p.by \in Staff BY DEF CashTypeOK, Payment
  <2>2. \A q \in Request : request[q].at = "collecting" => request[q].staff \in Staff
    BY RequestPhases DEF Collecting
  <2> QED BY <2>1, <2>2, <1>1, <1>2, <1>3 DEF NamesBorne
<1>7. \A x \in Request, u \in Staff : Holds(x, u)' <=> Holds(x, u) BY <1>1 DEF Holds
<1>8. \A u \in Staff : \A ids, start, upto : Counts(ids, u, start, upto) => Counts(ids, u, start, upto)'
  BY <1>1, <1>3 DEF Counts
<1>9. WindowsCount'
  <2>1. ASSUME NEW h \in handovers'
        PROVE  h.start < h.end /\ Counts(h.counted, h.staff, h.start, h.end)'
    <3>1. h \in handovers /\ h.staff \in Staff BY <1>1 DEF CashTypeOK, Handover
    <3> QED BY <3>1, <1>8 DEF WindowsCount
  <2>2. ASSUME NEW x \in Request, NEW u \in Staff, Holds(x, u)'
        PROVE  /\ request'[x].since < request'[x].time
               /\ Counts(request[x].counted, u, request[x].since, request[x].time)'
    <3>1. PICK w : w = request[x] /\ w = request'[x] BY <1>1
    <3>2. w.since < w.time /\ Counts(w.counted, u, w.since, w.time)
      BY <2>2, <3>1, <1>7 DEF WindowsCount
    <3>3. Counts(w.counted, u, w.since, w.time)' BY <3>2, <1>8
    <3> QED BY <3>1, <3>2, <3>3
  <2> QED BY <2>1, <2>2 DEF WindowsCount
<1>10. WindowsFollow' BY <1>1, <1>7 DEF WindowsFollow, HandoversOf
<1>11. NoneMissed'
  <2> SUFFICES ASSUME NEW p \in payments, Seen(p)'
               PROVE  /\ \A h \in HandoversOf(p.by) :
                            p.received <= h.end => HandedOver(p.id) \/ TooOld(p)
                      /\ \A x \in Request : Holds(x, p.by)' /\ p.received <= request[x].time
                            => \/ p.id \in request[x].counted \/ HandedOver(p.id)
                               \/ TooOld(p) /\ p.received <= request[x].since
    BY <1>1 DEF NoneMissed, HandoversOf, HandedOver, TooOld
  <2>1. p.by \in Staff BY DEF CashTypeOK, Payment
  <2>2. Seen(p)
    <3>1. borne[p.by] \in SUBSET borne'[p.by] /\ IsFiniteSet(borne'[p.by]) BY <2>1, <1>3
    <3>2. /\ Cardinality(borne[p.by]) <= Cardinality(borne'[p.by])
          /\ Cardinality(borne[p.by]) \in Nat /\ Cardinality(borne'[p.by]) \in Nat
      BY <3>1, FS_Subset, FS_CardinalityType
    <3> QED BY <3>2, <1>1 DEF Seen
  <2> QED BY <2>1, <2>2, <1>7 DEF NoneMissed
<1> QED BY <1>4, <1>5, <1>6, <1>9, <1>10, <1>11

LEMMA CashStep == CashInv /\ [CashNext]_cashVars => CashInv'
<1> SUFFICES ASSUME CashInv, [CashNext]_cashVars PROVE CashInv' OBVIOUS
<1>0. CashTypeOK /\ NamesBorne BY DEF CashInv
\* A request that begins a payment or asks for a handover.
<1>1. ASSUME NEW q \in Request, NEW w \in Collecting \cup Asked, request[q] = None,
             request' = [request EXCEPT ![q] = w],
             w.at = "collecting" => w.name \in borne[w.staff],
             UNCHANGED <<now, named, payments, handovers, counting, borne, late>>
      PROVE  CashInv'
  <2>1. request'[q] = w /\ \A x \in Request \ {q} : request'[x] = request[x]
    BY <1>0, <1>1 DEF CashTypeOK
  <2>2. w.at # "holding" BY <1>1 DEF Collecting, Asked
  <2>3. CashTypeOK' BY <1>0, <1>1, <2>1 DEF CashTypeOK
  <2>4. \A x \in Request, s \in Staff : Holds(x, s)' => Holds(x, s) /\ request'[x] = request[x]
    BY <2>1, <2>2 DEF Holds
  <2>5. \A x \in Request : request'[x].at = "collecting"
                               => request'[x].name \in borne[request'[x].staff]
    BY <1>0, <1>1, <2>1 DEF NamesBorne
  <2> QED BY <1>1, <2>3, <2>4, <2>5, CashStays
<1>2. ASSUME NEW q \in Request, NEW s \in Staff, BeginPayment(q, s) PROVE CashInv'
  <2>1. PICK w : w = [at |-> "collecting", staff |-> s, name |-> named[s], time |-> now] OBVIOUS
  <2>2. w \in Collecting BY <2>1, <1>0 DEF Collecting, CashTypeOK
  <2>3. w.name \in borne[w.staff] BY <2>1, <1>0 DEF NamesBorne
  <2> QED BY <1>1, <1>2, <2>1, <2>2, <2>3 DEF BeginPayment, Set
<1>3. ASSUME NEW q \in Request, NEW s \in Staff, AskHandover(q, s) PROVE CashInv'
  <2>1. PICK w : w = [at |-> "asked", staff |-> s, time |-> now] OBVIOUS
  <2>2. w \in Asked /\ w.at = "asked" BY <2>1, <1>0 DEF Asked, CashTypeOK
  <2> QED BY <1>1, <1>3, <2>1, <2>2 DEF AskHandover, Set
\* A step that leaves the requests and the rows as they are.
<1>4. ASSUME CashTypeOK', UNCHANGED <<named, payments, handovers, request, borne, late>>
      PROVE  CashInv'
  <2>1. \A x \in Request, s \in Staff : Holds(x, s)' => Holds(x, s) /\ request'[x] = request[x]
    BY <1>4 DEF Holds
  <2>2. \A x \in Request : request'[x].at = "collecting"
                               => request'[x].name \in borne[request'[x].staff]
    BY <1>0, <1>4 DEF NamesBorne
  <2> QED BY <1>4, <2>1, <2>2, CashStays
<1>5. CASE Tick
  <2>1. now' \in 0 .. MaxTime BY <1>0, <1>5, CashAssumption DEF Tick, CashTypeOK
  <2>2. CashTypeOK' BY <1>0, <1>5, <2>1 DEF Tick, CashTypeOK
  <2> QED BY <1>4, <1>5, <2>2 DEF Tick
<1>6. ASSUME NEW m \in Manager, NEW h \in handovers, LoadHandover(m, h) PROVE CashInv'
  <2>1. CashTypeOK' BY <1>0, <1>6 DEF LoadHandover, CashTypeOK
  <2> QED BY <1>4, <1>6, <2>1 DEF LoadHandover
<1>7. CASE UNCHANGED cashVars
  <2>1. CashTypeOK' BY <1>0, <1>7 DEF cashVars, CashTypeOK
  <2> QED BY <1>4, <1>7, <2>1 DEF cashVars
<1> QED BY <1>2, <1>3, <1>5, <1>6, <1>7, CashCommitPayment, CashRead, CashCommitHandover,
           CashConfirm, CashRename DEF CashNext

\* The variables of the cash drawer keep their types: what is counted or being
\* deleted is a payment there was, and the clock stays within its bound.
THEOREM CashTyped == CashSpec => []CashTypeOK
<1>1. CashInv => CashTypeOK BY DEF CashInv
<1> QED BY <1>1, CashStart, CashStep, PTL DEF CashSpec

\* "isliye ek rupaya do baar nahi ginta" (hand_over_cash): a payment is in two
\* handovers only when two people have had its name, and one before the end of
\* its collector's last handover is in a handover, unless it is older than what
\* their first one looked back to, it was committed behind a window that had
\* been read or its collector was renamed.
THEOREM CashCounted == CashSpec => []CashCountedOnce
<1>1. CashInv => CashCountedOnce
  <2> SUFFICES ASSUME CashInv, NEW p \in payments
               PROVE  /\ Cardinality({h \in handovers : p.id \in h.counted}) > 1
                            => Cardinality(Bearers(p.name)) > 1
                      /\ \/ p \in late \/ Cardinality(borne[p.by]) > 1
                         \/ \A h \in HandoversOf(p.by) : p.received > h.end
                         \/ \A h \in HandoversOf(p.by) : p.received <= h.start
                         \/ \E h \in handovers : p.id \in h.counted
    BY DEF CashCountedOnce
  <2>0. CashTypeOK BY DEF CashInv
  <2>1. ASSUME Cardinality({h \in handovers : p.id \in h.counted}) > 1
        PROVE  Cardinality(Bearers(p.name)) > 1
    <3>1. PICK g \in handovers, h \in handovers : g # h /\ p.id \in g.counted /\ p.id \in h.counted
      BY <2>1, ManyHaveTwo
    <3>2. ASSUME NEW w \in handovers, p.id \in w.counted
          PROVE  p.name \in borne[w.staff] /\ w.start < p.received /\ p.received <= w.end
      <4>1. Counts(w.counted, w.staff, w.start, w.end) BY DEF CashInv, WindowsCount
      <4>2. \A x \in payments : x.id = p.id => x = p BY DEF CashInv, PaymentsNumbered
      <4> QED BY <4>1, <4>2, <3>2 DEF Counts
    <3>3. g.staff # h.staff
      <4> SUFFICES ASSUME g.staff = h.staff PROVE FALSE OBVIOUS
      <4>1. g.end <= h.start \/ h.end <= g.start BY <3>1 DEF CashInv, WindowsFollow
      <4>2. /\ g.end \in Int /\ h.start \in Int /\ h.end \in Int /\ g.start \in Int
            /\ p.received \in Int
        BY <2>0 DEF CashTypeOK, Handover, Payment
      <4> QED BY <4>1, <4>2, <3>1, <3>2
    <3>4. g.staff \in Bearers(p.name) /\ h.staff \in Bearers(p.name)
      BY <2>0, <3>1, <3>2 DEF Bearers, CashTypeOK, Handover
    <3>5. IsFiniteSet(Bearers(p.name))
      <4>1. Bearers(p.name) \in SUBSET Staff BY DEF Bearers
      <4> QED BY <4>1, CashAssumption, FS_Subset
    <3> QED BY <3>3, <3>4, <3>5, TwoAreMany
  <2>2. ASSUME p \notin late, ~(Cardinality(borne[p.by]) > 1),
               NEW h \in HandoversOf(p.by), ~(p.received > h.end)
        PROVE  \/ \A w \in HandoversOf(p.by) : p.received <= w.start
               \/ \E w \in handovers : p.id \in w.counted
    <3>1. Seen(p) BY <2>2 DEF Seen
    <3>2. p.received <= h.end
      BY <2>0, <2>2 DEF CashTypeOK, Handover, Payment, HandoversOf
    <3> QED BY <3>1, <3>2, <2>2 DEF CashInv, NoneMissed, HandedOver, TooOld
  <2> QED BY <2>1, <2>2
<1> QED BY <1>1, CashStart, CashStep, PTL DEF CashSpec

----------------------------------------------------------------------------
(***************************************************************************)
(* The subscription.  A shop never goes back to its trial, so a trial has  *)
(* seen no payment and neither has any handler that loaded one.  Unless a  *)
(* payment was acted on beside it, a sweep that decided against the shop   *)
(* did so when its paid time was over.                                     *)
(***************************************************************************)
TrialUnpaid  ==
    status = "trial" =>
        end = 0 /\ \A d \in Delivery : deliver[d].at # "idle" => deliver[d].status = "trial"
SweepLate    == nightly # "idle" /\ ~beside => end <= today
SweepCloses  == nightly \in {"idle", "past_due", "locked"}
HandledKnown == \A d \in Delivery : deliver[d].at = "acting" => deliver[d].event \in journal

Trail ==
    \A e \in Event, j \in journal \ broken :
        /\ Kind[e] = "paid" /\ KeyOf(e) = KeyOf(j)
        /\ Kind[j] = "paid" /\ j \in Named
        => \/ EntityOf[e] \in invoices
           \/ \E d \in Delivery : deliver[d].at = "acting" /\ deliver[d].event = j

SubInv ==
    SubTypeOK /\ TrialUnpaid /\ SweepLate /\ SweepCloses /\ HandledKnown /\ PaidIsServed

LEMMA SubStart == SubInit => SubInv
<1> SUFFICES ASSUME SubInit PROVE SubInv OBVIOUS
<1> USE SubscriptionAssumption
<1>1. today \in 0 .. LastDay /\ breaks \in 0 .. MaxBreaks BY DEF SubInit
<1> QED BY <1>1 DEF SubInit, SubInv, SubTypeOK, TrialUnpaid, SweepLate, SweepCloses, HandledKnown,
        PaidIsServed, Status

\* Two events that share a key are about the same payment.
LEMMA SameKey ==
    ASSUME NEW e \in Event, NEW j \in Event, KeyOf(e) = KeyOf(j)
    PROVE  EntityOf[e] = EntityOf[j]
BY SubscriptionAssumption DEF KeyOf

\* The later of two days.
LEMMA PairFinite ==
    ASSUME NEW x, NEW y
    PROVE  IsFiniteSet({x, y})
<1>1. IsFiniteSet({x}) /\ IsFiniteSet({y}) BY FS_Singleton
<1>2. {x, y} = {x} \cup {y} OBVIOUS
<1>3. IsFiniteSet({x} \cup {y}) BY <1>1, FS_Union
<1> QED BY <1>2, <1>3

LEMMA MaxOfTwo ==
    ASSUME NEW x \in Nat, NEW y \in Nat
    PROVE  Max({x, y}) \in Nat /\ x <= Max({x, y}) /\ y <= Max({x, y})
<1>1. {x, y} \in SUBSET Int /\ {x, y} # {} OBVIOUS
<1>2. IsFiniteSet({x, y}) BY PairFinite
<1>3. Max({x, y}) \in {x, y} /\ \A z \in {x, y} : z <= Max({x, y}) BY <1>1, <1>2, MaxIsGreatest
<1> QED BY <1>3

LEMMA HandlerIs ==
    ASSUME SubTypeOK, NEW d \in Delivery, deliver[d].at # "idle"
    PROVE  /\ deliver[d] \in [at : {"loaded", "acting"}, event : Event, status : Status, end : Nat]
           /\ deliver[d].event \in Event /\ deliver[d].status \in Status /\ deliver[d].end \in Nat
BY DEF SubTypeOK

\* A handler that rests, and what it was doing is in its receipt, in the broken
\* ones, or was no payment.
LEMMA RestKept ==
    ASSUME SubInv, NEW d \in Delivery, Rest(d), UNCHANGED journal, invoices \subseteq invoices',
           broken \subseteq broken',
           deliver[d].at = "acting" => \/ Kind[deliver[d].event] # "paid"
                                      \/ EntityOf[deliver[d].event] \in invoices'
                                      \/ deliver[d].event \in broken'
    PROVE  /\ deliver' \in [Delivery -> {[at |-> "idle"]}
                \cup [at : {"loaded", "acting"}, event : Event, status : Status, end : Nat]]
           /\ \A x \in Delivery : deliver'[x].at # "idle" => deliver'[x] = deliver[x]
           /\ HandledKnown'
           /\ Trail'
<1>1. \A x \in Delivery : deliver'[x] = IF x = d THEN [at |-> "idle"] ELSE deliver[x]
  BY DEF Rest, SubInv, SubTypeOK
<1>2. HandledKnown' BY <1>1 DEF HandledKnown, SubInv
<1>3. ASSUME NEW e \in Event, NEW j \in journal' \ broken', Kind[e] = "paid", KeyOf(e) = KeyOf(j),
             Kind[j] = "paid", j \in Named, EntityOf[e] \notin invoices'
      PROVE  \E x \in Delivery : deliver'[x].at = "acting" /\ deliver'[x].event = j
  <2>1. PICK x \in Delivery : deliver[x].at = "acting" /\ deliver[x].event = j
    BY <1>3 DEF SubInv, PaidIsServed
  <2>2. j \in Event BY <1>3 DEF SubInv, SubTypeOK
  <2>3. EntityOf[j] \notin invoices' BY <1>3, <2>2, SameKey
  <2>4. x # d BY <1>3, <2>1, <2>3
  <2> QED BY <1>1, <2>1, <2>4
<1>4. Trail' BY <1>3 DEF Trail, KeyOf
<1> QED BY <1>1, <1>2, <1>4 DEF Rest, SubInv, SubTypeOK

\* Paid for today, and no payment acted on beside another writer.
Served == end > today /\ ~beside

LEMMA ActKept ==
    ASSUME SubInv, NEW d \in Delivery, ActPaid(d) \/ ActStarted(d) \/ ActFailed(d) \/ Break(d)
    PROVE  SubInv'
<1> USE SubscriptionAssumption
<1> DEFINE l == deliver[d]
<1>1. /\ SubTypeOK /\ TrialUnpaid /\ SweepLate /\ SweepCloses /\ HandledKnown
      /\ (Served => status # "locked" /\ (status = "past_due" => soured))
  BY DEF SubInv, PaidIsServed, Served
<1>2. l.at = "acting" BY DEF ActPaid, ActStarted, ActFailed, Break
<1>3. l.event \in Event /\ l.status \in Status /\ l.end \in Nat /\ l.event \in journal
  BY <1>1, <1>2, HandlerIs DEF HandledKnown
<1>4. UNCHANGED <<journal, nightly, today>> /\ Rest(d) /\ invoices \subseteq invoices' /\ broken \subseteq broken'
  BY DEF ActPaid, ActStarted, ActFailed, Break, Receipt
<1>5. \/ Kind[l.event] # "paid" \/ EntityOf[l.event] \in invoices' \/ l.event \in broken'
  BY DEF ActPaid, ActStarted, ActFailed, Break, Receipt
<1> HIDE DEF l
<1>6. /\ deliver' \in [Delivery -> {[at |-> "idle"]}
                \cup [at : {"loaded", "acting"}, event : Event, status : Status, end : Nat]]
      /\ \A x \in Delivery : deliver'[x].at # "idle" => deliver'[x] = deliver[x]
      /\ HandledKnown'
      /\ Trail'
  BY <1>4, <1>5, RestKept DEF l
<1>7. SweepCloses' BY <1>1, <1>4 DEF SweepCloses
<1> DEFINE StillKept == /\ SubTypeOK' /\ TrialUnpaid' /\ SweepLate'
                        /\ (Served' => status' # "locked" /\ (status' = "past_due" => soured'))
<1>8. ASSUME ActPaid(d) PROVE StillKept
  <2>1. Max({l.end, today}) \in Nat BY <1>1, <1>3, MaxOfTwo DEF SubTypeOK
  <2>2. Until[l.event] \in Nat BY <1>3
  <2>3. end' \in Nat BY <1>1, <1>8, <2>1, <2>2 DEF ActPaid, SubTypeOK, l
  <2>4. status' = IF l.status = "active" THEN status ELSE "active"
    BY <1>8 DEF ActPaid, Reopens, Write, l
  <2>5. /\ soured' = FALSE /\ (beside' <=> (nightly # "idle" \/ l.status # status))
        /\ beside' \in BOOLEAN /\ UNCHANGED <<journal, nightly, today, breaks, broken>>
        /\ invoices' = invoices \cup {EntityOf[l.event]}
    BY <1>8, Zenon DEF ActPaid, Receipt, l
  <2>6. status' \in Status /\ invoices' \subseteq {EntityOf[e] : e \in Event}
    BY <1>1, <1>3, <2>4, <2>5 DEF SubTypeOK, Status
  <2>7. status' # "trial" BY <1>1, <1>2, <2>4 DEF TrialUnpaid, l
  <2>8. SweepLate' BY <1>1, <2>5 DEF SweepLate
  <2>9. Served' => status' = "active" BY <2>4, <2>5 DEF Served
  <2>10. SubTypeOK' BY <1>1, <1>6, <2>3, <2>5, <2>6 DEF SubTypeOK
  <2> QED BY <2>10, <2>7, <2>8, <2>9 DEF TrialUnpaid
<1>9. ASSUME ActStarted(d) \/ ActFailed(d) PROVE StillKept
  <2>1. status' \in {status, "active", "past_due"} /\ soured' \in BOOLEAN
    BY <1>1, <1>9 DEF ActStarted, ActFailed, Write, SubTypeOK
  <2>2. UNCHANGED <<end, journal, invoices, nightly, today, breaks, beside, broken>>
    BY <1>9 DEF ActStarted, ActFailed
  <2>3. SubTypeOK' BY <1>1, <1>6, <2>1, <2>2 DEF SubTypeOK, Status
  <2>4. status' = "past_due" => soured' \/ (status = "past_due" /\ soured' = soured)
    BY <1>9 DEF ActStarted, ActFailed, Write
  <2>5. TrialUnpaid' BY <1>1, <1>6, <2>1, <2>2 DEF TrialUnpaid
  <2> QED BY <1>1, <2>1, <2>2, <2>3, <2>4, <2>5 DEF SweepLate, Served
<1>10. ASSUME Break(d) PROVE StillKept
  <2>1. UNCHANGED <<status, end, journal, invoices, nightly, today, soured, beside>>
    BY <1>10 DEF Break
  <2>2. breaks' \in 0 .. MaxBreaks /\ broken' = broken \cup {l.event}
    BY <1>1, <1>10 DEF Break, SubTypeOK, l
  <2>3. SubTypeOK' BY <1>1, <1>3, <1>6, <2>1, <2>2 DEF SubTypeOK
  <2> QED BY <1>1, <1>6, <2>1, <2>3 DEF TrialUnpaid, SweepLate, Served
<1>11. StillKept BY <1>8, <1>9, <1>10
<1>12. PaidIsServed' BY <1>6, <1>11 DEF PaidIsServed, Served, Trail, KeyOf
<1> QED BY <1>6, <1>7, <1>11, <1>12 DEF SubInv

LEMMA LoadKept ==
    ASSUME SubInv, NEW d \in Delivery, Journal(d) \/ \E e \in Event : Load(d, e)
    PROVE  SubInv'
<1>1. SubTypeOK /\ TrialUnpaid /\ SweepLate /\ SweepCloses /\ HandledKnown /\ PaidIsServed
  BY DEF SubInv
<1>2. UNCHANGED <<status, end, invoices, nightly, today, breaks, soured, beside, broken>>
  BY DEF Load, Journal
<1>3. ASSUME NEW e \in Event, Load(d, e) PROVE SubInv'
  <2> DEFINE new == [at |-> "loaded", event |-> e, status |-> status, end |-> end]
  <2>1. /\ deliver[d].at = "idle" /\ journal' = journal
        /\ \A x \in Delivery : deliver'[x] = IF x = d THEN new ELSE deliver[x]
    BY <1>1, <1>3 DEF Load, SubTypeOK
  <2>2. SubTypeOK' BY <1>1, <1>2, <1>3, <2>1 DEF Load, SubTypeOK
  <2>3. TrialUnpaid' /\ HandledKnown' BY <1>1, <1>2, <2>1 DEF TrialUnpaid, HandledKnown
  <2>4. \A x \in Delivery : deliver[x].at = "acting" => deliver'[x] = deliver[x] BY <2>1
  <2>5. PaidIsServed' BY <1>1, <1>2, <2>1, <2>4 DEF PaidIsServed, KeyOf
  <2> QED BY <1>1, <1>2, <2>2, <2>3, <2>5 DEF SubInv, SweepLate, SweepCloses
<1>4. CASE Journal(d) /\ KeyTaken(deliver[d].event)
  <2>1. Rest(d) /\ journal' = journal /\ deliver[d].at # "acting" BY <1>4 DEF Journal
  <2>2. \A x \in Delivery : deliver'[x].at # "idle" => deliver'[x] = deliver[x]
    BY <1>2, <2>1, RestKept
  <2>3. SubTypeOK' BY <1>1, <1>2, <2>1, RestKept DEF SubTypeOK
  <2>4. Trail' /\ HandledKnown' BY <1>1, <1>2, <2>1, RestKept
  <2>6. PaidIsServed' BY <1>1, <1>2, <2>4 DEF PaidIsServed, Trail, KeyOf
  <2>5. TrialUnpaid' BY <1>1, <1>2, <2>2 DEF TrialUnpaid
  <2> QED BY <1>1, <1>2, <2>3, <2>4, <2>5, <2>6 DEF SubInv, SweepLate, SweepCloses
<1>5. CASE Journal(d) /\ ~KeyTaken(deliver[d].event) /\ deliver[d].event \notin Named
  <2> DEFINE l == deliver[d]
  <2>1. l.at = "loaded" /\ journal' = journal \cup {l.event} /\ Rest(d) BY <1>5 DEF Journal
  <2>2. l \in [at : {"loaded", "acting"}, event : Event, status : Status, end : Nat]
    BY <1>1, <2>1, HandlerIs
  <2>3. \A x \in Delivery : deliver'[x] = IF x = d THEN [at |-> "idle"] ELSE deliver[x]
    BY <1>1, <2>1 DEF Rest, SubTypeOK
  <2>4. SubTypeOK' BY <1>1, <1>2, <2>1, <2>2 DEF SubTypeOK, Rest
  <2>5. TrialUnpaid' /\ HandledKnown' BY <1>1, <1>2, <2>1, <2>3 DEF TrialUnpaid, HandledKnown
  <2>6. \A x \in Delivery : deliver[x].at = "acting" => deliver'[x] = deliver[x] BY <2>1, <2>3
  <2>7. \A j \in journal' : j \in journal \/ j \notin Named BY <1>5, <2>1
  <2>8. PaidIsServed' BY <1>1, <1>2, <2>6, <2>7 DEF PaidIsServed, KeyOf
  <2> QED BY <1>1, <1>2, <2>4, <2>5, <2>8 DEF SubInv, SweepLate, SweepCloses
<1>6. CASE Journal(d) /\ ~KeyTaken(deliver[d].event) /\ deliver[d].event \in Named
  <2> DEFINE l == deliver[d]
  <2>1. l.at = "loaded" /\ journal' = journal \cup {l.event} BY <1>6 DEF Journal
  <2>2. l \in [at : {"loaded", "acting"}, event : Event, status : Status, end : Nat]
    BY <1>1, <2>1, HandlerIs
  <2>3. [l EXCEPT !.at = "acting"]
           \in [at : {"loaded", "acting"}, event : Event, status : Status, end : Nat]
    BY <2>2
  <2>4. \A x \in Delivery : deliver'[x] = IF x = d THEN [l EXCEPT !.at = "acting"] ELSE deliver[x]
    BY <1>1, <1>6 DEF Journal, SubTypeOK
  <2>5. deliver' = [deliver EXCEPT ![d] = [l EXCEPT !.at = "acting"]]
    BY <1>6 DEF Journal
  <2>6. SubTypeOK' BY <1>1, <1>2, <2>1, <2>2, <2>3, <2>5 DEF SubTypeOK
  <2>7. deliver'[d].at = "acting" /\ deliver'[d].event = l.event /\ deliver'[d].status = l.status
    BY <2>2, <2>4
  <2> HIDE DEF l
  <2>8. TrialUnpaid' BY <1>1, <1>2, <2>1, <2>4, <2>7 DEF TrialUnpaid, l
  <2>9. HandledKnown' BY <1>1, <2>1, <2>4, <2>7 DEF HandledKnown
  <2>10. \A x \in Delivery : deliver[x].at = "acting" => deliver'[x] = deliver[x] BY <2>1, <2>4 DEF l
  <2>11. PaidIsServed' BY <1>1, <1>2, <2>1, <2>7, <2>10 DEF PaidIsServed, KeyOf
  <2> QED BY <1>1, <1>2, <2>6, <2>8, <2>9, <2>11 DEF SubInv, SweepLate, SweepCloses
<1> QED BY <1>3, <1>4, <1>5, <1>6

\* The sweep loads a shop whose paid time is over only, and what it writes
\* then is right but for a payment in between.
LEMMA SweepKept ==
    ASSUME SubInv, SweepLoads \/ SweepCommits \/ Tomorrow
    PROVE  SubInv'
<1> USE SubscriptionAssumption
<1>1. SubTypeOK /\ TrialUnpaid /\ SweepLate /\ SweepCloses /\ HandledKnown /\ PaidIsServed
  BY DEF SubInv
<1>2. UNCHANGED <<end, journal, invoices, deliver, breaks, soured, beside, broken>>
  BY DEF SweepLoads, SweepCommits, Tomorrow
<1>3. HandledKnown' BY <1>1, <1>2 DEF HandledKnown
<1>4. CASE SweepLoads
  <2>1. UNCHANGED <<status, today>> /\ nightly' \in {"past_due", "locked"} BY <1>4 DEF SweepLoads
  <2>2. end <= today
    <3>1. CASE Lapsed BY <1>1, <3>1 DEF Lapsed, TrialUnpaid, SubTypeOK
    <3>2. CASE Over
      <4>1. Max({TrialEnd, end}) \in Nat /\ end <= Max({TrialEnd, end})
        BY <1>1, MaxOfTwo DEF SubTypeOK
      <4>2. Max({TrialEnd, end}) + Grace < today BY <3>2 DEF Over
      <4>3. today \in Nat /\ end \in Nat /\ Grace \in Nat BY <1>1 DEF SubTypeOK
      <4> QED BY <4>1, <4>2, <4>3
    <3> QED BY <1>4, <3>1, <3>2 DEF SweepLoads
  <2> QED BY <1>1, <1>2, <1>3, <2>1, <2>2
          DEF SubInv, SubTypeOK, Status, TrialUnpaid, SweepLate, SweepCloses, PaidIsServed, KeyOf
<1>5. CASE SweepCommits
  <2>1. status' = nightly /\ nightly # "idle" /\ nightly' = "idle" /\ today' = today
    BY <1>5 DEF SweepCommits
  <2>2. end > today => beside BY <1>1, <2>1 DEF SweepLate, SubTypeOK
  <2>3. SubTypeOK' BY <1>1, <1>2, <2>1 DEF SubTypeOK
  <2>4. PaidIsServed' BY <1>1, <1>2, <2>1, <2>2 DEF PaidIsServed, KeyOf
  <2>5. TrialUnpaid' BY <1>1, <2>1 DEF TrialUnpaid, SweepCloses
  <2> QED BY <1>3, <2>1, <2>3, <2>4, <2>5 DEF SubInv, SweepLate, SweepCloses
<1>6. CASE Tomorrow
  <2>1. UNCHANGED <<status, nightly>> /\ today' = today + 1 /\ today < LastDay
    BY <1>6 DEF Tomorrow
  <2>2. today \in Nat /\ end \in Nat /\ today' \in 0 .. LastDay BY <1>1, <2>1 DEF SubTypeOK
  <2>3. SubTypeOK' BY <1>1, <1>2, <2>1, <2>2 DEF SubTypeOK
  <2>4. PaidIsServed' BY <1>1, <1>2, <2>1, <2>2 DEF PaidIsServed, KeyOf
  <2>5. SweepLate' BY <1>1, <1>2, <2>1, <2>2 DEF SweepLate
  <2> QED BY <1>1, <1>2, <1>3, <2>1, <2>3, <2>4, <2>5 DEF SubInv, TrialUnpaid, SweepCloses
<1> QED BY <1>4, <1>5, <1>6

LEMMA SubInvInductive == SubInv /\ [SubNext]_billVars => SubInv'
<1> SUFFICES ASSUME SubInv, [SubNext]_billVars PROVE SubInv' OBVIOUS
<1>1. CASE UNCHANGED billVars
  BY <1>1 DEF billVars, SubInv, SubTypeOK, TrialUnpaid, SweepLate, SweepCloses, HandledKnown, PaidIsServed,
     KeyOf
<1> QED BY <1>1, ActKept, LoadKept, SweepKept DEF SubNext

\* The variables of a subscription keep their types: an invoice is of some
\* event's payment, and what broke was journaled.
THEOREM SubscriptionTyped == SubSpec => []SubTypeOK
<1>1. SubInv => SubTypeOK BY DEF SubInv
<1> QED BY <1>1, SubStart, SubInvInductive, PTL DEF SubSpec

\* A shop that has paid for today is served, in whatever order its events are
\* delivered and however often, and whenever the sweep runs, unless a payment
\* was acted on beside another writer; and a payment whose retry would be taken
\* for a duplicate has its receipt, unless its key was taken by an event that was
\* no payment, led to no shop, or whose handler died.
THEOREM PaidShopServed == SubSpec => []PaidIsServed
<1>1. SubInv => PaidIsServed BY DEF SubInv
<1> QED BY <1>1, SubStart, SubInvInductive, PTL DEF SubSpec

----------------------------------------------------------------------------
(***************************************************************************)
(* The AI budget.  What is recorded and what the calls under way may still *)
(* cost by their estimates stays within the budget, but for what passed an *)
(* estimate or slipped between the two sums.  The reason is what the one   *)
(* call that weighs has read: the usage it saw, the reservations that      *)
(* still stand and those gone since account for everything recorded since. *)
(* A call let through today is in a row, left none, or has not ended.      *)
(***************************************************************************)
MayCost(c)  == IF call[c].at = "calling" THEN Cost[call[c].model] ELSE 0
MayCosts    == [c \in Call |-> MayCost(c)]
Standing(c) == IF call[c].at = "calling" THEN Cost[call[c].model]
               ELSE IF c \in check.unread THEN reserved[c] ELSE 0
Standings   == [c \in Call |-> Standing(c)]
UnderWay    == {c \in Call : call[c].at \in {"calling", "late"}}

CostReserved   == \A c \in Call : call[c].at = "calling" => reserved[c] = Cost[call[c].model]
UnreadAnswered == \A c \in check.unread : call[c].at = "answered"
OneWeighs      == \A c, d \in Call : call[c].at = "weighing" /\ call[d].at = "weighing" => c = d
WithinBudget   == spent + SumOver(MayCosts, Call) <= Budget + above + slipped
SeenOrStanding ==
    Weighing => spent + SumOver(MayCosts, Call)
                  <= check.seen + SumOver(Standings, Call) + check.gone + above
ChargeKnown  == billed = spent + hidden
CallsCounted == admitted <= rows + missed + Cardinality(UnderWay)

QuotaInv ==
    /\ QuotaTypeOK /\ CostReserved /\ UnreadAnswered /\ OneWeighs
    /\ WithinBudget /\ SeenOrStanding /\ ChargeKnown /\ CallsCounted /\ BudgetHeld

CallState == [at : QuotaPhase, model : Model]

LEMMA QuotaTypes ==
    QuotaTypeOK =>
        /\ call \in [Call -> CallState] /\ reserved \in [Call -> Nat]
        /\ check \in Check /\ check.seen \in Nat /\ check.unread \subseteq Call /\ check.gone \in Nat
        /\ spent \in Nat /\ rows \in Nat /\ billed \in Nat
        /\ hidden \in Nat /\ above \in Nat /\ slipped \in Nat /\ missed \in Nat /\ admitted \in Nat
        /\ flaws \in 0 .. MaxFlaws
BY DEF QuotaTypeOK, CallState, Check

LEMMA NoCheckIs == NoCheck \in Check /\ NoCheck.unread = {}
BY DEF NoCheck, Check

LEMMA MayCostTyped ==
    ASSUME QuotaTypeOK, NEW c \in Call
    PROVE  /\ MayCost(c) \in Nat /\ MayCosts[c] = MayCost(c)
           /\ Standing(c) \in Nat /\ Standings[c] = Standing(c)
BY QuotaTypes, QuotaAssumption DEF MayCost, MayCosts, Standing, Standings, CallState

LEMMA SharesAreNat ==
    ASSUME QuotaTypeOK
    PROVE  SumOver(MayCosts, Call) \in Nat /\ SumOver(Standings, Call) \in Nat
<1>1. PICK may, stand : may = MayCosts /\ stand = Standings OBVIOUS
<1>2. \A c \in Call : may[c] \in Nat /\ stand[c] \in Nat BY <1>1, MayCostTyped
<1> QED BY <1>1, <1>2, QuotaAssumption, SumIsNat

LEMMA UnderWayCount ==
    /\ IsFiniteSet(UnderWay) /\ Cardinality(UnderWay) \in Nat
    /\ Cardinality(Call) \in Nat /\ Cardinality(Call) >= 1
<1>1. UnderWay \in SUBSET Call BY DEF UnderWay
<1>2. IsFiniteSet(UnderWay) BY <1>1, QuotaAssumption, FS_Subset
<1>3. Cardinality(UnderWay) \in Nat BY <1>2, FS_CardinalityType
<1>4. Cardinality(Call) \in Nat /\ Cardinality(Call) # 0
  BY QuotaAssumption, FS_CardinalityType, FS_EmptySet
<1> QED BY <1>2, <1>3, <1>4

\* When one call moves, only its own share of the sums does.
LEMMA CallMoves ==
    ASSUME QuotaTypeOK, NEW c \in Call, NEW new \in CallState, call' = [call EXCEPT ![c] = new]
    PROVE  /\ call' \in [Call -> CallState] /\ call'[c] = new
           /\ \A x \in Call \ {c} : call'[x] = call[x]
           /\ MayCost(c)' \in Nat
           /\ SumOver(MayCosts, Call) \in Nat /\ SumOver(MayCosts, Call)' \in Nat
           /\ SumOver(MayCosts, Call)' = SumOver(MayCosts, Call) - MayCost(c) + MayCost(c)'
           /\ Cardinality(UnderWay') = Cardinality(UnderWay)
                 - (IF call[c].at \in {"calling", "late"} THEN 1 ELSE 0)
                 + (IF new.at \in {"calling", "late"} THEN 1 ELSE 0)
<1>1. /\ call' \in [Call -> CallState] /\ call'[c] = new
      /\ \A x \in Call \ {c} : call'[x] = call[x]
  BY QuotaTypes
<1>2. \A x \in Call : MayCost(x)' \in Nat /\ MayCosts'[x] = MayCost(x)'
  BY <1>1, QuotaAssumption DEF MayCost, MayCosts, CallState
<1>3. \A x \in Call : MayCosts[x] = MayCost(x) /\ MayCost(x) \in Nat BY MayCostTyped
<1>4. \A x \in Call \ {c} : MayCosts[x] = MayCosts'[x]
  BY <1>1 DEF MayCosts, MayCost
<1>5. PICK was, then : was = MayCosts /\ then = MayCosts' OBVIOUS
<1>6. SumOver(then, Call) = SumOver(was, Call) - was[c] + then[c]
  BY <1>2, <1>3, <1>4, <1>5, QuotaAssumption, SumChanges
<1>7. SumOver(was, Call) \in Nat /\ SumOver(then, Call) \in Nat
  BY <1>2, <1>3, <1>5, QuotaAssumption, SumIsNat
<1>8. SumOver(MayCosts, Call)' = SumOver(then, Call) BY <1>5
<1>9. UnderWay' \ {c} = UnderWay \ {c} BY <1>1 DEF UnderWay
<1>10. /\ c \in UnderWay <=> call[c].at \in {"calling", "late"}
       /\ c \in UnderWay' <=> new.at \in {"calling", "late"}
  BY <1>1 DEF UnderWay
<1>11. PICK rest : rest = UnderWay \ {c} OBVIOUS
<1>12. IsFiniteSet(rest) /\ c \notin rest /\ Cardinality(rest) \in Nat
  BY <1>11, UnderWayCount, FS_Subset, FS_CardinalityType
<1>13. /\ (c \notin UnderWay /\ UnderWay = rest) \/ (c \in UnderWay /\ UnderWay = rest \cup {c})
       /\ (c \notin UnderWay' /\ UnderWay' = rest) \/ (c \in UnderWay' /\ UnderWay' = rest \cup {c})
  BY <1>9, <1>11
<1>14. Cardinality(rest \cup {c}) = Cardinality(rest) + 1 BY <1>12, FS_AddElement
<1>15. Cardinality(UnderWay') = Cardinality(UnderWay)
          - (IF c \in UnderWay THEN 1 ELSE 0) + (IF c \in UnderWay' THEN 1 ELSE 0)
  <2>1. PICK n \in Nat : Cardinality(rest) = n /\ Cardinality(rest \cup {c}) = n + 1
    BY <1>12, <1>14
  <2>2. /\ Cardinality(UnderWay) = IF c \in UnderWay THEN n + 1 ELSE n
        /\ Cardinality(UnderWay') = IF c \in UnderWay' THEN n + 1 ELSE n
    BY <1>13, <2>1
  <2> QED BY <2>2
<1> QED BY <1>1, <1>2, <1>3, <1>5, <1>6, <1>7, <1>8, <1>10, <1>15

\* The reservations that stand, likewise.
LEMMA StandingMoves ==
    ASSUME QuotaTypeOK, NEW c \in Call, NEW new \in CallState, call' = [call EXCEPT ![c] = new],
           \A x \in Call \ {c} : /\ reserved'[x] = reserved[x]
                                 /\ x \in check'.unread <=> x \in check.unread,
           Standing(c)' \in Nat
    PROVE  /\ SumOver(Standings, Call)' \in Nat
           /\ SumOver(Standings, Call)' = SumOver(Standings, Call) - Standing(c) + Standing(c)'
<1>1. \A x \in Call \ {c} : call'[x] = call[x] BY CallMoves
<1>2. \A x \in Call \ {c} : Standing(x)' = Standing(x) BY <1>1 DEF Standing
<1>3. \A x \in Call : Standings[x] = Standing(x) /\ Standing(x) \in Nat BY MayCostTyped
<1>4. \A x \in Call : Standings'[x] = Standing(x)' BY DEF Standings
<1>5. PICK was, then : was = Standings /\ then = Standings' OBVIOUS
<1>6. \A x \in Call : was[x] \in Nat /\ then[x] \in Nat
  <2>1. \A x \in Call \ {c} : then[x] = was[x] BY <1>2, <1>3, <1>4, <1>5
  <2>2. then[c] = Standing(c)' BY <1>4, <1>5
  <2> QED BY <1>3, <1>5, <2>1, <2>2
<1>7. \A x \in Call \ {c} : was[x] = then[x] BY <1>2, <1>3, <1>4, <1>5
<1>8. SumOver(then, Call) = SumOver(was, Call) - was[c] + then[c]
  BY <1>6, <1>7, QuotaAssumption, SumChanges
<1>9. SumOver(then, Call) \in Nat BY <1>6, QuotaAssumption, SumIsNat
<1>10. was[c] = Standing(c) /\ then[c] = Standing(c)' BY <1>3, <1>4, <1>5
<1>11. SumOver(Standings, Call)' = SumOver(then, Call) BY <1>5
<1>12. SumOver(Standings, Call) = SumOver(was, Call) BY <1>5
<1> QED BY <1>8, <1>9, <1>10, <1>11, <1>12

\* Only the call that moves may begin or cease to weigh.
LEMMA WeighingMoves ==
    ASSUME QuotaInv, NEW c \in Call, NEW new \in CallState, call' = [call EXCEPT ![c] = new],
           new.at # "weighing"
    PROVE  OneWeighs' /\ (Weighing' => Weighing /\ call[c].at # "weighing")
<1>1. call'[c] = new /\ \A x \in Call \ {c} : call'[x] = call[x] BY CallMoves DEF QuotaInv
<1> QED BY <1>1 DEF Weighing, OneWeighs, QuotaInv

\* A call that goes to the cheap model, or has failed.
LEMMA NextModelMoves ==
    ASSUME QuotaTypeOK, NEW c \in Call, NextModel(c) \/ To(c, "ended")
    PROVE  \E new \in CallState : new.at \in {"asking", "ended"} /\ call' = [call EXCEPT ![c] = new]
<1>1. call[c] \in CallState BY QuotaTypes
<1>2. [call[c] EXCEPT !.at = "ended"] \in CallState BY <1>1 DEF CallState, QuotaPhase
<1>3. [at |-> "asking", model |-> Cheap] \in CallState BY QuotaAssumption DEF CallState, QuotaPhase
<1> QED BY <1>1, <1>2, <1>3 DEF NextModel, To, CallState

LEMMA ToMoves ==
    ASSUME QuotaTypeOK, NEW c \in Call, NEW phase \in QuotaPhase, To(c, phase)
    PROVE  \E new \in CallState :
              new.at = phase /\ new.model = call[c].model /\ call' = [call EXCEPT ![c] = new]
<1>1. call[c] \in CallState BY QuotaTypes
<1>2. [call[c] EXCEPT !.at = phase] \in CallState BY <1>1 DEF CallState
<1> QED BY <1>1, <1>2 DEF To, CallState

LEMMA QuotaStart == QuotaInit => QuotaInv
<1> SUFFICES ASSUME QuotaInit PROVE QuotaInv OBVIOUS
<1> USE QuotaAssumption
<1>1. QuotaTypeOK BY NoCheckIs DEF QuotaInit, QuotaTypeOK, QuotaPhase
<1>2. \A c \in Call : MayCosts[c] = 0 BY DEF QuotaInit, MayCosts, MayCost
<1>3. SumOver(MayCosts, Call) = 0
  <2>1. PICK zero : zero = MayCosts OBVIOUS
  <2>2. \A c \in Call : zero[c] = 0 BY <1>2, <2>1
  <2>3. SumOver(zero, Call) = 0 BY <2>2, SumOfZeros
  <2> QED BY <2>1, <2>3
<1>4. UnderWay = {} BY DEF QuotaInit, UnderWay
<1>5. ~Weighing BY DEF QuotaInit, Weighing
<1>6. CostReserved /\ OneWeighs /\ UnreadAnswered
  BY NoCheckIs DEF QuotaInit, CostReserved, OneWeighs, UnreadAnswered
<1>7. WithinBudget BY <1>3 DEF QuotaInit, WithinBudget
<1>8. SeenOrStanding BY <1>5 DEF SeenOrStanding
<1> QED BY <1>1, <1>4, <1>6, <1>7, <1>8, UnderWayCount, FS_EmptySet
        DEF QuotaInit, QuotaInv, ChargeKnown, CallsCounted, BudgetHeld

Flight(at) == IF at \in {"calling", "late"} THEN 1 ELSE 0

\* A call moves and lets no other through.  What it has cost and may still cost
\* together does not grow but for what passes its estimate, and neither does it
\* beside the reservation that stands for it; and if its way ends it is in a row
\* or left none.
LEMMA CallKept ==
    ASSUME QuotaInv, NEW c \in Call, NEW new \in CallState, call' = [call EXCEPT ![c] = new],
           new.at # "weighing",
           reserved' \in [Call -> Nat], \A x \in Call \ {c} : reserved'[x] = reserved[x],
           new.at = "calling" => reserved'[c] = Cost[new.model],
           check' \in Check,
           \/ call[c].at = "weighing" /\ check' = NoCheck
           \/ /\ check'.seen = check.seen
              /\ \A x \in Call \ {c} : x \in check'.unread <=> x \in check.unread
              /\ c \in check'.unread => new.at = "answered"
              /\ Weighing =>
                    spent' + MayCost(c)' + Standing(c) + check.gone + above
                      <= spent + MayCost(c) + Standing(c)' + check'.gone + above',
           spent' \in Nat, rows' \in Nat, billed' \in Nat, hidden' \in Nat, above' \in Nat,
           missed' \in Nat, flaws' \in 0 .. MaxFlaws,
           spent' + MayCost(c)' + above <= spent + MayCost(c) + above',
           billed' = spent' + hidden',
           slipped' = slipped, admitted' = admitted, missed <= missed',
           rows + missed + Flight(call[c].at) <= rows' + missed' + Flight(new.at)
    PROVE  QuotaInv'
<1>1. /\ call' \in [Call -> CallState] /\ call'[c] = new
      /\ \A x \in Call \ {c} : call'[x] = call[x]
  BY CallMoves DEF QuotaInv
<1>2. QuotaTypeOK' BY <1>1, QuotaTypes DEF QuotaInv, QuotaTypeOK, CallState
<1>3. CostReserved' BY <1>1 DEF CostReserved, QuotaInv
<1>4. OneWeighs' /\ (Weighing' => Weighing /\ call[c].at # "weighing") BY WeighingMoves
<1>5. UnreadAnswered'
  <2>1. CASE check' = NoCheck BY <2>1, NoCheckIs DEF UnreadAnswered
  <2>2. CASE check' # NoCheck
    <3>1. check'.unread \subseteq Call BY <1>2 DEF QuotaTypeOK, Check
    <3> QED BY <1>1, <2>2, <3>1 DEF UnreadAnswered, QuotaInv
  <2> QED BY <2>1, <2>2
<1>6. PICK was, then, may, might : /\ was = SumOver(MayCosts, Call) /\ then = SumOver(MayCosts, Call)'
                                   /\ may = MayCost(c) /\ might = MayCost(c)'
  OBVIOUS
<1>7. /\ was \in Nat /\ then \in Nat /\ may \in Nat /\ might \in Nat
      /\ then = was - may + might
  BY <1>6, CallMoves, MayCostTyped DEF QuotaInv
<1>8. /\ spent \in Nat /\ rows \in Nat /\ missed \in Nat /\ admitted \in Nat
      /\ above \in Nat /\ slipped \in Nat /\ Budget \in Nat /\ Cap \in Nat
      /\ check.seen \in Nat /\ check.gone \in Nat
  BY QuotaTypes, QuotaAssumption DEF QuotaInv
<1>9. spent' + then <= Budget + above' + slipped'
  <2>1. spent + was <= Budget + above + slipped BY <1>6 DEF WithinBudget, QuotaInv
  <2>2. spent' + might + above <= spent + may + above' BY <1>6
  <2> QED BY <1>7, <1>8, <2>1, <2>2
<1>10. WithinBudget' BY <1>6, <1>9 DEF WithinBudget
<1>11. SeenOrStanding'
  <2> SUFFICES ASSUME Weighing'
               PROVE  spent' + then <= check'.seen + SumOver(Standings, Call)' + check'.gone + above'
    BY <1>6 DEF SeenOrStanding
  <2>1. /\ check'.seen = check.seen
        /\ \A x \in Call \ {c} : x \in check'.unread <=> x \in check.unread
        /\ spent' + might + Standing(c) + check.gone + above
             <= spent + may + Standing(c)' + check'.gone + above'
    BY <1>4, <1>6
  <2>2. Standing(c)' \in Nat /\ check'.gone \in Nat BY <1>2, QuotaAssumption DEF Standing, CallState, QuotaTypeOK, Check
  <2>3. Standing(c) \in Nat BY MayCostTyped DEF QuotaInv
  <2>4. PICK held, holds, mine, my :
           /\ held = SumOver(Standings, Call) /\ holds = SumOver(Standings, Call)'
           /\ mine = Standing(c) /\ my = Standing(c)'
    OBVIOUS
  <2>5. holds = held - mine + my /\ holds \in Nat
    BY <2>1, <2>2, <2>4, StandingMoves DEF QuotaInv
  <2>6. held \in Nat /\ mine \in Nat /\ my \in Nat BY <2>2, <2>3, <2>4, SharesAreNat DEF QuotaInv
  <2>7. spent + was <= check.seen + held + check.gone + above
    BY <1>4, <1>6, <2>4 DEF SeenOrStanding, QuotaInv
  <2>8. spent' + might + mine + check.gone + above <= spent + may + my + check'.gone + above'
    BY <2>1, <2>4
  <2>9. spent' + then <= check'.seen + holds + check'.gone + above'
    BY <1>7, <1>8, <2>1, <2>2, <2>5, <2>6, <2>7, <2>8
  <2> QED BY <2>4, <2>9
<1>12. Cardinality(UnderWay') = Cardinality(UnderWay) - Flight(call[c].at) + Flight(new.at)
  BY CallMoves DEF Flight, QuotaInv
<1>13. Cardinality(UnderWay) \in Nat /\ Cardinality(Call) \in Nat BY UnderWayCount
<1>14. Flight(call[c].at) \in 0 .. 1 /\ Flight(new.at) \in 0 .. 1 BY DEF Flight
<1>15. CallsCounted' BY <1>8, <1>12, <1>13, <1>14 DEF CallsCounted, QuotaInv
<1>16. BudgetHeld'
  <2>1. billed' <= Budget + hidden' + above' + slipped'
    <3>1. /\ billed' = spent' + hidden' /\ spent' \in Nat /\ hidden' \in Nat /\ above' \in Nat
          /\ slipped' \in Nat
      BY <1>8
    <3>2. PICK s, h, a, l, b : /\ s = spent' /\ h = hidden' /\ a = above' /\ l = slipped' /\ b = Budget
      OBVIOUS
    <3>3. s \in Nat /\ h \in Nat /\ a \in Nat /\ l \in Nat /\ b \in Nat /\ then \in Nat
      BY <1>7, <1>8, <3>1, <3>2
    <3>4. s + then <= b + a + l BY <1>9, <3>2
    <3>5. s + h <= b + h + a + l BY ONLY <3>3, <3>4
    <3>6. billed' = s + h /\ Budget + hidden' + above' + slipped' = b + h + a + l BY <3>1, <3>2
    <3> QED BY <3>5, <3>6
  <2>2. admitted <= Cap + (Cardinality(Call) - 1) + missed BY DEF BudgetHeld, QuotaInv
  <2>3. admitted' <= Cap + (Cardinality(Call) - 1) + missed' BY <1>8, <1>13, <2>2
  <2> QED BY <2>1, <2>3 DEF BudgetHeld
<1> QED BY <1>2, <1>3, <1>4, <1>5, <1>10, <1>11, <1>15, <1>16 DEF QuotaInv, ChargeKnown

\* A call takes the lock: nothing has been recorded since what it has read.
LEMMA WeighKept ==
    ASSUME QuotaInv, NEW c \in Call, Weigh(c)
    PROVE  QuotaInv'
<1>1. QuotaTypeOK /\ call[c] \in CallState BY QuotaTypes DEF QuotaInv
<1>2. PICK new \in CallState : new.at = "weighing" /\ new.model = call[c].model
                               /\ call' = [call EXCEPT ![c] = new]
  BY <1>1, ToMoves DEF Weigh, QuotaPhase
<1>3. /\ check' = [NoCheck EXCEPT !.seen = spent] /\ call[c].at = "asking" /\ ~Weighing
      /\ UNCHANGED <<reserved, spent, rows, billed, hidden, above, slipped, missed, admitted, flaws>>
  BY DEF Weigh
<1>4. /\ call' \in [Call -> CallState] /\ call'[c] = new
      /\ \A x \in Call \ {c} : call'[x] = call[x]
  BY <1>1, <1>2, CallMoves
<1>5. check' \in Check /\ check'.seen = spent /\ check'.unread = {} /\ check'.gone = 0
  BY <1>1, <1>3, QuotaTypes DEF NoCheck, Check
<1>6. QuotaTypeOK' BY <1>1, <1>3, <1>4, <1>5, QuotaTypes DEF QuotaTypeOK, CallState
<1>7. CostReserved' BY <1>2, <1>3, <1>4 DEF CostReserved, QuotaInv
<1>8. UnreadAnswered' BY <1>5 DEF UnreadAnswered
<1>9. OneWeighs' BY <1>3, <1>4 DEF OneWeighs, Weighing
<1>10. MayCost(c) = 0 /\ MayCost(c)' = 0 BY <1>2, <1>3, <1>4 DEF MayCost
<1>11. SumOver(MayCosts, Call)' = SumOver(MayCosts, Call)
  <2>1. PICK was, then : was = SumOver(MayCosts, Call) /\ then = SumOver(MayCosts, Call)' OBVIOUS
  <2>2. was \in Nat /\ then = was - 0 + 0 BY <1>1, <1>2, <1>10, <2>1, CallMoves
  <2> QED BY <2>1, <2>2
<1>12. WithinBudget' BY <1>3, <1>11 DEF WithinBudget, QuotaInv
<1>13. SeenOrStanding'
  <2>1. \A x \in Call : Standings'[x] = MayCosts'[x]
    BY <1>5 DEF Standings, Standing, MayCosts, MayCost
  <2>2. PICK stand, may : stand = Standings' /\ may = MayCosts' OBVIOUS
  <2>3. SumOver(stand, Call) = SumOver(may, Call) BY <2>1, <2>2, QuotaAssumption, SumOfEqual
  <2>4. PICK all : all = SumOver(MayCosts, Call)' OBVIOUS
  <2>5. all = SumOver(MayCosts, Call) /\ all \in Nat BY <1>1, <1>11, <2>4, SharesAreNat
  <2>6. SumOver(Standings, Call)' = all BY <2>2, <2>3, <2>4
  <2>7. spent \in Nat /\ above \in Nat BY <1>1, QuotaTypes
  <2>8. spent' + all <= check'.seen + all + check'.gone + above' BY <1>3, <1>5, <2>5, <2>7
  <2> QED BY <2>4, <2>6, <2>8 DEF SeenOrStanding
<1>14. Cardinality(UnderWay') = Cardinality(UnderWay)
  <2>1. UnderWay' = UnderWay BY <1>2, <1>3, <1>4 DEF UnderWay
  <2> QED BY <2>1
<1>15. CallsCounted' BY <1>3, <1>14 DEF CallsCounted, QuotaInv
<1>16. BudgetHeld' BY <1>3 DEF BudgetHeld, QuotaInv
<1>17. ChargeKnown' BY <1>3 DEF ChargeKnown, QuotaInv
<1> QED BY <1>6, <1>7, <1>8, <1>9, <1>12, <1>13, <1>15, <1>16, <1>17 DEF QuotaInv

\* The check sees every call under way in its reservation, and what was recorded
\* since it summed the usage in one that stands or in one that is gone.
LEMMA AdmitKept ==
    ASSUME QuotaInv, NEW c \in Call, Admit(c)
    PROVE  QuotaInv'
<1> DEFINE m == call[c].model
<1>1. QuotaTypeOK /\ call[c] \in CallState BY QuotaTypes DEF QuotaInv
<1>2. PICK new \in CallState : new.at = "calling" /\ new.model = m /\ call' = [call EXCEPT ![c] = new]
  BY <1>1, ToMoves DEF Admit, QuotaPhase
<1>3. /\ reserved' = [reserved EXCEPT ![c] = Cost[m]] /\ admitted' = admitted + 1
      /\ slipped' = slipped + check.gone /\ check' = NoCheck
      /\ UNCHANGED <<spent, rows, billed, hidden, above, missed, flaws>>
      /\ call[c].at = "weighing" /\ check.seen + Reserved + Cost[m] <= Budget /\ rows < Cap
  BY DEF Admit, Fits, BelowCap
<1>4. /\ call' \in [Call -> CallState] /\ call'[c] = new
      /\ \A x \in Call \ {c} : call'[x] = call[x]
  BY <1>1, <1>2, CallMoves
<1>5. Cost[m] \in Nat BY <1>1, QuotaAssumption DEF CallState
<1>6. QuotaTypeOK'
  <2>1. admitted' \in Nat /\ reserved' \in [Call -> Nat] /\ slipped' \in Nat
    BY <1>1, <1>3, <1>5, QuotaTypes
  <2> QED BY <1>1, <1>3, <1>4, <2>1, QuotaTypes, NoCheckIs DEF QuotaTypeOK, CallState
<1>7. CostReserved' BY <1>1, <1>2, <1>3, <1>4, QuotaTypes DEF CostReserved, QuotaInv
<1>8. SumOver(Standings, Call) <= Reserved
  <2>1. Reserved = SumOver(reserved, Call) BY <1>1, SumFunctionIs, QuotaTypes DEF Reserved
  <2>2. \A x \in Call : Standing(x) <= reserved[x]
    BY <1>1, QuotaTypes DEF CostReserved, QuotaInv, Standing
  <2>3. \A x \in Call : Standings[x] \in Nat /\ reserved[x] \in Nat /\ Standings[x] <= reserved[x]
    BY <1>1, <2>2, QuotaTypes, MayCostTyped
  <2>4. PICK was : was = Standings OBVIOUS
  <2>5. SumOver(was, Call) <= SumOver(reserved, Call) BY <2>3, <2>4, QuotaAssumption, SumAtMost
  <2> QED BY <2>1, <2>4, <2>5
<1>9. Reserved \in Nat
  <2>1. Reserved = SumOver(reserved, Call) BY <1>1, SumFunctionIs, QuotaTypes DEF Reserved
  <2> QED BY <1>1, <2>1, QuotaTypes, QuotaAssumption, SumIsNat
<1>10. PICK was, then, held :
          /\ was = SumOver(MayCosts, Call) /\ then = SumOver(MayCosts, Call)'
          /\ held = SumOver(Standings, Call)
  OBVIOUS
<1>11. MayCost(c) = 0 /\ MayCost(c)' = Cost[m] BY <1>2, <1>3, <1>4 DEF MayCost
<1>12. was \in Nat /\ held \in Nat /\ then = was - 0 + Cost[m]
  BY <1>1, <1>2, <1>10, <1>11, CallMoves, SharesAreNat
<1>13. /\ spent \in Nat /\ rows \in Nat /\ missed \in Nat /\ admitted \in Nat /\ hidden \in Nat
       /\ billed \in Nat /\ Budget \in Nat /\ Cap \in Nat /\ above \in Nat /\ slipped \in Nat
       /\ check.seen \in Nat /\ check.gone \in Nat
  BY <1>1, QuotaTypes, QuotaAssumption
<1>14. spent + was <= check.seen + held + check.gone + above
  <2>1. Weighing BY <1>3 DEF Weighing
  <2> QED BY <1>10, <2>1 DEF SeenOrStanding, QuotaInv
<1> HIDE DEF m
<1>15. spent + then <= Budget + above + slipped'
  BY <1>3, <1>5, <1>8, <1>9, <1>10, <1>12, <1>13, <1>14
<1>16. WithinBudget' BY <1>3, <1>10, <1>15 DEF WithinBudget
<1>17. OneWeighs' /\ ~Weighing'
  <2>1. new.at # "weighing" BY <1>2
  <2> QED BY <1>2, <1>3, <2>1, WeighingMoves
<1>18. SeenOrStanding' BY <1>17 DEF SeenOrStanding
<1>19. UnreadAnswered' BY <1>3, NoCheckIs DEF UnreadAnswered
<1>20. Cardinality(UnderWay') = Cardinality(UnderWay) + 1
  <2>1. Cardinality(UnderWay') = Cardinality(UnderWay)
                 - (IF call[c].at \in {"calling", "late"} THEN 1 ELSE 0)
                 + (IF new.at \in {"calling", "late"} THEN 1 ELSE 0)
    BY <1>1, <1>2, CallMoves
  <2>2. call[c].at = "weighing" /\ new.at = "calling" BY <1>2, <1>3
  <2>3. Cardinality(UnderWay) \in Nat BY UnderWayCount
  <2> QED BY <2>1, <2>2, <2>3
<1>21. Cardinality(UnderWay) \in Nat /\ Cardinality(Call) \in Nat BY UnderWayCount
<1>22. CallsCounted' BY <1>3, <1>13, <1>20, <1>21 DEF CallsCounted, QuotaInv
<1>23. Cardinality(UnderWay) <= Cardinality(Call) - 1
  <2>1. UnderWay \subseteq Call \ {c} BY <1>3 DEF UnderWay
  <2>2. Cardinality(Call \ {c}) = Cardinality(Call) - 1 /\ IsFiniteSet(Call \ {c})
    BY QuotaAssumption, FS_RemoveElement
  <2> QED BY <2>1, <2>2, FS_Subset
<1>24. admitted' <= Cap + (Cardinality(Call) - 1) + missed'
  BY <1>3, <1>13, <1>21, <1>23 DEF CallsCounted, QuotaInv
<1>25. billed' <= Budget + hidden' + above' + slipped'
  BY <1>3, <1>13 DEF BudgetHeld, QuotaInv
<1>26. BudgetHeld' BY <1>24, <1>25 DEF BudgetHeld
<1>27. ChargeKnown' BY <1>3 DEF ChargeKnown, QuotaInv
<1> QED BY <1>6, <1>7, <1>16, <1>17, <1>18, <1>19, <1>22, <1>26, <1>27 DEF QuotaInv

\* A call that asks, is refused before it starts, or ends.
LEMMA OutsideKept ==
    ASSUME QuotaInv, NEW c \in Call,
           \/ \E m \in Model : Ask(c, m)
           \/ OverBudget(c) \/ OverCap(c) \/ Release(c) \/ RecordNothing(c)
    PROVE  QuotaInv'
<1>1. QuotaTypeOK /\ call[c] \in CallState BY QuotaTypes DEF QuotaInv
<1>2. /\ reserved \in [Call -> Nat] /\ spent \in Nat /\ rows \in Nat /\ billed \in Nat
      /\ hidden \in Nat /\ missed \in Nat /\ admitted \in Nat /\ flaws \in 0 .. MaxFlaws
      /\ above \in Nat /\ slipped \in Nat /\ check \in Check
      /\ check.seen \in Nat /\ check.unread \subseteq Call /\ check.gone \in Nat
  BY <1>1, QuotaTypes
<1>3. PICK new \in CallState : /\ new.at \in {"asking", "refused", "ended"}
                               /\ call' = [call EXCEPT ![c] = new]
  <2>1. ASSUME NEW m \in Model, Ask(c, m)
        PROVE  \E new \in CallState : /\ new.at \in {"asking", "refused", "ended"}
                                      /\ call' = [call EXCEPT ![c] = new]
    <3>1. [at |-> "asking", model |-> m] \in CallState BY DEF CallState, QuotaPhase
    <3> QED BY <2>1, <3>1 DEF Ask
  <2>2. CASE OverBudget(c) BY <1>1, <2>2, ToMoves DEF OverBudget, QuotaPhase
  <2>3. CASE OverCap(c) \/ Release(c) BY <1>1, <2>3, ToMoves DEF OverCap, Release, QuotaPhase
  <2>4. CASE RecordNothing(c) BY <1>1, <2>4, NextModelMoves DEF RecordNothing
  <2> QED BY <2>1, <2>2, <2>3, <2>4
<1>4. /\ UNCHANGED <<spent, billed, hidden, above, slipped, admitted>>
      /\ reserved' = reserved \/ reserved' = [reserved EXCEPT ![c] = 0]
      /\ missed' \in {missed, missed + 1} /\ flaws' \in 0 .. MaxFlaws
  BY <1>2, QuotaAssumption DEF Ask, OverBudget, OverCap, Release, RecordNothing, Flaw
<1>5. /\ rows' \in {rows, rows + 1}
      /\ rows + missed + Flight(call[c].at) <= rows' + missed' + Flight(new.at)
  <2>1. Flight(new.at) = 0 BY <1>3 DEF Flight
  <2>2. CASE RecordNothing(c)
    <3>1. CASE call[c].at = "late"
      <4>1. Flight(call[c].at) = 1 BY <3>1 DEF Flight
      <4> QED BY <1>2, <2>1, <2>2, <3>1, <4>1 DEF RecordNothing
    <3>2. CASE call[c].at = "refused"
      <4>1. Flight(call[c].at) = 0 BY <3>2 DEF Flight
      <4> QED BY <1>2, <2>1, <2>2, <3>2, <4>1 DEF RecordNothing
    <3> QED BY <2>2, <3>1, <3>2 DEF RecordNothing
  <2>3. CASE ~RecordNothing(c)
    <3>1. call[c].at \in {"idle", "weighing", "answered"} /\ rows' = rows /\ missed' = missed
      BY <2>3 DEF Ask, OverBudget, OverCap, Release
    <3>2. Flight(call[c].at) = 0 BY <3>1 DEF Flight
    <3> QED BY <1>2, <2>1, <3>1, <3>2
  <2> QED BY <2>2, <2>3
<1>6. MayCost(c)' = 0 /\ MayCost(c) = 0
  <2>1. call'[c] = new BY <1>1, <1>3, CallMoves
  <2>2. call[c].at # "calling" BY DEF Ask, OverBudget, OverCap, Release, RecordNothing
  <2> QED BY <1>3, <2>1, <2>2 DEF MayCost
<1>7. /\ check' \in Check
      /\ \/ call[c].at = "weighing" /\ check' = NoCheck
         \/ /\ check'.seen = check.seen
            /\ \A x \in Call \ {c} : x \in check'.unread <=> x \in check.unread
            /\ c \notin check'.unread
            /\ Standing(c) + check.gone = Standing(c)' + check'.gone
  <2>1. CASE OverBudget(c) \/ OverCap(c) BY <2>1, NoCheckIs DEF OverBudget, OverCap
  <2>2. CASE (\E m \in Model : Ask(c, m)) \/ RecordNothing(c)
    <3>1. check' = check /\ call[c].at \in {"idle", "refused", "late"} BY <2>2 DEF Ask, RecordNothing
    <3>2. c \notin check.unread BY <3>1 DEF UnreadAnswered, QuotaInv
    <3>3. call'[c].at # "calling" BY <1>1, <1>3, CallMoves
    <3>4. Standing(c) = 0 /\ Standing(c)' = 0 BY <3>1, <3>2, <3>3 DEF Standing
    <3> QED BY <1>2, <3>1, <3>2, <3>4
  <2>3. CASE Release(c)
    <3>1. call[c].at = "answered" BY <2>3 DEF Release
    <3>2. call'[c].at # "calling" BY <1>1, <1>3, CallMoves
    <3>3. CASE c \in check.unread
      <4>1. /\ check' \in Check /\ check'.seen = check.seen /\ check'.unread = check.unread \ {c}
            /\ check'.gone = check.gone + reserved[c]
        <5>1. check' = [check EXCEPT !.unread = check.unread \ {c}, !.gone = check.gone + reserved[c]]
          BY <2>3, <3>3 DEF Release
        <5>2. check.gone + reserved[c] \in Nat /\ check.unread \ {c} \subseteq Call BY <1>2
        <5> QED BY <1>2, <5>1, <5>2 DEF Check
      <4>2. Standing(c) = reserved[c] /\ Standing(c)' = 0 BY <3>1, <3>2, <3>3, <4>1 DEF Standing
      <4> QED BY <1>2, <4>1, <4>2
    <3>4. CASE c \notin check.unread
      <4>1. check' = check BY <2>3, <3>4 DEF Release
      <4>2. Standing(c) = 0 /\ Standing(c)' = 0 BY <3>1, <3>2, <3>4, <4>1 DEF Standing
      <4> QED BY <1>2, <3>4, <4>1, <4>2
    <3> QED BY <3>3, <3>4
  <2> QED BY <2>1, <2>2, <2>3
<1>8. reserved' \in [Call -> Nat] /\ \A x \in Call \ {c} : reserved'[x] = reserved[x]
  BY <1>2, <1>4
<1>9. spent' + MayCost(c)' + above <= spent + MayCost(c) + above' BY <1>2, <1>4, <1>6
<1>10. \/ call[c].at = "weighing" /\ check' = NoCheck
       \/ /\ check'.seen = check.seen
          /\ \A x \in Call \ {c} : x \in check'.unread <=> x \in check.unread
          /\ c \in check'.unread => new.at = "answered"
          /\ Weighing =>
                spent' + MayCost(c)' + Standing(c) + check.gone + above
                  <= spent + MayCost(c) + Standing(c)' + check'.gone + above'
  <2>1. CASE call[c].at = "weighing" /\ check' = NoCheck BY <2>1
  <2>2. CASE /\ check'.seen = check.seen
             /\ \A x \in Call \ {c} : x \in check'.unread <=> x \in check.unread
             /\ c \notin check'.unread
             /\ Standing(c) + check.gone = Standing(c)' + check'.gone
    <3>1. PICK n : n = Standing(c) + check.gone OBVIOUS
    <3>2. Standing(c) \in Nat BY <1>1, MayCostTyped
    <3>3. call'[c].at # "calling" BY <1>1, <1>3, CallMoves
    <3>4. Standing(c)' = 0 BY <2>2, <3>3 DEF Standing
    <3>5. check'.gone = n BY <1>7, <2>2, <3>1, <3>4 DEF Check
    <3>6. n \in Nat BY <1>2, <3>1, <3>2
    <3>7. /\ spent' + 0 + Standing(c) + check.gone + above
               <= spent + 0 + 0 + check'.gone + above'
      BY <1>2, <1>4, <3>1, <3>2, <3>5, <3>6
    <3> QED BY <1>6, <2>2, <3>4, <3>7
  <2> QED BY <1>7, <2>1, <2>2
<1>11. billed' = spent' + hidden' BY <1>4 DEF QuotaInv, ChargeKnown
<1>12. /\ spent' \in Nat /\ rows' \in Nat /\ billed' \in Nat /\ hidden' \in Nat /\ missed' \in Nat
       /\ above' \in Nat /\ slipped' = slipped
       /\ flaws' \in 0 .. MaxFlaws /\ admitted' = admitted /\ missed <= missed'
       /\ new.at # "calling" /\ new.at # "weighing"
  BY <1>2, <1>3, <1>4, <1>5
<1> QED BY <1>3, <1>5, <1>7, <1>8, <1>9, <1>10, <1>11, <1>12, CallKept

\* A call that was under way: it is answered, or fails in one of its ways, or
\* makes another attempt.
LEMMA EndingKept ==
    ASSUME QuotaInv, NEW c \in Call, NEW cost \in Charge,
           Answered(c, cost) \/ Spoilt(c, cost) \/ Unreached(c, cost) \/ TimeOut(c, cost)
    PROVE  QuotaInv'
<1> USE QuotaAssumption
<1> DEFINE est == Cost[call[c].model]
<1>1. QuotaTypeOK /\ call[c] \in CallState BY QuotaTypes DEF QuotaInv
<1>2. /\ reserved \in [Call -> Nat] /\ spent \in Nat /\ rows \in Nat /\ billed \in Nat
      /\ hidden \in Nat /\ missed \in Nat /\ admitted \in Nat /\ flaws \in 0 .. MaxFlaws
      /\ above \in Nat /\ slipped \in Nat /\ check \in Check
      /\ check.seen \in Nat /\ check.unread \subseteq Call /\ check.gone \in Nat
  BY <1>1, QuotaTypes
<1>3. /\ call[c].at = "calling" /\ est \in Nat /\ MayCost(c) = est /\ Standing(c) = est
      /\ reserved[c] = est /\ c \notin check.unread
  <2>1. call[c].at = "calling" BY DEF Answered, Spoilt, Unreached, TimeOut
  <2> QED BY <1>1, <2>1 DEF MayCost, Standing, CallState, CostReserved, UnreadAnswered, QuotaInv
<1>4. cost \in Nat BY DEF Charge
<1>5. Excess(c, cost) \in Nat /\ cost <= est + Excess(c, cost) BY <1>3, <1>4 DEF Excess
<1>6. CASE Unreached(c, cost) /\ UNCHANGED <<call, reserved, missed>>
  <2>1. call' = [call EXCEPT ![c] = call[c]] BY <1>6, QuotaTypes, <1>1
  <2>2. /\ UNCHANGED <<check, spent, rows, above, slipped, admitted, call, reserved, missed>>
        /\ billed' = billed + cost /\ hidden' = hidden + cost /\ flaws' \in 0 .. MaxFlaws
    BY <1>2, <1>6 DEF Unreached, Flaw
  <2>3. MayCost(c)' = est /\ Standing(c)' = est BY <1>3, <2>2 DEF MayCost, Standing
  <2>4. billed' = spent' + hidden' BY <1>2, <1>4, <2>2 DEF QuotaInv, ChargeKnown
  <2>5. /\ billed' \in Nat /\ hidden' \in Nat /\ spent' \in Nat /\ rows' \in Nat /\ missed' \in Nat
        /\ above' \in Nat /\ missed <= missed' /\ check' \in Check /\ check'.seen = check.seen
        /\ reserved' \in [Call -> Nat]
    BY <1>2, <1>4, <2>2
  <2>6. spent' + MayCost(c)' + above <= spent + MayCost(c) + above' BY <1>2, <1>3, <2>2, <2>3
  <2>7. spent' + MayCost(c)' + Standing(c) + check.gone + above
           <= spent + MayCost(c) + Standing(c)' + check'.gone + above'
    BY <1>2, <1>3, <2>2, <2>3
  <2>8. Flight(call[c].at) = 1 BY <1>3 DEF Flight
  <2>9. rows + missed + Flight(call[c].at) <= rows' + missed' + Flight(call[c].at)
    BY <1>2, <2>2, <2>8
  <2>10. /\ c \notin check'.unread /\ reserved'[c] = est /\ call[c].at # "weighing"
         /\ \A x \in Call \ {c} : /\ reserved'[x] = reserved[x]
                                  /\ x \in check'.unread <=> x \in check.unread
    BY <1>3, <2>2
  <2> HIDE DEF est
  <2>11. reserved'[c] = Cost[call[c].model] BY <2>10 DEF est
  <2>12. slipped' = slipped /\ admitted' = admitted BY <2>2
  <2>13. flaws' \in 0 .. MaxFlaws BY <2>2
  <2> QED BY <1>1, <2>1, <2>4, <2>5, <2>6, <2>7, <2>9, <2>10, <2>11, <2>12, <2>13, CallKept
<1>7. CASE ~(Unreached(c, cost) /\ UNCHANGED <<call, reserved, missed>>)
  <2>1. PICK new \in CallState : /\ new.at \in {"answered", "asking", "ended", "late"}
                                 /\ call' = [call EXCEPT ![c] = new]
                                 /\ new.at = "late" <=> TimeOut(c, cost)
                                 /\ new.at = "answered" <=> Answered(c, cost)
    <3>1. CASE TimeOut(c, cost)
      <4>1. reserved' = [reserved EXCEPT ![c] = 0] /\ To(c, "late") BY <3>1 DEF TimeOut
      <4>2. PICK new \in CallState : new.at = "late" /\ call' = [call EXCEPT ![c] = new]
        BY <1>1, <4>1, ToMoves DEF QuotaPhase
      <4>3. ~Answered(c, cost)
        <5>1. ASSUME Answered(c, cost) PROVE FALSE
          <6>1. To(c, "answered") BY <5>1 DEF Answered
          <6>2. call'[c].at = "answered" BY <1>1, <6>1, QuotaTypes DEF To
          <6>3. call'[c].at = "late" BY <1>1, <4>2, CallMoves
          <6> QED BY <6>2, <6>3
        <5> QED BY <5>1
      <4> QED BY <3>1, <4>2, <4>3
    <3>2. CASE Answered(c, cost)
      <4>1. To(c, "answered") BY <3>2 DEF Answered
      <4>2. PICK new \in CallState : new.at = "answered" /\ call' = [call EXCEPT ![c] = new]
        BY <1>1, <4>1, ToMoves DEF QuotaPhase
      <4>3. call'[c].at = "answered" BY <1>1, <4>1, QuotaTypes DEF To
      <4>4. ~TimeOut(c, cost)
        <5>1. ASSUME TimeOut(c, cost) PROVE FALSE
          <6>1. call'[c].at = "late" BY <1>1, <5>1, QuotaTypes DEF To, TimeOut
          <6> QED BY <4>3, <6>1
        <5> QED BY <5>1
      <4> QED BY <3>2, <4>2, <4>4
    <3>3. CASE ~TimeOut(c, cost) /\ ~Answered(c, cost)
      <4>1. NextModel(c) \/ To(c, "ended") BY <1>7, <3>3 DEF Spoilt, Unreached
      <4>2. PICK new \in CallState : /\ new.at \in {"asking", "ended"}
                                     /\ call' = [call EXCEPT ![c] = new]
        BY <1>1, <4>1, NextModelMoves
      <4> QED BY <3>3, <4>2
    <3> QED BY <3>1, <3>2, <3>3
  <2>2. call'[c] = new BY <1>1, <2>1, CallMoves
  <2>3. MayCost(c)' = 0 BY <2>1, <2>2 DEF MayCost
  <2>4. /\ \/ reserved' = reserved /\ Answered(c, cost)
           \/ reserved' = [reserved EXCEPT ![c] = 0]
        /\ admitted' = admitted /\ slipped' = slipped /\ flaws' \in 0 .. MaxFlaws
        /\ billed' = billed + cost
    BY <1>2, <1>7 DEF Answered, Spoilt, Unreached, TimeOut, Flaw
  <2>5. \/ /\ Answered(c, cost)
           /\ spent' = spent + cost /\ hidden' = hidden /\ rows' = rows + 1 /\ missed' = missed
           /\ above' = above + Excess(c, cost)
           /\ check' = [check EXCEPT !.unread = IF Weighing THEN @ \cup {c} ELSE @]
        \/ /\ hidden' = hidden + cost /\ spent' = spent /\ rows' = rows /\ above' = above
           /\ check' = check
           /\ missed' \in {missed, missed + 1} /\ (missed' = missed => TimeOut(c, cost))
    <3>1. missed + 1 # missed BY <1>2
    <3>2. CASE Answered(c, cost) BY <3>1, <3>2 DEF Answered
    <3>3. CASE Spoilt(c, cost) BY <3>1, <3>3 DEF Spoilt
    <3>4. CASE TimeOut(c, cost) BY <3>4 DEF TimeOut
    <3>5. CASE Unreached(c, cost) BY <1>7, <3>1, <3>5 DEF Unreached
    <3> QED BY <3>2, <3>3, <3>4, <3>5
  <2>6. /\ check' \in Check /\ check'.seen = check.seen /\ check'.gone = check.gone
        /\ \A x \in Call \ {c} : x \in check'.unread <=> x \in check.unread
        /\ c \in check'.unread => Answered(c, cost)
        /\ Weighing /\ check' # check => c \in check'.unread
    <3>1. CASE check' = check BY <1>2, <1>3, <3>1
    <3>2. CASE check' = [check EXCEPT !.unread = IF Weighing THEN @ \cup {c} ELSE @] /\ Answered(c, cost)
      BY <1>2, <1>3, <3>2 DEF Check
    <3> QED BY <2>5, <3>1, <3>2
  <2>7. /\ spent' \in Nat /\ rows' \in Nat /\ billed' \in Nat /\ hidden' \in Nat /\ missed' \in Nat
        /\ above' \in Nat /\ missed <= missed'
    BY <1>2, <1>4, <1>5, <2>4, <2>5
  <2>8. spent' + MayCost(c)' + above <= spent + MayCost(c) + above'
    <3> HIDE DEF est
    <3> QED BY <1>2, <1>3, <1>4, <1>5, <2>3, <2>5
  <2>9. billed' = spent' + hidden' BY <1>2, <1>4, <2>4, <2>5 DEF QuotaInv, ChargeKnown
  <2>10. rows + missed + Flight(call[c].at) <= rows' + missed' + Flight(new.at)
    <3>1. Flight(call[c].at) = 1 BY <1>3 DEF Flight
    <3>2. Flight(new.at) = IF TimeOut(c, cost) THEN 1 ELSE 0 BY <2>1 DEF Flight
    <3> QED BY <1>2, <2>5, <3>1, <3>2
  <2>11. reserved' \in [Call -> Nat] /\ \A x \in Call \ {c} : reserved'[x] = reserved[x]
    BY <1>2, <2>4
  <2>12. ASSUME Weighing
         PROVE  spent' + MayCost(c)' + Standing(c) + check.gone + above
                  <= spent + MayCost(c) + Standing(c)' + check'.gone + above'
    <3>1. CASE c \in check'.unread
      <4>1. /\ spent' = spent + cost /\ above' = above + Excess(c, cost)
        BY <1>3, <2>5, <3>1
      <4>2. reserved'[c] = est
        <5>1. call'[c].at = "answered" BY <2>1, <2>2, <2>6, <3>1
        <5>2. reserved' = reserved
          BY <2>6, <3>1 DEF Answered
        <5> QED BY <1>3, <5>2
      <4>3. Standing(c)' = est BY <2>1, <2>2, <3>1, <4>2 DEF Standing
      <4> HIDE DEF est
      <4> QED BY <1>2, <1>3, <1>4, <1>5, <2>3, <2>6, <4>1, <4>3
    <3>2. CASE c \notin check'.unread
      <4>1. spent' = spent /\ above' = above BY <1>2, <2>5, <2>12, <3>2 DEF Check
      <4>2. Standing(c)' = 0 BY <2>1, <2>2, <3>2 DEF Standing
      <4> HIDE DEF est
      <4> QED BY <1>2, <1>3, <2>3, <2>6, <4>1, <4>2
    <3> QED BY <3>1, <3>2
  <2>13. c \in check'.unread => new.at = "answered" BY <2>1, <2>6
  <2>14. new.at # "weighing" /\ new.at # "calling" BY <2>1
  <2> HIDE DEF est
  <2> QED BY <2>1, <2>4, <2>6, <2>7, <2>8, <2>9, <2>10, <2>11, <2>12, <2>13, <2>14, CallKept
<1> QED BY <1>6, <1>7

\* Another attempt under the same reservation, or the next model; and a
\* reservation that has outlived its call.
LEMMA RefusedKept ==
    ASSUME QuotaInv, NEW c \in Call, Refused(c) \/ Expire(c)
    PROVE  QuotaInv'
<1>1. QuotaTypeOK /\ call[c] \in CallState BY QuotaTypes DEF QuotaInv
<1>2. /\ call \in [Call -> CallState] /\ check \in Check
      /\ reserved \in [Call -> Nat] /\ spent \in Nat /\ rows \in Nat /\ billed \in Nat
      /\ hidden \in Nat /\ missed \in Nat /\ admitted \in Nat /\ flaws \in 0 .. MaxFlaws
      /\ above \in Nat /\ slipped \in Nat /\ check.gone \in Nat
  BY <1>1, QuotaTypes
<1>3. PICK new \in CallState : /\ call' = [call EXCEPT ![c] = new]
                               /\ \/ new = call[c] /\ (reserved' = reserved \/ Expire(c))
                                  \/ new.at \in {"asking", "ended"} /\ Refused(c) /\ call' # call
  <2>1. call = [call EXCEPT ![c] = call[c]] BY <1>2
  <2>2. CASE call' = call /\ (reserved' = reserved \/ Expire(c)) BY <1>1, <2>1, <2>2
  <2>3. CASE Refused(c) /\ NextModel(c)
    <3>1. PICK new \in CallState : /\ new.at \in {"asking", "ended"}
                                   /\ call' = [call EXCEPT ![c] = new]
      BY <1>1, <2>3, NextModelMoves
    <3>2. call'[c] # call[c] BY <1>1, <2>3, <3>1, CallMoves DEF Refused
    <3> QED BY <2>3, <3>1, <3>2
  <2> QED BY <2>2, <2>3 DEF Refused, Expire
<1>4. call'[c] = new BY <1>1, <1>3, CallMoves
<1>5. /\ UNCHANGED <<check, spent, billed, hidden, above, slipped, admitted>> /\ flaws' \in 0 .. MaxFlaws
      /\ reserved' = reserved \/ reserved' = [reserved EXCEPT ![c] = 0]
      /\ rows' \in {rows, rows + 1} /\ missed' \in {missed, missed + 1}
      /\ call' # call => rows' + missed' = rows + missed + 1
      /\ call[c].at \in {"calling", "ended"}
  <2>1. flaws' \in 0 .. MaxFlaws BY <1>2, QuotaAssumption DEF Refused, Expire, Flaw
  <2>2. CASE Refused(c) BY <1>2, <2>1, <2>2 DEF Refused
  <2>3. CASE Expire(c) BY <2>1, <2>3 DEF Expire
  <2> QED BY <2>2, <2>3
<1>6. new.at = "calling" => reserved'[c] = Cost[new.model]
  BY <1>3 DEF Expire, QuotaInv, CostReserved
<1>7. c \notin check.unread BY <1>5 DEF UnreadAnswered, QuotaInv
<1>8. Standing(c) = MayCost(c) /\ Standing(c)' = MayCost(c)'
  BY <1>5, <1>7 DEF Standing, MayCost
<1>9. MayCost(c)' <= MayCost(c)
  <2>1. MayCost(c)' = MayCost(c) \/ MayCost(c)' = 0 BY <1>3, <1>4 DEF MayCost
  <2> QED BY <1>1, <2>1, MayCostTyped
<1>10. MayCost(c) \in Nat /\ MayCost(c)' \in Nat BY <1>1, <1>3, CallMoves, MayCostTyped
<1>11. rows + missed + Flight(call[c].at) <= rows' + missed' + Flight(new.at)
  <2>1. Flight(call[c].at) \in 0 .. 1 /\ Flight(new.at) \in 0 .. 1 BY DEF Flight
  <2>2. CASE new = call[c] BY <1>2, <1>5, <2>1, <2>2
  <2>3. CASE call' # call
    <3>1. rows' + missed' = rows + missed + 1 BY <1>5, <2>3
    <3>2. PICK old, later : old = Flight(call[c].at) /\ later = Flight(new.at) OBVIOUS
    <3>3. old \in 0 .. 1 /\ later \in 0 .. 1 BY <2>1, <3>2
    <3>4. rows' \in Nat /\ missed' \in Nat BY <1>2, <1>5
    <3>5. PICK r, m, t, n : r = rows /\ m = missed /\ t = rows' /\ n = missed' OBVIOUS
    <3>6. r \in Nat /\ m \in Nat /\ t \in Nat /\ n \in Nat /\ t + n = r + m + 1
      BY <1>2, <3>1, <3>4, <3>5
    <3>7. r + m + old <= t + n + later BY ONLY <3>3, <3>6
    <3> QED BY <3>2, <3>5, <3>7
  <2> QED BY <1>3, <2>2, <2>3
<1>12. reserved' \in [Call -> Nat] /\ \A x \in Call \ {c} : reserved'[x] = reserved[x]
  BY <1>2, <1>5
<1>13. spent' + MayCost(c)' + above <= spent + MayCost(c) + above' BY <1>2, <1>5, <1>9, <1>10
<1>14. spent' + MayCost(c)' + Standing(c) + check.gone + above
         <= spent + MayCost(c) + Standing(c)' + check'.gone + above'
  BY <1>2, <1>5, <1>8, <1>10
<1>15. billed' = spent' + hidden' /\ rows' \in Nat /\ missed <= missed' /\ missed' \in Nat
  BY <1>2, <1>5 DEF QuotaInv, ChargeKnown
<1>16. /\ check'.seen = check.seen /\ c \notin check'.unread /\ check' \in Check
       /\ \A x \in Call \ {c} : x \in check'.unread <=> x \in check.unread
  BY <1>2, <1>5, <1>7
<1>17. new.at # "weighing" BY <1>3, <1>5
<1>18. /\ spent' \in Nat /\ billed' \in Nat /\ hidden' \in Nat /\ above' \in Nat
       /\ slipped' = slipped /\ admitted' = admitted /\ flaws' \in 0 .. MaxFlaws
  BY <1>2, <1>5
<1> QED BY <1>3, <1>6, <1>11, <1>12, <1>13, <1>14, <1>15, <1>16, <1>17, <1>18, CallKept

\* What the calls that die were charged was never recorded.
LEMMA DiesKept == ASSUME QuotaInv, NEW charged \in [Call -> Charge], Dies(charged) PROVE QuotaInv'
<1> DEFINE calling == {c \in Call : call[c].at = "calling"}
           lates    == {c \in Call : call[c].at = "late"}
           cost    == SumFunction(charged)
<1>1. /\ QuotaTypeOK /\ call \in [Call -> CallState]
      /\ reserved \in [Call -> Nat] /\ spent \in Nat /\ rows \in Nat /\ billed \in Nat
      /\ hidden \in Nat /\ missed \in Nat /\ admitted \in Nat /\ flaws \in 0 .. MaxFlaws
      /\ above \in Nat /\ slipped \in Nat
  BY QuotaTypes DEF QuotaInv
<1>2. /\ call' = [c \in Call |-> IF call[c].at = "idle" THEN call[c] ELSE [call[c] EXCEPT !.at = "ended"]]
      /\ billed' = billed + cost /\ hidden' = hidden + cost /\ check' = NoCheck
      /\ missed' = missed + Cardinality(calling) + Cardinality(lates)
      /\ UNCHANGED <<reserved, spent, rows, above, slipped, admitted>> /\ flaws' \in 0 .. MaxFlaws
  <2>1. flaws' \in 0 .. MaxFlaws BY <1>1, QuotaAssumption DEF Dies, Flaw
  <2> QED BY <2>1 DEF Dies
<1>3. IsFiniteSet(calling) /\ IsFiniteSet(lates) BY QuotaAssumption, FS_Subset
<1>4. cost \in Nat
  <2>1. \A c \in Call : charged[c] \in Nat BY QuotaAssumption DEF Charge
  <2>2. cost = SumOver(charged, Call) BY SumFunctionIs
  <2> QED BY <2>1, <2>2, QuotaAssumption, SumIsNat
<1> HIDE DEF cost
<1>5. /\ call' \in [Call -> CallState]
      /\ \A c \in Call : call'[c].at \in {"idle", "ended"}
  BY <1>1, <1>2 DEF CallState, QuotaPhase
<1>6. SumOver(MayCosts, Call)' = 0
  <2>1. \A c \in Call : MayCosts'[c] = 0 BY <1>5 DEF MayCosts, MayCost
  <2>2. PICK zero : zero = MayCosts' OBVIOUS
  <2>3. \A c \in Call : zero[c] = 0 BY <2>1, <2>2
  <2>4. SumOver(zero, Call) = 0 BY <2>3, QuotaAssumption, SumOfZeros
  <2>5. SumOver(MayCosts, Call)' = SumOver(zero, Call) BY <2>2
  <2> QED BY <2>4, <2>5
<1>7. UnderWay' = {} BY <1>5 DEF UnderWay
<1>8. Cardinality(calling) + Cardinality(lates) = Cardinality(UnderWay)
  <2>1. UnderWay = calling \cup lates /\ calling \cap lates = {} BY DEF UnderWay
  <2> HIDE DEF calling, lates
  <2>2. Cardinality(calling \cap lates) = 0 BY <2>1, FS_EmptySet
  <2>3. Cardinality(calling) \in Nat /\ Cardinality(lates) \in Nat BY <1>3, FS_CardinalityType
  <2>4. Cardinality(UnderWay) = Cardinality(calling) + Cardinality(lates) - Cardinality(calling \cap lates)
    BY <1>3, <2>1, FS_Union
  <2> QED BY <2>2, <2>3, <2>4
<1>9. Cardinality(calling) \in Nat /\ Cardinality(lates) \in Nat BY <1>3, FS_CardinalityType
<1> HIDE DEF calling, lates
<1>10. billed' \in Nat /\ hidden' \in Nat /\ missed' \in Nat BY <1>1, <1>2, <1>4, <1>9
<1>11. QuotaTypeOK' BY <1>1, <1>2, <1>5, <1>10, NoCheckIs DEF QuotaTypeOK, CallState
<1>12. WithinBudget'
  <2>1. SumOver(MayCosts, Call) \in Nat BY <1>1, SharesAreNat
  <2>2. spent <= Budget + above + slipped
    BY <1>1, <2>1, QuotaAssumption DEF WithinBudget, QuotaInv
  <2> QED BY <1>1, <1>2, <1>6, <2>2 DEF WithinBudget
<1>13. ChargeKnown' BY <1>1, <1>2, <1>4 DEF ChargeKnown, QuotaInv
<1>14. CallsCounted'
  <2>1. Cardinality(UnderWay') = 0 BY <1>7, FS_EmptySet
  <2>2. admitted <= rows + missed + Cardinality(UnderWay) BY DEF CallsCounted, QuotaInv
  <2> QED BY <1>1, <1>2, <1>8, <1>9, <2>1, <2>2 DEF CallsCounted
<1>15. BudgetHeld'
  <2>1. admitted <= Cap + (Cardinality(Call) - 1) + missed BY DEF BudgetHeld, QuotaInv
  <2>2. missed <= missed' BY <1>1, <1>2, <1>9
  <2>3. Cardinality(Call) \in Nat /\ Cap \in Nat /\ Budget \in Nat BY UnderWayCount, QuotaAssumption
  <2>4. billed' <= Budget + hidden' + above' + slipped'
    <3>1. spent' <= Budget + above + slipped BY <1>1, <1>2, <1>6, <1>12 DEF WithinBudget
    <3> QED BY <1>1, <1>2, <1>10, <1>13, <2>3, <3>1 DEF ChargeKnown
  <2> QED BY <1>1, <1>2, <1>10, <2>1, <2>2, <2>3, <2>4 DEF BudgetHeld
<1>16. CostReserved' BY <1>5 DEF CostReserved
<1>17. OneWeighs' /\ ~Weighing' BY <1>5 DEF OneWeighs, Weighing
<1>18. SeenOrStanding' BY <1>17 DEF SeenOrStanding
<1>19. UnreadAnswered' BY <1>2, NoCheckIs DEF UnreadAnswered
<1> QED BY <1>11, <1>12, <1>13, <1>14, <1>15, <1>16, <1>17, <1>18, <1>19 DEF QuotaInv

LEMMA QuotaInvInductive == QuotaInv /\ [QuotaNext]_quotaVars => QuotaInv'
<1> SUFFICES ASSUME QuotaInv, [QuotaNext]_quotaVars PROVE QuotaInv' OBVIOUS
<1>1. CASE UNCHANGED quotaVars
  BY <1>1 DEF quotaVars, QuotaInv, QuotaTypeOK, CostReserved, UnreadAnswered, OneWeighs,
     WithinBudget, SeenOrStanding, Weighing, MayCosts, MayCost, Standings, Standing,
     ChargeKnown, CallsCounted, UnderWay, BudgetHeld
<1> QED BY <1>1, WeighKept, AdmitKept, OutsideKept, EndingKept, RefusedKept, DiesKept DEF QuotaNext

\* The variables of the quota keep their types.
THEOREM QuotaTyped == QuotaSpec => []QuotaTypeOK
<1>1. QuotaInv => QuotaTypeOK BY DEF QuotaInv
<1> QED BY <1>1, QuotaStart, QuotaInvInductive, PTL DEF QuotaSpec

\* The provider charges no more than the month's budget, what no row ever told
\* of, what answers cost above their estimates and what slipped between the two
\* sums of a check; and a day's calls pass the cap by those side by side at most
\* and those that left no row: whatever the estimates, the prices and the order.
THEOREM QuotaHeld == QuotaSpec => []BudgetHeld
<1>1. QuotaInv => BudgetHeld BY DEF QuotaInv
<1> QED BY <1>1, QuotaStart, QuotaInvInductive, PTL DEF QuotaSpec
-----------------------------------------------------------------------------
(***************************************************************************)
(* Credits.  Whoever has read the balance writes a number back that was    *)
(* covered by the ledger when it was read, and stays covered: whatever is  *)
(* drawn meanwhile is counted in inside.                                   *)
(***************************************************************************)
Covered(read) == read + consumed <= ledger + inside

ReadsCovered == \A c \in Between : Covered(clerk[c].before)

SweepCovered ==
    sweep.at = "cutting" => sweep.due \subseteq DOMAIN lots /\ Covered(sweep.before)

CreditInv == CreditTypeOK /\ ReadsCovered /\ SweepCovered /\ CreditsNotConjured

LEMMA MinOfTwo ==
    ASSUME NEW x \in Nat, NEW y \in Nat
    PROVE  Min({x, y}) \in Nat /\ Min({x, y}) <= x /\ Min({x, y}) <= y
<1>1. {x, y} \in SUBSET Int /\ {x, y} # {} OBVIOUS
<1>2. IsFiniteSet({x, y}) BY PairFinite
<1>3. Min({x, y}) \in {x, y} /\ \A z \in {x, y} : Min({x, y}) <= z BY <1>1, <1>2, MinIsLeast
<1> QED BY <1>3

\* Lots have a strict total order: by their last day, then by age.
LEMMA LotsOrdered ==
    ASSUME CreditTypeOK
    PROVE  /\ DOMAIN lots \in SUBSET (1 .. MaxLots) /\ IsFiniteSet(DOMAIN lots)
           /\ \A i \in DOMAIN lots : ~Sooner(i, i)
           /\ \A i, j \in DOMAIN lots : i # j => Sooner(i, j) \/ Sooner(j, i)
           /\ \A i, j, k \in DOMAIN lots : Sooner(i, j) /\ Sooner(j, k) => Sooner(i, k)
<1>1. /\ DOMAIN lots = 1 .. Len(lots) /\ Len(lots) \in Nat /\ Len(lots) <= MaxLots
      /\ \A i \in DOMAIN lots : lots[i] \in Lot
  BY DEF CreditTypeOK
<1>2. \A i \in DOMAIN lots : i \in Nat /\ LastsTo(i) \in Nat
  BY <1>1, CreditsAssumption DEF LastsTo, Lot
<1>3. IsFiniteSet(1 .. Len(lots)) BY <1>1, FS_Interval
<1>4. DOMAIN lots \in SUBSET (1 .. MaxLots) BY <1>1, CreditsAssumption
<1> HIDE DEF LastsTo
<1>5. \A i \in DOMAIN lots : ~Sooner(i, i) BY <1>2 DEF Sooner
<1>6. \A i, j \in DOMAIN lots : i # j => Sooner(i, j) \/ Sooner(j, i) BY <1>2 DEF Sooner
<1>7. \A i, j, k \in DOMAIN lots : Sooner(i, j) /\ Sooner(j, k) => Sooner(i, k) BY <1>2 DEF Sooner
<1> QED BY <1>1, <1>3, <1>4, <1>5, <1>6, <1>7

\* So any lots have a first and a last.
LEMMA FirstLot ==
    ASSUME CreditTypeOK, NEW S \in SUBSET DOMAIN lots, S # {}
    PROVE  \E i \in S : \A j \in S \ {i} : Sooner(i, j)
<1> DEFINE Before(i) == {j \in S : Sooner(j, i)}
           Befores == {Before(i) : i \in S}
<1>1. IsFiniteSet(S) BY LotsOrdered, FS_Subset
<1>2. Befores # {} /\ \A A \in Befores : A \subseteq S OBVIOUS
<1>3. PICK A \in Befores : \A B \in Befores : B \subseteq A => B = A
  <2> HIDE DEF Befores
  <2> QED BY <1>1, <1>2, LeastSet
<1>4. PICK i \in S : A = Before(i) OBVIOUS
<1>5. ASSUME NEW j \in Before(i) PROVE FALSE
  <2>1. j \in S /\ Sooner(j, i) /\ j \notin Before(j) BY LotsOrdered
  <2>2. Before(j) \subseteq Before(i) BY <2>1, LotsOrdered
  <2>3. Before(j) = Before(i) BY <1>3, <1>4, <2>1, <2>2
  <2> QED BY <2>1, <2>3
<1> QED BY <1>5, LotsOrdered

LEMMA LastLot ==
    ASSUME CreditTypeOK, NEW S \in SUBSET DOMAIN lots, S # {}
    PROVE  \E i \in S : \A j \in S \ {i} : Sooner(j, i)
<1> DEFINE After(i) == {j \in S : Sooner(i, j)}
           Afters == {After(i) : i \in S}
<1>1. IsFiniteSet(S) BY LotsOrdered, FS_Subset
<1>2. Afters # {} /\ \A A \in Afters : A \subseteq S OBVIOUS
<1>3. PICK A \in Afters : \A B \in Afters : B \subseteq A => B = A
  <2> HIDE DEF Afters
  <2> QED BY <1>1, <1>2, LeastSet
<1>4. PICK i \in S : A = After(i) OBVIOUS
<1>5. ASSUME NEW j \in After(i) PROVE FALSE
  <2>1. j \in S /\ Sooner(i, j) /\ j \notin After(j) BY LotsOrdered
  <2>2. After(j) \subseteq After(i) BY <2>1, LotsOrdered
  <2>3. After(j) = After(i) BY <1>3, <1>4, <2>1, <2>2
  <2> QED BY <2>1, <2>3
<1> QED BY <1>5, LotsOrdered

\* What the sweep takes from all lots together fits in the balance it has read.
LEMMA CutsFit ==
    ASSUME CreditTypeOK, sweep.at = "cutting", sweep.due \subseteq DOMAIN lots
    PROVE  /\ \A i \in sweep.due : Cut(i) \in Nat
           /\ SumFunction([i \in sweep.due |-> Cut(i)]) \in Nat
           /\ SumFunction([i \in sweep.due |-> Cut(i)]) <= sweep.before
<1> DEFINE due == sweep.due
           Earlier(i) == {j \in due : Sooner(j, i)}
<1>0. sweep.before \in Nat /\ \A i \in due : lots[i].size \in Nat
  <2>1. \A i \in DOMAIN lots : lots[i] \in Lot BY DEF CreditTypeOK
  <2> QED BY <2>1 DEF CreditTypeOK, Lot
<1>1. PICK sizes : sizes = [i \in due |-> lots[i].size] OBVIOUS
<1>2. PICK cuts : cuts = [i \in due |-> Cut(i)] OBVIOUS
<1>3. IsFiniteSet(due) BY LotsOrdered, FS_Subset
<1>4. \A T \in SUBSET due : IsFiniteSet(T) BY <1>3, FS_Subset
<1>5. ASSUME NEW T \in SUBSET due
      PROVE  SizeOf(T) = SumOver(sizes, T) /\ SumOver(sizes, T) \in Nat
  <2>1. PICK f : f = [j \in T |-> lots[j].size] OBVIOUS
  <2>2. DOMAIN f = T /\ \A j \in T : f[j] = sizes[j] BY <1>1, <2>1
  <2>3. SizeOf(T) = SumOver(f, T) BY <2>1, <2>2, SumFunctionIs DEF SizeOf
  <2>4. SumOver(f, T) = SumOver(sizes, T) BY <1>4, <2>2, SumOfEqual
  <2>5. \A j \in T : sizes[j] \in Nat BY <1>0, <1>1
  <2>6. SumOver(sizes, T) \in Nat BY <1>4, <2>5, SumIsNat
  <2> QED BY <2>3, <2>4, <2>6
<1>6. ASSUME NEW i \in due
      PROVE  /\ Cut(i) \in Nat /\ Cut(i) <= lots[i].size
             /\ Cut(i) <= 0 \/ Cut(i) <= sweep.before - SumOver(sizes, Earlier(i))
  <2>1. Earlier(i) \in SUBSET due OBVIOUS
  <2>0. SizeOf(Earlier(i)) \in Nat BY <1>5, <2>1
  <2>2. PICK rest \in Int : rest = sweep.before - SizeOf(Earlier(i))
    <3> HIDE DEF Earlier
    <3> QED BY <1>0, <2>0
  <2>3. PICK m : m = Max({0, rest}) OBVIOUS
  <2>4. m \in {0, rest} /\ m \in Nat
    <3>1. {0, rest} \in SUBSET Int /\ {0, rest} # {} BY <2>2
    <3>2. IsFiniteSet({0, rest}) BY PairFinite
    <3>3. m \in {0, rest} /\ \A z \in {0, rest} : z <= m BY <2>3, <3>1, <3>2, MaxIsGreatest
    <3> QED BY <2>2, <3>3
  <2>5. Cut(i) = Min({lots[i].size, m}) BY <2>2, <2>3 DEF Cut
  <2>6. Cut(i) \in Nat /\ Cut(i) <= lots[i].size /\ Cut(i) <= m BY <1>0, <2>4, <2>5, MinOfTwo
  <2> QED BY <1>5, <2>1, <2>2, <2>4, <2>6
<1>7. \A i \in due : cuts[i] \in Nat BY <1>2, <1>6
<1> DEFINE Initial(T) == \A i \in T : Earlier(i) \subseteq T
           WithinBoth(T) == SumOver(cuts, T) <= sweep.before /\ SumOver(cuts, T) <= SumOver(sizes, T)
           Wrong == {T \in SUBSET due : Initial(T) /\ ~WithinBoth(T)}
<1>8. Wrong = {}
  <2> SUFFICES ASSUME Wrong # {} PROVE FALSE OBVIOUS
  <2>1. PICK T \in Wrong : \A B \in Wrong : B \subseteq T => B = T
    <3>1. \A A \in Wrong : A \subseteq due OBVIOUS
    <3> HIDE DEF Wrong
    <3> QED BY <1>3, <3>1, LeastSet
  <2>2. T \in SUBSET due /\ Initial(T) /\ ~WithinBoth(T) /\ T \in SUBSET DOMAIN lots BY <2>1
  <2>3. T # {}
    <3>1. ASSUME T = {} PROVE WithinBoth(T)
      <4>1. SumOver(cuts, {}) = 0 /\ SumOver(sizes, {}) = 0 BY SumOfNone
      <4> QED BY <1>0, <3>1, <4>1
    <3> QED BY <2>2, <3>1
  <2>4. PICK i \in T : \A j \in T \ {i} : Sooner(j, i) BY <2>2, <2>3, LastLot
  <2> DEFINE U == T \ {i}
  <2>5. i \in due /\ U \in SUBSET due /\ i \notin U /\ U \subseteq T /\ U # T BY <2>2
  <2>6. Earlier(i) = U
    <3>1. \A j \in Earlier(i) : j \in T /\ j # i BY <2>2, <2>5, LotsOrdered
    <3>2. \A j \in U : j \in Earlier(i) BY <2>4, <2>5
    <3> QED BY <3>1, <3>2
  <2>7. Initial(U)
    <3> SUFFICES ASSUME NEW k \in U, NEW j \in Earlier(k) PROVE j \in U OBVIOUS
    <3>1. j \in T /\ Sooner(j, k) /\ Sooner(k, i) BY <2>2, <2>4
    <3>2. Sooner(j, i) BY <2>2, <3>1, LotsOrdered
    <3>3. j # i BY <2>2, <3>2, LotsOrdered
    <3> QED BY <3>1, <3>3
  <2>8. WithinBoth(U)
    <3>1. U \notin Wrong BY <2>1, <2>5
    <3> HIDE DEF WithinBoth
    <3> QED BY <2>5, <2>7, <3>1
  <2>9. /\ SumOver(cuts, T) = cuts[i] + SumOver(cuts, U)
        /\ SumOver(sizes, T) = sizes[i] + SumOver(sizes, U)
    <3>1. \A x \in T : cuts[x] \in Int BY <1>7, <2>2
    <3>2. \A x \in T : sizes[x] \in Int BY <1>0, <1>1, <2>2
    <3> QED BY <1>4, <2>2, <3>1, <3>2, SumTakesOut
  <2>10. SumOver(cuts, U) \in Nat
    <3>1. \A x \in U : cuts[x] \in Nat BY <1>7, <2>5
    <3> QED BY <1>4, <2>5, <3>1, SumIsNat
  <2>11. SumOver(sizes, U) \in Nat BY <1>5, <2>5
  <2>12. /\ cuts[i] = Cut(i) /\ sizes[i] = lots[i].size /\ cuts[i] \in Nat /\ sizes[i] \in Nat
         /\ cuts[i] <= sizes[i]
         /\ cuts[i] <= 0 \/ cuts[i] <= sweep.before - SumOver(sizes, U)
    BY <1>0, <1>1, <1>2, <1>6, <2>5, <2>6
  <2> HIDE DEF U
  <2>13. WithinBoth(T) BY <1>0, <2>8, <2>9, <2>10, <2>11, <2>12
  <2> QED BY <2>2, <2>13
<1>9. WithinBoth(due)
  <2>1. Initial(due) /\ due \in SUBSET due OBVIOUS
  <2> HIDE DEF WithinBoth, Initial
  <2> QED BY <1>8, <2>1
<1>10. SumFunction(cuts) = SumOver(cuts, due) BY <1>2, SumFunctionIs
<1>11. SumOver(cuts, due) \in Nat BY <1>3, <1>7, SumIsNat
<1> QED BY <1>2, <1>6, <1>9, <1>10, <1>11

LEMMA CreditStart == CreditInit => CreditInv
<1> SUFFICES ASSUME CreditInit PROVE CreditInv OBVIOUS
<1>1. Between = {} /\ sweep.at # "cutting" BY DEF CreditInit, Between
<1>2. CreditTypeOK BY CreditsAssumption DEF CreditInit, CreditTypeOK
<1>3. CreditsNotConjured BY DEF CreditInit, CreditsNotConjured
<1> QED BY <1>1, <1>2, <1>3 DEF CreditInv, ReadsCovered, SweepCovered

LEMMA AddedTo ==
    ASSUME NEW x \in Int, NEW y \in Int, NEW z \in Int, y <= z
    PROVE  x + y <= x + z
OBVIOUS

\* What was read stays covered: units drawn, or taken from the ledger, while
\* anybody is between read and write are counted in inside.
LEMMA ReadersStayCovered ==
    ASSUME CreditInv, CreditTypeOK',
           NEW u \in Int, consumed' = consumed + u,
           NEW v \in Int, ledger' = ledger - v,
           \A c \in Between' : clerk'[c] = clerk[c] /\ inside' >= inside + (u + v),
           sweep'.at = "cutting" => sweep' = sweep /\ inside' >= inside + (u + v),
           DOMAIN lots \subseteq DOMAIN lots'
    PROVE  ReadsCovered' /\ SweepCovered'
<1>1. consumed \in Int /\ ledger \in Int /\ inside \in Int
  BY CreditsAssumption DEF CreditInv, CreditTypeOK
<1>2. consumed' \in Int /\ ledger' \in Int /\ inside' \in Int
  BY CreditsAssumption DEF CreditTypeOK
<1>3. ASSUME NEW x \in Int, Covered(x), inside' >= inside + (u + v)
      PROVE  x + consumed' <= ledger' + inside'
  <2>1. x + consumed <= ledger + inside BY <1>3 DEF Covered
  <2>2. x + consumed' = x + consumed + u BY <1>1
  <2>3. ledger' + (inside + (u + v)) = ledger + inside + u BY <1>1
  <2>4. x + consumed + u <= ledger + inside + u BY <1>1, <2>1
  <2>5. ledger' + (inside + (u + v)) <= ledger' + inside'
    <3>1. PICK y \in Int : y = inside + (u + v) BY <1>1
    <3>2. y <= inside' BY <1>1, <1>2, <1>3, <3>1
    <3>3. ledger' + y <= ledger' + inside' BY <1>2, <3>1, <3>2, AddedTo
    <3> QED BY <3>1, <3>3
  <2>6. /\ x + consumed' \in Int /\ ledger' + (inside + (u + v)) \in Int
        /\ ledger' + inside' \in Int
    BY <1>1, <1>2
  <2>7. x + consumed' <= ledger' + (inside + (u + v)) BY <2>2, <2>3, <2>4
  <2> QED BY <2>5, <2>6, <2>7
<1>4. ReadsCovered'
  <2> SUFFICES ASSUME NEW c \in Between'
               PROVE  clerk'[c].before + consumed' <= ledger' + inside'
    BY DEF ReadsCovered, Covered
  <2>1. c \in Between /\ clerk'[c] = clerk[c] BY DEF Between
  <2>2. clerk[c].before \in Int /\ Covered(clerk[c].before)
    BY <2>1 DEF CreditInv, CreditTypeOK, ReadsCovered, Between
  <2> QED BY <1>3, <2>1, <2>2
<1>5. SweepCovered'
  <2> SUFFICES ASSUME sweep'.at = "cutting"
               PROVE  /\ sweep'.due \subseteq DOMAIN lots'
                      /\ sweep'.before + consumed' <= ledger' + inside'
    BY DEF SweepCovered, Covered
  <2>1. sweep' = sweep /\ sweep.before \in Int
    BY DEF CreditInv, CreditTypeOK
  <2>2. sweep.due \subseteq DOMAIN lots /\ Covered(sweep.before)
    BY <2>1 DEF CreditInv, SweepCovered
  <2> QED BY <1>3, <2>1, <2>2
<1> QED BY <1>4, <1>5

\* A number written back from a covered read leaves the balance covered.
LEMMA WrittenIsCovered ==
    ASSUME CreditInv, CreditTypeOK', NEW x \in Int, Covered(x),
           NEW w \in Int, balance' = x + w, ledger' = ledger + w,
           consumed' = consumed, inside <= inside'
    PROVE  CreditsNotConjured'
<1>1. consumed \in Int /\ ledger \in Int /\ inside \in Int
  BY CreditsAssumption DEF CreditInv, CreditTypeOK
<1>2. /\ consumed' \in Int /\ ledger' \in Int /\ inside' \in Int /\ balance' \in Int
  BY CreditsAssumption DEF CreditTypeOK
<1>3. x + consumed <= ledger + inside BY DEF Covered
<1>4. (x + w) + consumed <= (ledger + w) + inside BY <1>1, <1>3
<1>5. ledger' + inside <= ledger' + inside' BY <1>1, <1>2, AddedTo
<1>6. balance' + consumed' <= ledger' + inside BY <1>4
<1>7. /\ balance' + consumed' \in Int /\ ledger' + inside \in Int
      /\ ledger' + inside' \in Int
  BY <1>1, <1>2
<1>8. balance' + consumed' <= ledger' + inside' BY <1>5, <1>6, <1>7
<1> QED BY <1>8 DEF CreditsNotConjured

LEMMA SpendHolds ==
    ASSUME CreditInv, Spend
    PROVE  CreditInv'
<1>1. CreditTypeOK BY DEF CreditInv
<1>2. /\ balance \in Nat /\ consumed \in Nat /\ consumed' \in 0 .. MaxSpends
      /\ ledger \in Int /\ balance' \in Nat
      /\ inside \in Nat
  BY <1>1, CreditsAssumption DEF CreditTypeOK, Spend
<1>3. lots' \in Seq(Lot) /\ Len(lots') <= MaxLots /\ DOMAIN lots' = DOMAIN lots
  <2>1. lots \in Seq(Lot) /\ Len(lots) <= MaxLots BY <1>1 DEF CreditTypeOK
  <2>2. ASSUME Unused # {}
        PROVE  First \in DOMAIN lots /\ lots[First].left - 1 \in Nat
    <3>1. Unused \in SUBSET DOMAIN lots BY DEF Unused
    <3>2. \E i \in Unused : \A j \in Unused \ {i} : Sooner(i, j) BY <1>1, <2>2, <3>1, FirstLot
    <3>3. First \in Unused BY <3>2 DEF First
    <3>4. lots[First] \in Lot /\ lots[First].left > 0 BY <2>1, <3>1, <3>3 DEF Unused
    <3> QED BY <3>1, <3>3, <3>4 DEF Lot
  <2>3. CASE Unused = {} BY <2>1, <2>3 DEF Spend, Used
  <2>4. CASE Unused # {}
    <3>1. PICK f : f = First OBVIOUS
    <3>2. f \in DOMAIN lots /\ lots[f].left - 1 \in Nat BY <2>2, <2>4, <3>1
    <3>3. lots' = [lots EXCEPT ![f].left = @ - 1] BY <2>4, <3>1 DEF Spend, Used
    <3>4. lots[f] \in Lot BY <2>1, <3>2
    <3>5. [lots[f] EXCEPT !.left = @ - 1] \in Lot BY <3>2, <3>4 DEF Lot
    <3> QED BY <2>1, <3>2, <3>3, <3>5
  <2> QED BY <2>3, <2>4
<1>4. inside' \in Nat BY <1>2 DEF Spend, Drawn
<1>5. CreditTypeOK' BY <1>1, <1>2, <1>3, <1>4 DEF CreditTypeOK, Spend
<1>7. ReadsCovered' /\ SweepCovered'
  <2>1. sweep' = sweep /\ clerk' = clerk /\ Between' = Between BY DEF Spend, Between
  <2>2. (Between # {} \/ sweep.at # "idle") => inside' >= inside + (1 + 0)
    BY <1>2 DEF Spend, Drawn
  <2>3. consumed' = consumed + 1 /\ ledger' = ledger - 0 BY <1>2 DEF Spend
  <2> QED BY <1>3, <1>5, <2>1, <2>2, <2>3, ReadersStayCovered
<1>6. CreditsNotConjured'
  <2>1. balance' + consumed' = balance + consumed /\ ledger' = ledger BY <1>2 DEF Spend
  <2>2. inside <= inside' BY <1>2 DEF Spend, Drawn
  <2>3. balance + consumed <= ledger + inside BY DEF CreditInv, CreditsNotConjured
  <2>4. /\ balance \in Int /\ consumed \in Int /\ ledger \in Int /\ inside \in Int
        /\ balance' \in Int /\ consumed' \in Int /\ inside' \in Int
    BY <1>2, <1>4, CreditsAssumption
  <2>5. ledger + inside <= ledger' + inside'
    <3>1. ledger' = ledger BY <2>1
    <3> QED BY <2>2, <2>4, <3>1, AddedTo
  <2>6. balance' + consumed' <= ledger + inside BY <2>1, <2>3
  <2>7. balance' + consumed' \in Int /\ ledger + inside \in Int /\ ledger' + inside' \in Int
    BY <2>1, <2>4
  <2>8. balance' + consumed' <= ledger' + inside' BY <2>5, <2>6, <2>7
  <2> QED BY <2>8 DEF CreditsNotConjured
<1> QED BY <1>5, <1>6, <1>7 DEF CreditInv

\* A request that has read the balance has read a covered number.
LEMMA ClerkReadsHolds ==
    ASSUME CreditInv, NEW c \in Clerk, NEW what \in {"add", "remove", "approve"},
           ClerkReads(c, what)
    PROVE  CreditInv'
<1>1. CreditTypeOK BY DEF CreditInv
<1>2. /\ clerk \in [Clerk -> {[at |-> "idle"], [at |-> "done"]}
                             \cup [at : {"add", "remove", "approve"}, before : Nat]]
      /\ clerk' = [clerk EXCEPT ![c] = [at |-> what, before |-> balance]]
      /\ [at |-> what, before |-> balance] \in [at : {"add", "remove", "approve"}, before : Nat]
  BY <1>1 DEF CreditTypeOK, ClerkReads
<1>3. /\ UNCHANGED <<balance, lots, ledger, asked, sweep, day, consumed, inside>>
  BY DEF ClerkReads
<1>4. CreditTypeOK'
  <2>1. clerk' \in [Clerk -> {[at |-> "idle"], [at |-> "done"]}
                            \cup [at : {"add", "remove", "approve"}, before : Nat]]
    BY <1>2
  <2> QED BY <1>1, <1>3, <2>1 DEF CreditTypeOK
<1>5. ReadsCovered'
  <2> SUFFICES ASSUME NEW e \in Between'
               PROVE  clerk'[e].before + consumed <= ledger + inside
    BY <1>3 DEF ReadsCovered, Covered
  <2>1. CASE e = c BY <1>2, <2>1 DEF CreditInv, CreditsNotConjured
  <2>2. CASE e # c
    <3>1. clerk'[e] = clerk[e] /\ e \in Between BY <1>2, <2>2 DEF Between
    <3> QED BY <3>1 DEF CreditInv, ReadsCovered, Covered
  <2> QED BY <2>1, <2>2
<1>6. SweepCovered' /\ CreditsNotConjured'
  BY <1>3 DEF CreditInv, SweepCovered, Covered, CreditsNotConjured
<1> QED BY <1>4, <1>5, <1>6 DEF CreditInv

LEMMA CreditedHolds ==
    ASSUME CreditInv, NEW c \in Clerk, c \in Between, asked' \in {"pending", "approved"},
           NEW units \in Units, NEW valid \in {0} \cup (day + 1 .. Days),
           Credited(c, units, valid)
    PROVE  CreditInv'
<1>1. CreditTypeOK BY DEF CreditInv
<1>2. /\ units \in Nat /\ ledger \in Int /\ consumed \in Int /\ inside \in Int
      /\ clerk[c].before \in Nat /\ Covered(clerk[c].before) /\ valid \in 0 .. Days
  BY <1>1, CreditsAssumption DEF CreditInv, ReadsCovered, CreditTypeOK, Between
<1>3. /\ lots \in Seq(Lot) /\ Len(lots) < MaxLots /\ Len(lots) \in Nat
      /\ lots' = Append(lots, [size |-> units, valid |-> valid, left |-> units, took |-> -1])
      /\ [size |-> units, valid |-> valid, left |-> units, took |-> -1] \in Lot
  BY <1>1, <1>2 DEF CreditTypeOK, Credited, Lot
<1>4. /\ lots' \in Seq(Lot) /\ Len(lots') = Len(lots) + 1 /\ DOMAIN lots \subseteq DOMAIN lots'
  <2>1. lots' \in Seq(Lot) /\ Len(lots') = Len(lots) + 1 BY <1>3
  <2>2. DOMAIN lots = 1 .. Len(lots) /\ DOMAIN lots' = 1 .. Len(lots') BY <1>3, <2>1
  <2> QED BY <1>3, <2>1, <2>2
<1>5. Len(lots') <= MaxLots BY <1>3, <1>4, CreditsAssumption
<1>6. balance' \in Nat /\ ledger' \in Int BY <1>2 DEF Credited
<1>7. clerk' = [clerk EXCEPT ![c] = [at |-> "done"]] BY DEF Credited
<1>8. UNCHANGED <<sweep, day, consumed, inside>> BY DEF Credited
<1>9. clerk' \in [Clerk -> {[at |-> "idle"], [at |-> "done"]}
                          \cup [at : {"add", "remove", "approve"}, before : Nat]]
  BY <1>1, <1>7 DEF CreditTypeOK
<1>10. CreditTypeOK' BY <1>1, <1>4, <1>5, <1>6, <1>8, <1>9 DEF CreditTypeOK
<1>11. ReadsCovered' /\ SweepCovered'
  <2>1. \A e \in Between' : e # c /\ clerk'[e] = clerk[e] BY <1>1, <1>7 DEF Between, CreditTypeOK
  <2>2. PICK v \in Int : v = -units BY <1>2
  <2>3. ledger' = ledger - v /\ inside' >= inside + (0 + v) BY <1>2, <1>8, <2>2 DEF Credited
  <2>4. consumed' = consumed + 0 BY <1>2, <1>8
  <2> QED BY <1>4, <1>8, <1>10, <2>1, <2>2, <2>3, <2>4, ReadersStayCovered
<1>12. CreditsNotConjured'
  <2>1. balance' = clerk[c].before + units /\ ledger' = ledger + units BY DEF Credited
  <2>2. consumed' = consumed /\ inside <= inside' BY <1>2, <1>8
  <2> QED BY <1>2, <1>10, <2>1, <2>2, WrittenIsCovered
<1> QED BY <1>10, <1>11, <1>12 DEF CreditInv

\* Whether or not the number is written, what was taken is in the ledger.
LEMMA TakenHolds ==
    ASSUME CreditInv, CreditTypeOK', NEW x \in Int, Covered(x), NEW taken \in Nat,
           balance' = (IF taken = 0 THEN balance ELSE x - taken),
           ledger' = ledger - taken, consumed' = consumed, inside <= inside'
    PROVE  CreditsNotConjured'
<1>1. balance \in Int /\ ledger \in Int /\ Covered(balance)
  BY DEF CreditInv, CreditTypeOK, CreditsNotConjured, Covered
<1>2. PICK w \in Int : w = -taken OBVIOUS
<1>3. ledger' = ledger + w BY <1>1, <1>2
<1>4. CASE taken = 0
  <2>1. balance' = balance + w BY <1>1, <1>2, <1>4
  <2> QED BY <1>1, <1>2, <1>3, <2>1, WrittenIsCovered
<1>5. CASE taken # 0
  <2>1. balance' = x + w BY <1>2, <1>5
  <2> QED BY <1>2, <1>3, <2>1, WrittenIsCovered
<1> QED BY <1>4, <1>5

LEMMA RemoveHolds ==
    ASSUME CreditInv, NEW c \in Clerk, Remove(c)
    PROVE  CreditInv'
<1>1. CreditTypeOK /\ c \in Between BY DEF CreditInv, Remove, Between
<1>2. PICK u \in Units : Removed(c, u) BY DEF Remove
<1>3. /\ u \in Nat /\ balance \in Nat /\ ledger \in Int /\ consumed \in Int /\ inside \in Nat
      /\ clerk[c].before \in Nat /\ Covered(clerk[c].before)
  BY <1>1, CreditsAssumption DEF CreditInv, ReadsCovered, CreditTypeOK, Between
<1>4. PICK after : after = Max({0, clerk[c].before - u}) OBVIOUS
<1>5. after \in Nat /\ after <= clerk[c].before
  <2>1. PICK rest \in Int : rest = clerk[c].before - u BY <1>3
  <2>2. {0, rest} \in SUBSET Int /\ {0, rest} # {} OBVIOUS
  <2>3. IsFiniteSet({0, rest}) BY PairFinite
  <2>4. after \in {0, rest} /\ \A z \in {0, rest} : z <= after
    BY <1>4, <2>1, <2>2, <2>3, MaxIsGreatest
  <2> QED BY <1>3, <2>1, <2>4
<1>6. PICK taken \in Nat : taken = clerk[c].before - after BY <1>3, <1>5
<1>7. /\ balance' = IF after = clerk[c].before THEN balance ELSE after
      /\ ledger' = ledger - (clerk[c].before - after)
      /\ Drawn(clerk[c].before - after, Between \ {c})
  BY <1>2, <1>4 DEF Removed
<1>8. /\ balance' = IF taken = 0 THEN balance ELSE clerk[c].before - taken
      /\ ledger' = ledger - taken /\ Drawn(taken, Between \ {c})
  <2>1. taken = 0 <=> after = clerk[c].before BY <1>3, <1>5, <1>6
  <2>2. after = clerk[c].before - taken BY <1>3, <1>5, <1>6
  <2> QED BY <1>6, <1>7, <2>1, <2>2
<1>9. UNCHANGED <<lots, asked, sweep, day, consumed>> BY DEF Remove
<1>10. clerk' = [clerk EXCEPT ![c] = [at |-> "done"]] BY DEF Remove
<1>11. clerk' \in [Clerk -> {[at |-> "idle"], [at |-> "done"]}
                           \cup [at : {"add", "remove", "approve"}, before : Nat]]
  BY <1>1, <1>10 DEF CreditTypeOK
<1>12. balance' \in Nat /\ ledger' \in Int /\ inside' \in Nat /\ inside <= inside'
  BY <1>3, <1>5, <1>7, <1>8 DEF Drawn
<1>13. CreditTypeOK' BY <1>1, <1>9, <1>11, <1>12 DEF CreditTypeOK
<1>14. ReadsCovered' /\ SweepCovered'
  <2>1. \A e \in Between' : e \in Between \ {c} /\ clerk'[e] = clerk[e]
    BY <1>1, <1>10 DEF Between, CreditTypeOK
  <2>2. (Between \ {c} # {} \/ sweep.at # "idle") => inside' = inside + taken
    BY <1>8 DEF Drawn
  <2>3. (Between \ {c} # {} \/ sweep.at # "idle") => inside' >= inside + (0 + taken)
    BY <1>3, <2>2
  <2>4. ledger' = ledger - taken /\ consumed' = consumed + 0 BY <1>3, <1>8, <1>9
  <2>5. sweep' = sweep /\ DOMAIN lots \subseteq DOMAIN lots' BY <1>9
  <2> QED BY <1>13, <2>1, <2>3, <2>4, <2>5, ReadersStayCovered
<1>15. CreditsNotConjured' BY <1>3, <1>8, <1>9, <1>12, <1>13, TakenHolds
<1> QED BY <1>13, <1>14, <1>15 DEF CreditInv

LEMMA SweepReadsHolds ==
    ASSUME CreditInv, SweepReads
    PROVE  CreditInv'
<1>1. CreditTypeOK BY DEF CreditInv
<1>2. PICK due \in SUBSET DOMAIN lots :
          sweep' = [at |-> "cutting", before |-> balance, due |-> due]
  BY DEF SweepReads
<1>3. UNCHANGED <<balance, lots, ledger, asked, clerk, day, consumed, inside>> BY DEF SweepReads
<1>4. due \in SUBSET (1 .. MaxLots) BY <1>1, LotsOrdered
<1>5. balance \in Nat BY <1>1 DEF CreditTypeOK
<1>6. CreditTypeOK'
  <2>1. sweep' \in [at : {"cutting"}, before : Nat, due : SUBSET (1 .. MaxLots)]
    BY <1>2, <1>4, <1>5
  <2> QED BY <1>1, <1>3, <2>1 DEF CreditTypeOK
<1>7. SweepCovered'
  BY <1>2, <1>3 DEF CreditInv, SweepCovered, Covered, CreditsNotConjured
<1>8. ReadsCovered' /\ CreditsNotConjured'
  BY <1>3 DEF CreditInv, ReadsCovered, Between, Covered, CreditsNotConjured
<1> QED BY <1>6, <1>7, <1>8 DEF CreditInv

LEMMA SweepWritesHolds ==
    ASSUME CreditInv, SweepWrites
    PROVE  CreditInv'
<1>1. CreditTypeOK BY DEF CreditInv
<1>2. /\ sweep.at = "cutting" /\ sweep.due \subseteq DOMAIN lots /\ Covered(sweep.before)
      /\ sweep.before \in Nat /\ balance \in Nat /\ ledger \in Int /\ consumed \in Int
      /\ inside \in Nat
  BY CreditsAssumption DEF CreditInv, SweepWrites, SweepCovered, CreditTypeOK
<1>3. PICK taken : taken = SumFunction([i \in sweep.due |-> Cut(i)]) OBVIOUS
<1>4. /\ \A i \in sweep.due : Cut(i) \in Nat
      /\ taken \in Nat /\ taken <= sweep.before
  BY <1>1, <1>2, <1>3, CutsFit
<1>5. /\ balance' = IF taken = 0 THEN balance ELSE sweep.before - taken
      /\ ledger' = ledger - taken
      /\ inside' = IF Between = {} THEN inside ELSE inside + taken
  BY <1>3 DEF SweepWrites
<1>6. /\ lots' = [i \in DOMAIN lots |->
                     IF i \in sweep.due THEN [lots[i] EXCEPT !.took = Cut(i)] ELSE lots[i]]
      /\ sweep' = [at |-> "idle"]
      /\ UNCHANGED <<asked, clerk, day, consumed>>
  BY DEF SweepWrites
<1>7. lots' \in Seq(Lot) /\ Len(lots') <= MaxLots /\ DOMAIN lots' = DOMAIN lots
  <2>1. lots \in Seq(Lot) /\ Len(lots) <= MaxLots BY <1>1 DEF CreditTypeOK
  <2>2. DOMAIN lots = 1 .. Len(lots) /\ Len(lots) \in Nat BY <2>1
  <2>3. ASSUME NEW i \in DOMAIN lots PROVE lots'[i] \in Lot
    <3>1. lots[i] \in Lot BY <2>1, <2>3
    <3>2. CASE i \in sweep.due
      <4>1. PICK k \in Nat : k = Cut(i) BY <1>4, <3>2
      <4>2. lots'[i] = [lots[i] EXCEPT !.took = k] BY <1>6, <3>2, <4>1
      <4> QED BY <3>1, <4>1, <4>2 DEF Lot
    <3>3. CASE i \notin sweep.due BY <1>6, <3>1, <3>3
    <3> QED BY <3>2, <3>3
  <2>4. lots' \in [1 .. Len(lots) -> Lot] BY <1>6, <2>2, <2>3
  <2>5. lots' \in Seq(Lot) BY <2>2, <2>4
  <2>6. Len(lots') = Len(lots) BY <2>2, <2>4, <2>5
  <2> QED BY <2>1, <2>2, <2>4, <2>5, <2>6
<1>8. balance' \in Nat /\ ledger' \in Int /\ inside' \in Nat /\ inside <= inside'
  BY <1>2, <1>4, <1>5
<1>9. CreditTypeOK' BY <1>1, <1>6, <1>7, <1>8 DEF CreditTypeOK
<1>10. ReadsCovered' /\ SweepCovered'
  <2>1. \A e \in Between' : e \in Between /\ clerk'[e] = clerk[e] BY <1>6 DEF Between
  <2>2. Between # {} => inside' >= inside + (0 + taken) BY <1>2, <1>4, <1>5
  <2>3. consumed' = consumed + 0 BY <1>2, <1>6
  <2>4. sweep'.at # "cutting" BY <1>6
  <2> QED BY <1>4, <1>5, <1>7, <1>9, <2>1, <2>2, <2>3, <2>4, ReadersStayCovered
<1>11. CreditsNotConjured' BY <1>2, <1>4, <1>5, <1>6, <1>8, <1>9, TakenHolds
<1> QED BY <1>9, <1>10, <1>11 DEF CreditInv

LEMMA CreditInvInductive == CreditInv /\ [CreditNext]_creditVars => CreditInv'
<1> SUFFICES ASSUME CreditInv, [CreditNext]_creditVars PROVE CreditInv' OBVIOUS
<1>1. CASE Spend BY <1>1, SpendHolds
<1>2. ASSUME NEW c \in Clerk, NEW what \in {"add", "remove", "approve"}, ClerkReads(c, what)
      PROVE  CreditInv'
  BY <1>2, ClerkReadsHolds
<1>3. ASSUME NEW c \in Clerk, Recharge(c) PROVE CreditInv'
  <2>1. c \in Between /\ asked' \in {"pending", "approved"}
    BY <1>3 DEF Recharge, Between, CreditInv, CreditTypeOK
  <2> QED BY <1>3, <2>1, CreditedHolds DEF Recharge
<1>4. ASSUME NEW c \in Clerk, Approve(c) PROVE CreditInv'
  <2>1. c \in Between /\ asked' \in {"pending", "approved"} BY <1>4 DEF Approve, Between
  <2> QED BY <1>4, <2>1, CreditedHolds DEF Approve
<1>5. ASSUME NEW c \in Clerk, Remove(c) PROVE CreditInv' BY <1>5, RemoveHolds
<1>6. CASE SweepReads BY <1>6, SweepReadsHolds
<1>7. CASE SweepWrites BY <1>7, SweepWritesHolds
<1>8. CASE NextDay
  <2>1. CreditTypeOK' BY <1>8, CreditsAssumption DEF CreditInv, CreditTypeOK, NextDay
  <2>2. ReadsCovered' /\ SweepCovered' /\ CreditsNotConjured'
    BY <1>8 DEF CreditInv, NextDay, ReadsCovered, SweepCovered, CreditsNotConjured, Covered, Between
  <2> QED BY <2>1, <2>2 DEF CreditInv
<1>9. CASE UNCHANGED creditVars
  <2>1. CreditTypeOK' BY <1>9 DEF CreditInv, CreditTypeOK, creditVars
  <2>2. ReadsCovered' /\ SweepCovered' /\ CreditsNotConjured'
    BY <1>9 DEF CreditInv, creditVars, ReadsCovered, SweepCovered, CreditsNotConjured, Covered, Between
  <2> QED BY <2>1, <2>2 DEF CreditInv
<1> QED BY <1>1, <1>2, <1>3, <1>4, <1>5, <1>6, <1>7, <1>8, <1>9 DEF CreditNext

\* Balance, ledger, lots and the requests of the panel keep their shapes: no
\* removal, expiry or spend takes the balance below zero.
THEOREM CreditsTyped == CreditSpec => []CreditTypeOK
<1>1. CreditInv => CreditTypeOK BY DEF CreditInv
<1> QED BY <1>1, CreditStart, CreditInvInductive, PTL DEF CreditSpec

\* However recharges, removals, spends and the nightly expiry interleave, a
\* tenant can use no more credits than the ledger grants and what was drawn
\* while somebody was between reading and writing the balance.
THEOREM CreditsCovered == CreditSpec => []CreditsNotConjured
<1>1. CreditInv => CreditsNotConjured BY DEF CreditInv
<1> QED BY <1>1, CreditStart, CreditInvInductive, PTL DEF CreditSpec

=============================================================================
