\* Two collect sheets with a retry in flight, a payment link and one trouble,
\* a payment typed by hand among them, on two bills; two staff, two ticks, two
\* payments, a rename; three lots and two uses of a tenant's credits; three AI
\* calls side by side; five billing events in three days; three requests on an
\* order's stages; two workers of a campaign to two customers; two requests
\* billing two pickups with two hitches; two requests, two lists and a code in
\* self-orders; two requests, two orders and a snag in referrals.
CONSTANTS
    r1 = r1
    r2 = r2
    a = a
    b = b
    A = A
    B = B
    q1 = q1
    q2 = q2
    smart = smart
    cheap = cheap
    e1 = e1
    e2 = e2
    e3 = e3
    f1 = f1
    p1 = p1
    p2 = p2
    c1 = c1
    c2 = c2
    w1 = w1
    w2 = w2
    t1 = t1
    t2 = t2
    b1 = b1
    b2 = b2
    b3 = b3
    d1 = d1
    g1 = g1
    Order = {1, 2}
    FirstTotal <- Bills
    Prices = {1}
    Desk = {q1, q2}
    Sheet = {r1, r2}
    Body <- Bodies
    Link = {l1}
    Tender = {2}
    Nothing = Nothing
    MaxRows = 4
    MaxTrouble = 1
    Staff = {a, b}
    Name = {A, B}
    FirstName <- Names
    Manager = {m1}
    Request = {q1, q2}
    LookBack = 1
    MaxTime = 1
    MaxPayments = 2
    MaxRenames = 1
    Clerk = {q1, q2, q3}
    Units = {1, 2}
    MaxLots = 3
    MaxSpends = 2
    Days = 1
    Call = {q1, q2, q3}
    Model = {smart, cheap}
    Cost <- Costs
    Price <- AnswerPrices
    Cheap = cheap
    Budget = 4
    Cap = 2
    MaxFlaws = 2
    Event = {e1, e2, e3, f1, g1}
    Kind <- EventKinds
    EntityOf <- EventEntities
    Identified = {e3}
    Named = {e1, e2, e3, f1}
    Until <- EventUntil
    Delivery = {q1, q2}
    TrialEnd = 1
    Cycle = 2
    Grace = 1
    LastDay = 3
    MaxBreaks = 1
    Actor = {q1, q2}
    Processing = {"IN_WASH", "IN_IRON"}
    MaxMoves = 3
    MaxTasks = 4
    Customer = {c1, c2}
    Sender = {w1, w2}
    Owner = {o1}
    Nobody = Nobody
    MonthBudget = 1
    DailyCap = 2
    PageSize = 2
    Resync = 1
    MaxNews = 1
    Asker = {q1, q2}
    Pickup = {t1, t2}
    Bill = {b1, b2, b3}
    PickupBill <- Errands
    Counter = Counter
    Unbilled = Unbilled
    Threshold = 1
    MaxAsked = 3
    MaxHitches = 2
    Tap = {q1, q2}
    List = {a, b}
    Code = {d1}
    MaxDrafts = 1
    MaxWebOrders = 3
    MaxUpsets = 1
    Till = {q1, q2}
    Referrer = {a, b}
    Plain = Plain
    MaxBought = 2
    MaxSnags = 1
SPECIFICATION Spec
INVARIANTS TypeOK CollectionsHeld CashCountedOnce CreditsNotConjured BudgetHeld
INVARIANTS PaidIsServed WorkListed CampaignHeld 
INVARIANTS OneOrderPerList ReferralPaidOnce
PROPERTY LedgerKept
SYMMETRY Alike
CHECK_DEADLOCK FALSE
