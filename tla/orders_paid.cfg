\* Two concurrent requests on an order of two clothes, five commits.
CONSTANTS
    s1 = s1
    s2 = s2
    x1 = x1
    Session = {s1, s2}
    Pieces = 2
    Price = {0, 2}
    Amount = {2}
    Extra = {x1}
    Charge <- Charges
    MaxCommits = 5
SPECIFICATION Spec
INVARIANT PaymentRule
