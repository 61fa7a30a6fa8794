------------------------------ MODULE MCDedup ------------------------------
\* E-mails of two domains a and b: the amounts are within half a percent, or
\* three, the days within one, or three; some share a merchant or a reference.
EXTENDS Dedup

CONSTANTS c1, c2
Row(dom, day, amt, sub, mer, ref) ==
  [domain |-> dom, day |-> day, amount |-> amt, subject |-> sub, merchant |-> mer, ref |-> ref]
ThreeInboxes == {
  <<Row("a", 0, 1000, "order", "m", "r1"),
    Row("a", 3, 1004, "plain", "n", "r2"),
    Row("b", 3, 1004, "confirmation", "o", "r3")>>,
  <<Row("a", 0, 1000, "plain", "m", "r1"),
    Row("b", 0, 1005, "plain", "n", "r2"),
    Row("b", 2, 1010, "plain", "n", "r1")>>,
  <<Row("a", 0, 1000, "plain", "m", "r1"),
    Row("b", 2, 1020, "plain", "m", "r2"),
    Row("b", 2, 995, "plain", "n", "r1")>>}
OneOrder == {<<1, 2, 3>>}
=============================================================================
