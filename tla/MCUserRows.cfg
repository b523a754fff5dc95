CONSTANTS
    User = {u1, u2}
    Token = {t1, t2}
    Req = {r1, r2}
    None = None
    Item = {i1}
    Order = {o1}
    ItemOf <- MCItemOf
    Entry = {e1, e2}
    Inbox <- MCInbox
SPECIFICATION FairSpec
INVARIANTS RowsTypeOK OneHolder CirclesAreKnown
PROPERTIES LiveTokensKept RefinesDevices RequestsFinish
