CONSTANTS
    Seller = seller
    Buyer = {b1, b2}
    Stranger = {x}
    Socket = {s1, s2}
    Msg = {m1, m2}
    Req = {r1, r2}
    None = None
SYMMETRY Symmetry
VIEW View
SPECIFICATION Spec
INVARIANTS TypeOK ConversationsHaveSeller CountedOnce ReadIsReported
PROPERTIES MessageReachesParties ReceiptReachesSender
